------------------------------ MODULE Scrubber ------------------------------
(***************************************************************************)
(* The passes of SealedScrubber: the loop of Start and Stop, and the passes *)
(* POST /admin/scrub/runonce asks for, which may run beside it.  A pass is a *)
(* goroutine that walks the directories of a live store, a bounded channel *)
(* of jobs, and goroutines that verify one object after the other and may   *)
(* have to wait for the bounded repair queue.                               *)
(*                                                                          *)
(* What verifying one object finds in its bytes is in SealedObject, what    *)
(* becomes of the queue and how main stops everybody is in RepairPipeline.  *)
(***************************************************************************)
EXTENDS Integers, Sequences, FiniteSets, FiniteSetsExt

CONSTANTS Keys,        \* how many keys there are, in the order of their names
          Audits,      \* requests for a pass
          Verifiers,   \* verifying goroutines of each pass (scrubber.concurrency)
          Loop,        \* the background loop
          JobCap,      \* capacity of the job channel (1024)
          QueueCap,    \* capacity of the repair queue (1024)
          MaxEvents,   \* bound: passes that begin and changes to objects
          None

Key == 1..Keys
Passes == Audits \cup {Loop}

ASSUME BoundsAssumption ==
  /\ {Keys, MaxEvents} \subseteq Nat
  /\ {JobCap, QueueCap} \subseteq Nat \ {0}
  /\ IsFiniteSet(Audits) /\ IsFiniteSet(Verifiers) /\ Verifiers # {}
ASSUME NamesAssumption == Loop \notin Audits /\ None \notin Nat

VARIABLES obj,      \* what the walk and the verification see of an object
          pass,     \* each pass: its context, its walk and its channels
          vf,       \* each pass's verifying goroutines
          loop,     \* the loop goroutine
          stop,     \* the call of Stop
          repairs,  \* is there a repair queue, and a worker on it
          queue,    \* how many items are in it
          stats,    \* the counters of Stats
          events,   \* passes begun and changes to objects
          seen      \* history of each pass

vars == <<obj, pass, vf, loop, stop, repairs, queue, stats, events, seen>>
life == <<loop, stop, events>>

(* "dir" is a directory without a manifest, "junk" a manifest that does not  *)
(* load, "bad" a manifest whose shard is missing, damaged or another's.     *)
Object == {"absent", "dir", "good", "bad", "junk"}
HasManifest == {"good", "bad", "junk"}

NoPass == [pc |-> "off", cancelled |-> FALSE, walk |-> "read", names |-> {},
           jobs |-> <<>>, err |-> FALSE]
Waiting == [pc |-> "idle", key |-> None, stale |-> FALSE]
Nothing == [steady |-> {}, verified |-> [k \in Key |-> 0], failed |-> {}, asked |-> {}]

TypeOK ==
  /\ obj \in [Key -> Object]
  /\ pass \in [Passes -> [pc: {"off", "run", "ended"}, cancelled: BOOLEAN,
                          walk: {"read", "visit", "send", "closed"},
                          names: SUBSET Key, jobs: Seq(Key), err: BOOLEAN]]
  /\ \A p \in Passes: Len(pass[p].jobs) <= JobCap
  /\ vf \in [Passes -> [Verifiers -> [pc: {"idle", "check", "enqueue", "count", "exited"},
                                      key: Key \cup {None}, stale: BOOLEAN]]]
  /\ loop \in {"run", "wait", "exited"}
  /\ stop \in {"no", "wait", "ok", "expired"}
  /\ repairs \in {"none", "queue", "worker"}
  /\ queue \in 0..QueueCap
  /\ stats \in [scanned: Nat, errors: Nat, lastError: BOOLEAN]
  /\ events \in 0..MaxEvents
  /\ seen \in [Passes -> [steady: SUBSET Key, verified: [Key -> Nat],
                          failed: SUBSET Key, asked: SUBSET Key]]

Init ==
  /\ obj \in [Key -> Object]
  /\ pass = [p \in Passes |-> NoPass]
  /\ vf = [p \in Passes |-> [v \in Verifiers |-> Waiting]]
  /\ loop = "wait"
  /\ stop = "no"
  /\ repairs \in {"none", "queue", "worker"}
  /\ queue = 0
  /\ stats = [scanned |-> 0, errors |-> 0, lastError |-> FALSE]
  /\ events = 0
  /\ seen = [p \in Passes |-> Nothing]

---------------------------------------------------------------------------
(* Begin and end of a pass: RunOnce, loop, Stop *)

Begin(p) ==
  /\ pass[p].pc = "off" /\ events < MaxEvents
  /\ events' = events + 1
  /\ pass' = [pass EXCEPT ![p].pc = "run"]
  /\ seen' = [seen EXCEPT ![p].steady = Key]

RunOnce(p) ==
  /\ p \in Audits /\ Begin(p)
  /\ UNCHANGED <<obj, vf, loop, stop, repairs, queue, stats>>

(* The loop's first pass, and one for each tick of its timer *)
LoopTick ==
  /\ loop = "wait" /\ Begin(Loop)
  /\ loop' = "run"
  /\ UNCHANGED <<obj, vf, stop, repairs, queue, stats>>

(* wg.Wait returned; errCh is read once. *)
End(p) ==
  /\ pass[p].pc = "run"
  /\ \A v \in Verifiers: vf[p][v].pc = "exited"
  /\ pass' = [pass EXCEPT ![p].pc = "ended"]
  /\ stats' = [stats EXCEPT !.lastError = @ \/ pass[p].err]
  /\ UNCHANGED <<obj, vf, life, repairs, queue, seen>>

Return(p) ==
  /\ pass[p].pc = "ended"
  /\ pass' = [pass EXCEPT ![p] = NoPass]
  /\ vf' = [vf EXCEPT ![p] = [v \in Verifiers |-> Waiting]]
  /\ seen' = [seen EXCEPT ![p] = Nothing]
  /\ loop' = IF p = Loop THEN "wait" ELSE loop
  /\ UNCHANGED <<obj, stop, events, repairs, queue, stats>>

(* The client of a request goes away; the loop's passes run under Background. *)
Cancel(p) ==
  /\ p \in Audits /\ pass[p].pc = "run" /\ ~pass[p].cancelled
  /\ pass' = [pass EXCEPT ![p].cancelled = TRUE]
  /\ UNCHANGED <<obj, vf, life, repairs, queue, stats, seen>>

(* Stop: the signal does not block, so it arrives only if the loop waits.    *)
StopSignal ==
  /\ stop = "no"
  /\ stop' = "wait"
  /\ loop' = IF loop = "wait" THEN "exited" ELSE loop
  /\ UNCHANGED <<obj, pass, vf, events, repairs, queue, stats, seen>>

(* Variant: Stop returns whether or not the loop is done *)
StopReturnsAtOnce ==
  /\ stop = "wait" /\ stop' \in {"ok", "expired"}
  /\ UNCHANGED <<obj, pass, vf, loop, events, repairs, queue, stats, seen>>

(* ... and waits for doneCh or its context. *)
StopReturns ==
  /\ stop = "wait"
  /\ \/ loop = "exited" /\ stop' = "ok"
     \/ stop' = "expired"
  /\ UNCHANGED <<obj, pass, vf, loop, events, repairs, queue, stats, seen>>

---------------------------------------------------------------------------
(* The producer goroutine of scanAll: filepath.WalkDir *)

Walking(p, at) == pass[p].pc = "run" /\ pass[p].walk = at
WalkOnly == UNCHANGED <<obj, vf, life, repairs, queue, stats, seen>>

(* The entries of a directory are visited in the order of their names. *)
NextName(p) == Min(pass[p].names)

(* A directory is read as a whole before its entries are visited. *)
WalkRead(p) ==
  /\ Walking(p, "read")
  /\ pass' = [pass EXCEPT
       ![p].walk = "visit",
       ![p].names = {k \in Key: obj[k] # "absent"}]
  /\ WalkOnly

(* Variant: an entry that has gone ends the walk *)
WalkVisitStops(p) ==
  /\ Walking(p, "visit")
  /\ IF pass[p].names = {}
       THEN pass' = [pass EXCEPT ![p].walk = "closed"]
       ELSE CASE obj[NextName(p)] = "absent" ->
                   pass' = [pass EXCEPT ![p].err = TRUE, ![p].walk = "closed"]
              [] obj[NextName(p)] = "dir" ->
                   pass' = [pass EXCEPT ![p].names = @ \ {NextName(p)}]
              [] OTHER -> pass' = [pass EXCEPT ![p].walk = "send"]
  /\ WalkOnly

(* The entries of the next directory: it has gone meanwhile (the first such   *)
(* error is kept), it has no manifest, or its manifest is a job.            *)
WalkVisit(p) ==
  /\ Walking(p, "visit")
  /\ IF pass[p].names = {}
       THEN pass' = [pass EXCEPT ![p].walk = "closed"]
       ELSE CASE obj[NextName(p)] = "absent" ->
                   pass' = [pass EXCEPT ![p].err = TRUE, ![p].names = @ \ {NextName(p)}]
              [] obj[NextName(p)] = "dir" ->
                   pass' = [pass EXCEPT ![p].names = @ \ {NextName(p)}]
              [] OTHER -> pass' = [pass EXCEPT ![p].walk = "send"]
  /\ WalkOnly

(* Variant: a job channel without a bound *)
WalkSendUnbounded(p) ==
  /\ Walking(p, "send")
  /\ pass' = [pass EXCEPT ![p].walk = "visit", ![p].names = @ \ {NextName(p)},
                          ![p].jobs = Append(@, NextName(p))]
  /\ WalkOnly

WalkSend(p) ==
  /\ Walking(p, "send") /\ Len(pass[p].jobs) < JobCap
  /\ pass' = [pass EXCEPT ![p].walk = "visit", ![p].names = @ \ {NextName(p)},
                          ![p].jobs = Append(@, NextName(p))]
  /\ WalkOnly

(* The context's end, if the select takes it, ends the walk; nobody hears of *)
(* it, and the channel is closed.                                           *)
WalkStop(p) ==
  /\ Walking(p, "send") /\ pass[p].cancelled
  /\ pass' = [pass EXCEPT ![p].walk = "closed"]
  /\ WalkOnly

---------------------------------------------------------------------------
(* A verifying goroutine: verifyObject for each job *)

Verifying(p, v, at) == pass[p].pc = "run" /\ vf[p][v].pc = at
Step(p, v, to) == vf' = [vf EXCEPT ![p][v].pc = to]

(* Receives a job and loads the manifest; one that is gone or does not load  *)
(* is passed over, uncounted.                                               *)
VerifyTake(p, v) ==
  /\ Verifying(p, v, "idle") /\ pass[p].jobs # <<>>
  /\ LET k == Head(pass[p].jobs)
     IN  /\ pass' = [pass EXCEPT ![p].jobs = Tail(@)]
         /\ IF obj[k] \in {"good", "bad"}
              THEN /\ vf' = [vf EXCEPT ![p][v] = [pc |-> "check", key |-> k, stale |-> FALSE]]
                   /\ seen' = [seen EXCEPT ![p].verified[k] = @ + 1]
              ELSE UNCHANGED <<vf, seen>>
  /\ UNCHANGED <<obj, life, repairs, queue, stats>>

(* An object that changed after its manifest was loaded may pass or not. *)
Outcomes(p, v) == CASE obj[vf[p][v].key] \in {"absent", "dir"} -> {"fails"}
                    [] vf[p][v].stale -> {"fails", "passes"}
                    [] obj[vf[p][v].key] = "bad" -> {"fails"}
                    [] OTHER -> {"passes"}

(* Variant: an object that fails is not counted as scanned *)
VerifyShardReturns(p, v) ==
  /\ Verifying(p, v, "check")
  /\ \/ /\ "fails" \in Outcomes(p, v)
        /\ stats' = [stats EXCEPT !.errors = @ + 1]
        /\ seen' = [seen EXCEPT ![p].failed = @ \cup {vf[p][v].key}]
        /\ vf' = [vf EXCEPT ![p][v] = Waiting]
     \/ /\ "passes" \in Outcomes(p, v)
        /\ Step(p, v, "count") /\ UNCHANGED <<stats, seen>>
  /\ UNCHANGED <<obj, pass, life, repairs, queue>>

VerifyShard(p, v) ==
  /\ Verifying(p, v, "check")
  /\ \/ /\ "fails" \in Outcomes(p, v)
        /\ stats' = [stats EXCEPT !.errors = @ + 1]
        /\ seen' = [seen EXCEPT ![p].failed = @ \cup {vf[p][v].key}]
        /\ Step(p, v, IF repairs = "none" THEN "count" ELSE "enqueue")
     \/ /\ "passes" \in Outcomes(p, v)
        /\ Step(p, v, "count") /\ UNCHANGED <<stats, seen>>
  /\ UNCHANGED <<obj, pass, life, repairs, queue>>

(* Variant: a full queue is not waited for *)
VerifyEnqueueTry(p, v) ==
  /\ Verifying(p, v, "enqueue")
  /\ IF queue < QueueCap
       THEN /\ queue' = queue + 1
            /\ seen' = [seen EXCEPT ![p].asked = @ \cup {vf[p][v].key}]
       ELSE UNCHANGED <<queue, seen>>
  /\ Step(p, v, "count")
  /\ UNCHANGED <<obj, pass, life, repairs, stats>>

VerifyEnqueue(p, v) ==
  /\ Verifying(p, v, "enqueue") /\ queue < QueueCap
  /\ queue' = queue + 1
  /\ seen' = [seen EXCEPT ![p].asked = @ \cup {vf[p][v].key}]
  /\ Step(p, v, "count")
  /\ UNCHANGED <<obj, pass, life, repairs, stats>>

(* Variant: the repair is enqueued under Background also for a request *)
VerifyEnqueueBackground(p, v) == FALSE /\ UNCHANGED vars

VerifyEnqueueCancelled(p, v) ==
  /\ Verifying(p, v, "enqueue") /\ pass[p].cancelled
  /\ Step(p, v, "count")
  /\ UNCHANGED <<obj, pass, life, repairs, queue, stats, seen>>

VerifyCount(p, v) ==
  /\ Verifying(p, v, "count")
  /\ stats' = [stats EXCEPT !.scanned = @ + 1]
  /\ vf' = [vf EXCEPT ![p][v] = Waiting]
  /\ UNCHANGED <<obj, pass, life, repairs, queue, seen>>

VerifyExit(p, v) ==
  /\ Verifying(p, v, "idle")
  /\ pass[p].walk = "closed" /\ pass[p].jobs = <<>>
  /\ Step(p, v, "exited")
  /\ UNCHANGED <<obj, pass, life, repairs, queue, stats, seen>>

---------------------------------------------------------------------------
(* The environment *)

(* Puts, Deletes, rot of a shard or a manifest, repairs: what they have done *)
(* to an object by the time somebody looks at it again.                     *)
Change(k) ==
  /\ events < MaxEvents
  /\ events' = events + 1
  /\ \E to \in Object: obj' = [obj EXCEPT ![k] = to]
  /\ vf' = [p \in Passes |-> [v \in Verifiers |->
              IF vf[p][v].pc = "check" /\ vf[p][v].key = k
              THEN [vf[p][v] EXCEPT !.stale = TRUE] ELSE vf[p][v]]]
  /\ seen' = [p \in Passes |-> [seen[p] EXCEPT !.steady = @ \ {k}]]
  /\ UNCHANGED <<pass, loop, stop, repairs, queue, stats>>

(* A repair worker takes an item. *)
Drain ==
  /\ repairs = "worker" /\ queue > 0
  /\ queue' = queue - 1
  /\ UNCHANGED <<obj, pass, vf, life, repairs, stats, seen>>

---------------------------------------------------------------------------
Walk(p) == WalkRead(p) \/ WalkVisit(p) \/ WalkSend(p) \/ WalkStop(p)
Verify(p, v) ==
  \/ VerifyTake(p, v) \/ VerifyShard(p, v) \/ VerifyEnqueue(p, v)
  \/ VerifyEnqueueCancelled(p, v) \/ VerifyCount(p, v) \/ VerifyExit(p, v)

Next ==
  \/ \E p \in Passes: RunOnce(p) \/ End(p) \/ Return(p) \/ Cancel(p) \/ Walk(p)
  \/ \E p \in Passes, v \in Verifiers: Verify(p, v)
  \/ LoopTick \/ StopSignal \/ StopReturns
  \/ \E k \in Key: Change(k)
  \/ Drain

Spec == Init /\ [][Next]_vars

(* Goroutines that can run do run, and a worker takes what is queued.  Nobody *)
(* has to ask for a pass, to cancel or to stop, and nothing has to change.  *)
FairSpec ==
  /\ Spec
  /\ \A p \in Passes: WF_vars(Walk(p)) /\ WF_vars(End(p) \/ Return(p))
  /\ \A p \in Passes, v \in Verifiers: WF_vars(Verify(p, v))
  /\ WF_vars(Drain)

---------------------------------------------------------------------------
(* Properties *)

Ended(p) == pass[p].pc = "ended"

(* A pass whose client did not go away verifies every object that was there   *)
(* and unchanged all through it exactly once, whatever other keys appear,    *)
(* disappear or fail around it; no pass verifies an object twice.           *)
PassCovers ==
  \A p \in Passes:
    /\ \A k \in Key: seen[p].verified[k] <= 1
    /\ Ended(p) /\ ~pass[p].cancelled =>
         \A k \in seen[p].steady: obj[k] \in {"good", "bad"} => seen[p].verified[k] = 1

(* Of the objects that did not change during such a pass exactly the damaged  *)
(* ones are reported, each with a repair when there is a queue, however full *)
(* it was; and the pass fails only if something changed under its walk.     *)
PassSound ==
  \A p \in Passes: Ended(p) =>
    /\ \A k \in seen[p].steady \cap seen[p].failed: obj[k] = "bad"
    /\ pass[p].err => seen[p].steady # Key
    /\ ~pass[p].cancelled =>
         \A k \in seen[p].steady: obj[k] = "bad" =>
           k \in seen[p].failed /\ (repairs # "none" => k \in seen[p].asked)

(* Errors never exceed the objects scanned, but for those whose verification *)
(* is between the two counters, at most one for each goroutine.             *)
ErrorsAreScanned ==
  stats.errors <= stats.scanned
    + Cardinality({pv \in Passes \X Verifiers:
                     vf[pv[1]][pv[2]].pc \in {"enqueue", "count"}})

(* When Stop answers that the scrubber stopped, no goroutine of the loop is   *)
(* left, and none starts again.                                             *)
StoppedIsQuiet ==
  stop = "ok" => loop = "exited" /\ pass[Loop] = NoPass

(* A pass ends although walker, verifiers and repair queue wait for each      *)
(* other: the loop's when a worker drains the queue or there is none, and one *)
(* whose client goes away also when nobody does.                            *)
PassEnds ==
  /\ repairs # "queue" => []<>(pass[Loop].pc = "off")
  /\ \A p \in Audits: pass[p].cancelled ~> pass[p].pc = "off"

=============================================================================
