--------------------------- MODULE RepairPipeline ---------------------------
(***************************************************************************)
(* The repair pipeline of one server process: the bounded in-memory repair  *)
(* queue (MemQueue), everyone who enqueues into it (S3 reads that met an    *)
(* integrity failure, admin requests, the goroutines of the sealed          *)
(* scrubber), the goroutines of the repair worker with pause and resume,    *)
(* the loop of the scrubber, and the shutdown sequence of main, which stops *)
(* them one after the other under one deadline.                             *)
(*                                                                          *)
(* A step is one operation on a channel, an atomic or a wait group.  What a *)
(* repair does to the files is in SealedObject.                             *)
(***************************************************************************)
EXTENDS Integers, Sequences, FiniteSets, SequencesExt

CONSTANTS Requests,   \* HTTP requests, with a context that may be cancelled
          Scanners,   \* goroutines of the scrubber's own passes
          Loops,      \* goroutines of the repair worker
          Items,      \* how many repair items come up
          Configs,    \* the configurations the process may be started with
          Pausing,    \* are the pause and resume endpoints used
          Deadline,   \* may the 10 s shutdown deadline expire
          None        \* no item

(* repair.enabled, repair.workerEnabled and scrubber.enabled, and the capacity *)
(* NewMemQueue is given.  main starts the worker only with the queue.       *)
Config == {c \in [queue: BOOLEAN, worker: BOOLEAN, scrub: BOOLEAN, cap: Nat \ {0}]:
             c.worker => c.queue}

ASSUME ConfigsAssumption == Configs \subseteq Config
ASSUME SwitchAssumption == {Pausing, Deadline} \subseteq BOOLEAN
ASSUME ItemsAssumption == Items \in Nat /\ None \notin Nat
ASSUME ProcsAssumption ==
  /\ IsFiniteSet(Loops)
  /\ Requests \cap Scanners = {}
  /\ Loops \cap (Requests \cup Scanners) = {}

Producers == Requests \cup Scanners

(* Items are numbered in the order in which they come up. *)
Item == 1..Items

VARIABLES conf,      \* which parts main started
          queue,     \* the buffered channel of MemQueue
          qclosed,   \* MemQueue.closed
          chClosed,  \* is the channel closed
          seen,      \* how many items somebody has come across
          en,        \* producers: their task, its pc and the item in Enqueue
          lp,        \* worker goroutines: their pc and item in hand
          worker,    \* the worker's cancelled, paused, inflight and counters
          scrub,     \* the loop of the scrubber
          main,      \* the shutdown sequence
          expired,   \* has the shutdown deadline passed
          accepted,  \* history: items Enqueue took
          handled,   \* history: items whose repair returned
          sincePause \* history: items each goroutine took since Pause

vars == <<conf, queue, qclosed, chClosed, seen, en, lp, worker, scrub, main,
          expired, accepted, handled, sincePause>>
chan == <<queue, qclosed, chClosed>>
history == <<accepted, handled, sincePause>>
producing == <<seen, en>>
control == <<conf, scrub, main, expired>>

TypeOK ==
  /\ queue \in Seq(Item) /\ Len(queue) <= conf.cap
  /\ qclosed \in BOOLEAN /\ chClosed \in BOOLEAN
  /\ seen \in 0..Items
  /\ conf \in Config
  /\ en \in [Producers -> [task: {"none", "read", "admin", "audit", "scan"},
                           pc: {"idle", "open", "send", "panicked"},
                           item: Item \cup {None}]]
  /\ lp \in [Loops -> [pc: {"check", "paused", "dequeue", "taken", "process",
                            "counted", "exited"},
                       item: Item \cup {None}]]
  /\ worker \in [cancelled: BOOLEAN, paused: BOOLEAN, inflight: Nat,
                 finished: Nat]
  /\ scrub \in {"off", "run", "wait", "exited"}
  /\ main \in {"serving", "http", "admin", "scrubStop", "scrubWait", "workerStop",
               "workerWait", "close", "closing", "closed", "stopped",
               "crashed"}
  /\ expired \in BOOLEAN
  /\ accepted \subseteq Item /\ handled \subseteq Item
  /\ sincePause \in [Loops -> Nat]

NoTask == [task |-> "none", pc |-> "idle", item |-> None]
Scanning == [task |-> "scan", pc |-> "open", item |-> None]

Init ==
  /\ queue = <<>> /\ qclosed = FALSE /\ chClosed = FALSE
  /\ seen = 0
  /\ conf \in Configs
  /\ en = [p \in Producers |-> IF p \in Scanners THEN Scanning ELSE NoTask]
  /\ lp = [l \in Loops |-> [pc |-> IF conf.worker THEN "check" ELSE "exited",
                            item |-> None]]
  /\ worker = [cancelled |-> FALSE, paused |-> FALSE, inflight |-> 0,
               finished |-> 0]
  /\ scrub = IF conf.scrub THEN "run" ELSE "off"
  /\ main = "serving"
  /\ expired = FALSE
  /\ accepted = {} /\ handled = {}
  /\ sincePause = [l \in Loops |-> 0]

(* The process runs until main returns or a goroutine panics.  net/http       *)
(* recovers a panic of the handler itself; the goroutines that a scrub pass  *)
(* starts are not its own, also when POST /admin/scrub/runonce asked for it. *)
Alive == main \notin {"stopped", "crashed"}

Enter(p, task, pc, it) ==
  en' = [en EXCEPT ![p] = [task |-> task, pc |-> pc, item |-> it]]
Move(l, pc, it) == lp' = [lp EXCEPT ![l] = [pc |-> pc, item |-> it]]

---------------------------------------------------------------------------
(* Requests: a GET that will meet an integrity failure, POST                 *)
(* /admin/repair/enqueue and POST /admin/scrub/runonce.  The S3 listener is  *)
(* closed first, the admin listener when the S3 requests are through.       *)
Begin(p, task) ==
  /\ Alive /\ en[p] = NoTask
  /\ main \in (IF task = "read" THEN {"serving"} ELSE {"serving", "http"})
  /\ task = "audit" => conf.scrub
  /\ Enter(p, task, "open", None)
  /\ UNCHANGED <<chan, seen, lp, worker, control, history>>

(* Answered; a runonce has then been through all manifests. *)
Finish(p) ==
  /\ Alive /\ p \in Requests /\ en[p].pc = "open"
  /\ en' = [en EXCEPT ![p] = NoTask]
  /\ UNCHANGED <<chan, seen, lp, worker, control, history>>

---------------------------------------------------------------------------
(* MemQueue.Enqueue: the closed flag is read, then the item is sent. *)

(* A scanner has work while a pass of the loop runs.  Without a queue nobody *)
(* calls Enqueue.                                                           *)
MayEnqueue(p) == conf.queue /\ en[p].pc = "open" /\ (p \in Scanners => scrub = "run")

(* A read and an admin request enqueue one item, a scrub pass any number.  *)
Returned(e) == IF e.task \in {"read", "admin"} THEN NoTask
               ELSE [task |-> e.task, pc |-> "open", item |-> None]

EnqueueCheck(p) ==
  /\ Alive /\ MayEnqueue(p)
  /\ seen < Items
  /\ seen' = seen + 1
  /\ IF qclosed THEN en' = [en EXCEPT ![p] = Returned(@)] \* ErrQueueClosed
                ELSE Enter(p, en[p].task, "send", seen')
  /\ UNCHANGED <<chan, lp, worker, control, history>>

(* Variant: a queue without a bound *)
EnqueueSendUnbounded(p) ==
  /\ Alive /\ en[p].pc = "send" /\ ~chClosed
  /\ queue' = Append(queue, en[p].item)
  /\ accepted' = accepted \cup {en[p].item}
  /\ en' = [en EXCEPT ![p] = Returned(@)]
  /\ UNCHANGED <<qclosed, chClosed, seen, lp, worker, control, handled, sincePause>>

EnqueueSend(p) ==
  /\ Alive /\ en[p].pc = "send" /\ ~chClosed
  /\ Len(queue) < conf.cap
  /\ queue' = Append(queue, en[p].item)
  /\ accepted' = accepted \cup {en[p].item}
  /\ en' = [en EXCEPT ![p] = Returned(@)]
  /\ UNCHANGED <<qclosed, chClosed, seen, lp, worker, control, handled, sincePause>>

(* The client of a request goes away; a scanner runs under Background.  *)
EnqueueCancel(p) ==
  /\ Alive /\ en[p].pc = "send" /\ p \in Requests
  /\ en' = [en EXCEPT ![p] = Returned(@)]
  /\ UNCHANGED <<chan, seen, lp, worker, control, history>>

(* A send on a closed channel panics, also one that was blocked before. *)
EnqueuePanic(p) ==
  /\ Alive /\ en[p].pc = "send" /\ chClosed
  /\ Enter(p, en[p].task, "panicked", en[p].item)
  /\ main' = IF en[p].task \in {"audit", "scan"} THEN "crashed" ELSE main
  /\ UNCHANGED <<chan, seen, lp, worker, conf, scrub, expired, history>>

---------------------------------------------------------------------------
(* Worker.loop *)

(* Variant: the loop does not look at the pause flag *)
LoopCheckNoPause(l) ==
  /\ Alive /\ lp[l].pc = "check"
  /\ Move(l, IF worker.cancelled THEN "exited" ELSE "dequeue", None)
  /\ UNCHANGED <<chan, producing, worker, control, history>>

(* The two tests at the top of the loop *)
LoopCheck(l) ==
  /\ Alive /\ lp[l].pc = "check"
  /\ Move(l, CASE worker.cancelled -> "exited"
               [] ~worker.cancelled /\ worker.paused -> "paused"
               [] OTHER -> "dequeue", None)
  /\ UNCHANGED <<chan, producing, worker, control, history>>

(* Variant: a paused goroutine waits for the end only *)
LoopTickNot(l) ==
  /\ Alive /\ lp[l].pc = "paused"
  /\ worker.cancelled /\ Move(l, "exited", None)
  /\ UNCHANGED <<chan, producing, worker, control, history>>

(* Paused: the ticker, or the end *)
LoopTick(l) ==
  /\ Alive /\ lp[l].pc = "paused"
  /\ \/ Move(l, "check", None)
     \/ worker.cancelled /\ Move(l, "exited", None)
  /\ UNCHANGED <<chan, producing, worker, control, history>>

(* Variant: the item stays in the queue while it is repaired *)
LoopTakePeek(l) ==
  /\ Alive /\ lp[l].pc = "dequeue"
  /\ queue # <<>>
  /\ Move(l, "taken", Head(queue))
  /\ sincePause' = [sincePause EXCEPT ![l] = IF worker.paused THEN @ + 1 ELSE @]
  /\ UNCHANGED <<chan, producing, worker, control, accepted, handled>>

(* Variant: the newest item first *)
LoopTakeNewest(l) ==
  /\ Alive /\ lp[l].pc = "dequeue"
  /\ queue # <<>>
  /\ queue' = SubSeq(queue, 1, Len(queue) - 1)
  /\ Move(l, "taken", queue[Len(queue)])
  /\ sincePause' = [sincePause EXCEPT ![l] = IF worker.paused THEN @ + 1 ELSE @]
  /\ UNCHANGED <<qclosed, chClosed, producing, worker, control, accepted, handled>>

(* Dequeue receives, also what a closed channel still holds. *)
LoopTake(l) ==
  /\ Alive /\ lp[l].pc = "dequeue"
  /\ queue # <<>>
  /\ queue' = Tail(queue)
  /\ Move(l, "taken", Head(queue))
  /\ sincePause' = [sincePause EXCEPT ![l] = IF worker.paused THEN @ + 1 ELSE @]
  /\ UNCHANGED <<qclosed, chClosed, producing, worker, control, accepted, handled>>

(* Dequeue fails: the context is done, or the channel is closed and empty. *)
LoopExit(l) ==
  /\ Alive /\ lp[l].pc = "dequeue"
  /\ worker.cancelled \/ (chClosed /\ queue = <<>>)
  /\ Move(l, "exited", None)
  /\ UNCHANGED <<chan, producing, worker, control, history>>

LoopBegin(l) ==
  /\ Alive /\ lp[l].pc = "taken"
  /\ worker' = [worker EXCEPT !.inflight = @ + 1]
  /\ Move(l, "process", lp[l].item)
  /\ UNCHANGED <<chan, producing, control, history>>

(* Variant: a failed repair is not counted *)
LoopProcessUncounted(l) ==
  /\ Alive /\ lp[l].pc = "process"
  /\ worker' \in {worker, [worker EXCEPT !.finished = @ + 1]}
  /\ handled' = handled \cup {lp[l].item}
  /\ Move(l, "counted", None)
  /\ UNCHANGED <<chan, producing, control, accepted, sincePause>>

(* Processed, skipped or failed: one of the three counters goes up.        *)
LoopProcess(l) ==
  /\ Alive /\ lp[l].pc = "process"
  /\ worker' = [worker EXCEPT !.finished = @ + 1]
  /\ handled' = handled \cup {lp[l].item}
  /\ Move(l, "counted", None)
  /\ UNCHANGED <<chan, producing, control, accepted, sincePause>>

LoopEnd(l) ==
  /\ Alive /\ lp[l].pc = "counted"
  /\ worker' = [worker EXCEPT !.inflight = @ - 1]
  /\ Move(l, "check", None)
  /\ UNCHANGED <<chan, producing, control, history>>

(* POST /admin/repair/worker/pause and .../resume, from requests that began  *)
(* while the admin listener was open and may go on until they are waited for *)
AdminRequest == Alive /\ Pausing /\ conf.worker
                /\ (main \in {"serving", "http", "admin"} \/ expired)

Pause ==
  /\ AdminRequest /\ ~worker.paused
  /\ worker' = [worker EXCEPT !.paused = TRUE]
  /\ sincePause' = [l \in Loops |-> 0]
  /\ UNCHANGED <<chan, producing, lp, control, accepted, handled>>

Resume ==
  /\ AdminRequest /\ worker.paused
  /\ worker' = [worker EXCEPT !.paused = FALSE]
  /\ sincePause' = [l \in Loops |-> 0]
  /\ UNCHANGED <<chan, producing, lp, control, accepted, handled>>

---------------------------------------------------------------------------
(* SealedScrubber.loop: a pass ends when its goroutines are through with the *)
(* manifests (wg.Wait), then the loop waits for its timer or for stopCh.    *)
ScrubEnd ==
  /\ Alive /\ scrub = "run"
  /\ \A p \in Scanners: en[p].pc = "open"
  /\ scrub' = "wait"
  /\ UNCHANGED <<chan, producing, lp, worker, conf, main, expired, history>>

ScrubTimer ==
  /\ Alive /\ scrub = "wait"
  /\ scrub' = "run"
  /\ UNCHANGED <<chan, producing, lp, worker, conf, main, expired, history>>

---------------------------------------------------------------------------
(* main: the sequence after SIGTERM.  Each wait ends with what it waits for  *)
(* or with the deadline, which they share; a part that was not started is    *)
(* passed over.                                                             *)
MainStep(from, to) == Alive /\ main = from /\ main' = to
Quiet == UNCHANGED <<conf, producing, lp, history>>

AfterWorker == IF conf.queue THEN "close" ELSE "closed"
AfterScrub == IF conf.worker THEN "workerStop" ELSE AfterWorker
AfterAdmin == IF conf.scrub THEN "scrubStop" ELSE AfterScrub

(* No request of these kinds is still being served. *)
NoneServed(tasks) ==
  \A p \in Requests: en[p].task \in tasks => en[p].pc = "panicked"

Expire ==
  /\ Alive /\ Deadline /\ main # "serving" /\ ~expired
  /\ expired' = TRUE
  /\ UNCHANGED <<chan, worker, scrub, main>> /\ Quiet

Signal ==
  /\ MainStep("serving", "http")
  /\ UNCHANGED <<chan, worker, scrub, expired>> /\ Quiet

(* srv.Shutdown *)
HTTPShutdown ==
  /\ MainStep("http", "admin")
  /\ expired \/ NoneServed({"read"})
  /\ UNCHANGED <<chan, worker, scrub, expired>> /\ Quiet

(* Variant: the admin server is left running *)
AdminShutdownNot ==
  /\ MainStep("admin", AfterAdmin)
  /\ UNCHANGED <<chan, worker, scrub, expired>> /\ Quiet

(* adminSrv.Shutdown *)
AdminShutdown ==
  /\ MainStep("admin", AfterAdmin)
  /\ expired \/ NoneServed({"admin", "audit"})
  /\ UNCHANGED <<chan, worker, scrub, expired>> /\ Quiet

(* scrub.Stop sends the stop signal without blocking: it arrives only if the *)
(* loop is waiting at that moment.                                          *)
ScrubStop ==
  /\ MainStep("scrubStop", "scrubWait")
  /\ scrub' = IF scrub = "wait" THEN "exited" ELSE scrub
  /\ UNCHANGED <<chan, worker, expired>> /\ Quiet

(* Variant: Stop waits for the loop whatever its context says *)
ScrubWaitForever ==
  /\ MainStep("scrubWait", AfterScrub)
  /\ scrub = "exited"
  /\ UNCHANGED <<chan, worker, scrub, expired>> /\ Quiet

ScrubWait ==
  /\ MainStep("scrubWait", AfterScrub)
  /\ expired \/ scrub = "exited"
  /\ UNCHANGED <<chan, worker, scrub, expired>> /\ Quiet

(* repW.Stop *)
WorkerStop ==
  /\ MainStep("workerStop", "workerWait")
  /\ worker' = [worker EXCEPT !.cancelled = TRUE]
  /\ UNCHANGED <<chan, scrub, expired>> /\ Quiet

WorkerWait ==
  /\ MainStep("workerWait", AfterWorker)
  /\ expired \/ \A l \in Loops: lp[l].pc = "exited"
  /\ UNCHANGED <<chan, worker, scrub, expired>> /\ Quiet

(* MemQueue.Close *)
CloseFlag ==
  /\ MainStep("close", "closing")
  /\ qclosed' = TRUE
  /\ UNCHANGED <<queue, chClosed, worker, scrub, expired>> /\ Quiet

CloseChannel ==
  /\ MainStep("closing", "closed")
  /\ chClosed' = TRUE
  /\ UNCHANGED <<queue, qclosed, worker, scrub, expired>> /\ Quiet

MainReturn ==
  /\ MainStep("closed", "stopped")
  /\ UNCHANGED <<chan, worker, scrub, expired>> /\ Quiet

---------------------------------------------------------------------------
ProducerStep(p) ==
  \/ \E task \in {"read", "admin", "audit"}: p \in Requests /\ Begin(p, task)
  \/ Finish(p)
  \/ EnqueueCheck(p) \/ EnqueueSend(p) \/ EnqueueCancel(p) \/ EnqueuePanic(p)

LoopStep(l) ==
  \/ LoopCheck(l) \/ LoopTick(l) \/ LoopTake(l) \/ LoopExit(l)
  \/ LoopBegin(l) \/ LoopProcess(l) \/ LoopEnd(l)

Shutdown ==
  \/ HTTPShutdown \/ AdminShutdown \/ ScrubStop \/ ScrubWait \/ WorkerStop \/ WorkerWait
  \/ CloseFlag \/ CloseChannel \/ MainReturn

(* The process is gone. *)
Gone == ~Alive /\ UNCHANGED vars

Next ==
  \/ \E p \in Producers: ProducerStep(p)
  \/ \E l \in Loops: LoopStep(l)
  \/ Pause \/ Resume
  \/ ScrubEnd \/ ScrubTimer
  \/ Signal \/ Expire \/ Shutdown
  \/ Gone

Spec == Init /\ [][Next]_vars

(* Goroutines that can run do run, a channel serves its waiting senders in   *)
(* turn, and timers fire.  Nobody has to enqueue, pause, resume or signal.  *)
FairSpec ==
  /\ Spec
  /\ \A p \in Producers: WF_vars(Finish(p) \/ EnqueueSend(p) \/ EnqueuePanic(p))
  /\ \A l \in Loops: WF_vars(LoopStep(l))
  /\ WF_vars(ScrubEnd \/ ScrubTimer)
  /\ WF_vars(Expire) /\ WF_vars(Shutdown)

---------------------------------------------------------------------------
(* Properties *)

Queued == ToSet(queue)
InHand == {lp[l].item: l \in Loops} \ {None}
OnItsWay == {en[p].item: p \in Producers} \ {None}

(* Every item Enqueue accepted is in exactly one place: in the queue once,   *)
(* in the hands of one worker goroutine, or handled; none of them is lost,   *)
(* repaired twice, or still with its producer, also while the queue is being *)
(* closed.                                                                  *)
EachItemOnce ==
  /\ IsInjective(queue)
  /\ accepted = Queued \cup InHand \cup handled
  /\ Queued \cap (InHand \cup handled) = {}
  /\ InHand \cap handled = {}
  /\ \A k, l \in Loops: lp[k].item = lp[l].item => k = l \/ lp[k].item = None
  /\ \A it \in accepted: it <= seen /\ it \notin OnItsWay

(* What worker stats and queue length report together of the accepted items   *)
(* is off by exactly the goroutines caught at the wrong moment, so by at most *)
(* one each: an item is missing between Dequeue and inflight.Add, and        *)
(* counted twice between processed.Add (or skipped, failed) and              *)
(* inflight.Add(-1).                                                        *)
StatsNearlyExact ==
  LET at(pc) == Cardinality({l \in Loops: lp[l].pc = pc})
  IN  Len(queue) + worker.inflight + worker.finished
        = Cardinality(accepted) - at("taken") + at("counted")

(* After Pause a worker goroutine takes at most the one item it was already  *)
(* waiting for.                                                             *)
PauseLeaksOne == \A l \in Loops: sincePause[l] <= 1

Panicked == \E p \in Producers: en[p].pc = "panicked"

(* A shutdown that met its deadline leaves nobody at work: nobody sends on   *)
(* the closed channel, and once the queue is being closed no repair is under *)
(* way and no request or scrub goroutine is left that could still enqueue.   *)
(* This holds because main closes the queue last, and waits for everyone who *)
(* enqueues before it.                                                      *)
CleanShutdown ==
  ~expired =>
    /\ ~Panicked
    /\ main \in {"closing", "closed", "stopped"} =>
         /\ \A l \in Loops: lp[l].pc = "exited"
         /\ worker.inflight = 0
         /\ \A p \in Producers: en[p].pc \in {"idle", "open"}
         /\ \A p \in Requests: en[p] = NoTask
         /\ scrub \in {"off", "exited"}

(* A shutdown that began ends, whatever the goroutines are blocked on: a     *)
(* full queue that nobody drains, a paused worker, a scrubber that missed    *)
(* the signal.                                                              *)
ShutdownEnds == []<>(main = "serving" \/ ~Alive)

(* Until a shutdown begins, with a worker, every item that was accepted is   *)
(* handled, and everyone who enqueues gets through however full the queue,   *)
(* unless an admin pauses the worker for good: failing repairs, a full queue *)
(* and goroutines that were paused and resumed in any order do not leave an  *)
(* item or a GET behind.  (There are finitely many items, so each of them is *)
(* handled if again and again all are.)                                     *)
Settled ==
  /\ accepted \subseteq handled
  /\ \A p \in Producers: en[p].pc # "send"

EveryItemHandled ==
  conf.worker /\ <>[]~worker.paused => []<>(Settled \/ main # "serving")

(* Where an item is in the abstract queue: an item that is nowhere was       *)
(* refused, or its request was cancelled.                                   *)
Place(it) == CASE it > seen -> "new"
               [] it \in OnItsWay -> "offered"
               [] it \in Queued -> "queued"
               [] it \in InHand -> "taken"
               [] it \in handled -> "done"
               [] OTHER -> "dropped"

PlaceOf == [it \in Item |-> Place(it)]

Queue == INSTANCE WorkQueue WITH
  place <- PlaceOf, order <- queue, cap <- conf.cap, shut <- chClosed

(* MemQueue, its producers and the worker goroutines together are a bounded  *)
(* first-come-first-served queue that hands each item to one goroutine,      *)
(* through pauses, cancelled requests, the shutdown and its deadline.        *)
QueueSpec == Queue!Spec

=============================================================================
