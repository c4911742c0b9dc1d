------------------------ MODULE RepairPipelineProofs ------------------------
(***************************************************************************)
(* What is proved of RepairPipeline for any requests, scan goroutines,       *)
(* worker goroutines, items and configurations.  The inductive invariant is  *)
(* the conjunction of six parts, each about one kind of actor, so that a     *)
(* step has to be looked at only where it acts:                              *)
(*   ProducerInv  who holds an item on its way into the queue                *)
(*   ItemInv      where the accepted items are                               *)
(*   CountInv     what the worker's counters say of them                     *)
(*   PauseInv     who may still take one after Pause                         *)
(*   PartsInv     which parts run, also when the deadline has passed         *)
(*   StageInv     who is still there at each stage of the shutdown           *)
(***************************************************************************)
EXTENDS RepairPipeline, FiniteSetTheorems, TLAPS

Tasks == {"none", "read", "admin", "audit", "scan"}
ProducerState == [task: Tasks, pc: {"idle", "open", "send", "panicked"},
                  item: Item \cup {None}]
LoopPCs == {"check", "paused", "dequeue", "taken", "process", "counted", "exited"}
LoopState == [pc: LoopPCs, item: Item \cup {None}]

(* The state of one producer: it holds an item exactly while Enqueue has one, *)
(* a scanner is always at its task, and a request without a task is idle.     *)
Coherent(p, e) ==
  /\ e.item # None <=> e.pc \in {"send", "panicked"}
  /\ p \in Scanners => e.task = "scan" /\ e.pc # "idle"
  /\ p \in Requests => e.task # "scan" /\ (e.task = "none" <=> e.pc = "idle")

ProducerInv ==
  /\ en \in [Producers -> ProducerState]
  /\ seen \in 0..Items /\ accepted \subseteq 1..seen
  /\ \A p \in Producers: Coherent(p, en[p])
  /\ \A p \in Producers: en[p].item # None => en[p].item <= seen /\ en[p].item \notin accepted
  /\ \A p, q \in Producers: en[p].item = en[q].item => p = q \/ en[p].item = None

---------------------------------------------------------------------------
(* The producers *)

LEMMA NoneIsNoItem == None \notin Item /\ Item \subseteq Nat /\ 0 \notin Item
  BY ItemsAssumption DEF Item

LEMMA NoTaskIdle == NoTask \in ProducerState /\ Scanning \in ProducerState
  BY DEF NoTask, Scanning, ProducerState, Tasks

LEMMA ProducerInit == Init => ProducerInv
<1> SUFFICES ASSUME Init PROVE ProducerInv
  OBVIOUS
<1>1. \A p \in Producers: en[p] = IF p \in Scanners THEN Scanning ELSE NoTask
  BY DEF Init
<1>2. en \in [Producers -> ProducerState]
  BY NoTaskIdle DEF Init
<1>3. \A p \in Producers: en[p].item = None /\ Coherent(p, en[p])
  BY <1>1, ProcsAssumption DEF NoTask, Scanning, Coherent
<1>4. QED
  BY <1>2, <1>3, ItemsAssumption DEF Init, ProducerInv

(* One producer moves: it keeps its item, gives it up, perhaps to the queue,  *)
(* or comes across the next one.                                             *)
LEMMA ProducerMove ==
  ASSUME ProducerInv, NEW p \in Producers, NEW e \in ProducerState,
         en' = [en EXCEPT ![p] = e], Coherent(p, e),
         \/ seen' = seen /\ accepted' = accepted /\ e.item \in {None, en[p].item}
         \/ seen' = seen /\ accepted' = accepted \cup {en[p].item} /\ en[p].item # None
              /\ e.item = None
         \/ seen' = seen + 1 /\ seen' <= Items /\ accepted' = accepted
              /\ e.item \in {None, seen'}
  PROVE  ProducerInv'
<1>1. en' \in [Producers -> ProducerState]
  BY DEF ProducerInv
<1>2. en'[p] = e /\ \A q \in Producers \ {p}: en'[q] = en[q]
  BY DEF ProducerInv
<1>3. \A q \in Producers: en[q].item \in Item \cup {None}
  BY DEF ProducerInv, ProducerState
<1> seen \in Nat /\ Items \in Nat
  BY ItemsAssumption DEF ProducerInv
<1>4. seen' \in 0..Items /\ accepted' \subseteq 1..seen'
  <2>1. en[p].item # None => en[p].item \in 1..seen
    BY <1>3 DEF ProducerInv, Item
  <2>2. seen' \in 0..Items /\ seen <= seen'
    BY DEF ProducerInv
  <2>3. \A it \in accepted': it \in 1..seen
    <3>1. accepted \subseteq 1..seen
      BY DEF ProducerInv
    <3>2. \/ accepted' = accepted
          \/ en[p].item # None /\ accepted' = accepted \cup {en[p].item}
      OBVIOUS
    <3>3. CASE accepted' = accepted
      BY <3>1, <3>3
    <3>4. CASE en[p].item # None /\ accepted' = accepted \cup {en[p].item}
      BY <2>1, <3>1, <3>4
    <3>5. QED
      BY <3>2, <3>3, <3>4
  <2>4. 1..seen \subseteq 1..seen'
    BY <2>2
  <2>5. QED
    BY <2>2, <2>3, <2>4
<1>5. \A q \in Producers: Coherent(q, en'[q])
  BY <1>2 DEF ProducerInv
<1>6. \A q \in Producers: en'[q].item # None => en'[q].item <= seen' /\ en'[q].item \notin accepted'
  BY <1>2, <1>3, NoneIsNoItem, ItemsAssumption DEF ProducerInv, Item
<1>7. \A q, r \in Producers: en'[q].item = en'[r].item => q = r \/ en'[q].item = None
  BY <1>2, <1>3, NoneIsNoItem, ItemsAssumption DEF ProducerInv, Item
<1>8. QED
  BY <1>1, <1>4, <1>5, <1>6, <1>7 DEF ProducerInv

LEMMA ProducerKept ==
  ASSUME ProducerInv, UNCHANGED <<en, seen, accepted>>
  PROVE  ProducerInv'
  BY DEF ProducerInv, Coherent

(* What a producer goes back to when Enqueue returns *)
LEMMA ReturnedState ==
  ASSUME NEW p \in Producers, NEW e \in ProducerState, Coherent(p, e), e.pc # "idle"
  PROVE  Returned(e) \in ProducerState /\ Coherent(p, Returned(e)) /\ Returned(e).item = None
<1>1. CASE e.task \in {"read", "admin"}
  BY <1>1, NoTaskIdle DEF Returned, NoTask, Coherent, Producers
<1>2. CASE e.task \notin {"read", "admin"}
  <2>1. Returned(e) = [task |-> e.task, pc |-> "open", item |-> None]
    BY <1>2 DEF Returned, ProducerState
  <2>2. QED
    BY <2>1 DEF Coherent, ProducerState
<1>3. QED
  BY <1>1, <1>2

LEMMA ProducerStepInv ==
  ASSUME ProducerInv, NEW p \in Producers, ProducerStep(p)
  PROVE  ProducerInv'
<1>1. en[p] \in ProducerState /\ Coherent(p, en[p])
  BY DEF ProducerInv
<1>2. ASSUME NEW task \in {"read", "admin", "audit"}, p \in Requests, Begin(p, task)
      PROVE  ProducerInv'
  <2> DEFINE e == [task |-> task, pc |-> "open", item |-> None]
  <2>1. en' = [en EXCEPT ![p] = e] /\ UNCHANGED <<seen, accepted>>
    BY <1>2 DEF Begin, Enter, history
  <2>2. e \in ProducerState /\ Coherent(p, e)
    BY <1>2, ProcsAssumption DEF ProducerState, Tasks, Coherent
  <2>3. QED
    BY <2>1, <2>2, ProducerMove
<1>3. ASSUME Finish(p) PROVE ProducerInv'
  <2>1. en' = [en EXCEPT ![p] = NoTask] /\ UNCHANGED <<seen, accepted>>
    BY <1>3 DEF Finish, history
  <2>2. Coherent(p, NoTask) /\ NoTask.item = None
    BY <1>3, ProcsAssumption DEF Finish, NoTask, Coherent
  <2>3. QED
    BY <2>1, <2>2, NoTaskIdle, ProducerMove
<1>4. ASSUME EnqueueCheck(p) PROVE ProducerInv'
  <2>1. seen' = seen + 1 /\ seen' <= Items /\ accepted' = accepted /\ en[p].pc = "open"
    BY <1>4, ItemsAssumption DEF EnqueueCheck, MayEnqueue, history, ProducerInv
  <2>2. CASE qclosed
    BY <1>1, <1>4, <2>1, <2>2, ReturnedState, ProducerMove DEF EnqueueCheck
  <2>3. CASE ~qclosed
    <3> DEFINE e == [task |-> en[p].task, pc |-> "send", item |-> seen']
    <3>1. en' = [en EXCEPT ![p] = e]
      BY <1>4, <2>3 DEF EnqueueCheck, Enter
    <3>2. seen' \in Item
      BY <2>1, ItemsAssumption DEF ProducerInv, Item
    <3>3. e \in ProducerState
      BY <1>1, <3>2 DEF ProducerState
    <3>4. Coherent(p, e)
      BY <1>1, <2>1, <3>2, NoneIsNoItem DEF Coherent
    <3>5. QED
      BY <2>1, <3>1, <3>3, <3>4, ProducerMove
  <2>4. QED
    BY <2>2, <2>3
<1>5. ASSUME EnqueueSend(p) PROVE ProducerInv'
  <2>1. en[p].pc = "send" /\ en[p].item # None
    BY <1>1, <1>5 DEF EnqueueSend, Coherent
  <2>2. QED
    BY <1>1, <1>5, <2>1, ReturnedState, ProducerMove DEF EnqueueSend
<1>6. ASSUME EnqueueCancel(p) PROVE ProducerInv'
  <2>1. en[p].pc = "send"
    BY <1>6 DEF EnqueueCancel
  <2>2. QED
    BY <1>1, <1>6, <2>1, ReturnedState, ProducerMove DEF EnqueueCancel, history
<1>7. ASSUME EnqueuePanic(p) PROVE ProducerInv'
  <2> DEFINE e == [task |-> en[p].task, pc |-> "panicked", item |-> en[p].item]
  <2>1. en' = [en EXCEPT ![p] = e]
    BY <1>7 DEF EnqueuePanic, Enter
  <2>2. e \in ProducerState /\ Coherent(p, e)
    BY <1>1, <1>7 DEF ProducerState, Coherent, EnqueuePanic
  <2>3. QED
    BY <1>7, <2>1, <2>2, ProducerMove DEF EnqueuePanic, history
<1>8. QED
  BY <1>2, <1>3, <1>4, <1>5, <1>6, <1>7 DEF ProducerStep

(* Nobody else touches what the producers hold. *)
LEMMA OthersKeep ==
  ASSUME \/ \E l \in Loops: LoopStep(l)
         \/ Pause \/ Resume \/ ScrubEnd \/ ScrubTimer \/ Signal \/ Expire \/ Shutdown
         \/ Gone \/ UNCHANGED vars
  PROVE  UNCHANGED <<en, seen, accepted>>
<1>1. ASSUME NEW l \in Loops, LoopStep(l) PROVE UNCHANGED <<en, seen, accepted>>
  BY <1>1 DEF LoopStep, LoopCheck, LoopTick, LoopTake, LoopExit, LoopBegin, LoopProcess,
     LoopEnd, producing, history
<1>2. CASE Shutdown
  BY <1>2 DEF Shutdown, HTTPShutdown, AdminShutdown, ScrubStop, ScrubWait, WorkerStop,
     WorkerWait, CloseFlag, CloseChannel, MainReturn, Quiet, producing, history
<1>3. CASE Pause \/ Resume \/ ScrubEnd \/ ScrubTimer \/ Signal \/ Expire \/ Gone
           \/ UNCHANGED vars
  BY <1>3 DEF Pause, Resume, ScrubEnd, ScrubTimer, Signal, Expire, Gone, vars, Quiet,
     producing, history
<1>4. QED
  BY <1>1, <1>2, <1>3

LEMMA ProducerNext == ProducerInv /\ [Next]_vars => ProducerInv'
<1> SUFFICES ASSUME ProducerInv, [Next]_vars PROVE ProducerInv'
  OBVIOUS
<1>1. CASE \E p \in Producers: ProducerStep(p)
  BY <1>1, ProducerStepInv
<1>2. CASE ~\E p \in Producers: ProducerStep(p)
  BY <1>2, OthersKeep, ProducerKept DEF Next
<1>3. QED
  BY <1>1, <1>2

---------------------------------------------------------------------------
(* The items *)

(* Facts about sequences without repetition *)
LEMMA AppendNew ==
  ASSUME NEW S, NEW s \in Seq(S), NEW x \in S, x \notin ToSet(s), IsInjective(s)
  PROVE  /\ Append(s, x) \in Seq(S) /\ Len(Append(s, x)) = Len(s) + 1
         /\ ToSet(Append(s, x)) = ToSet(s) \cup {x}
         /\ IsInjective(Append(s, x))
<1> DEFINE t == Append(s, x)
<1>1. t \in Seq(S) /\ Len(t) = Len(s) + 1 /\ t[Len(s) + 1] = x
      /\ \A i \in 1..Len(s): t[i] = s[i]
  OBVIOUS
<1>2. DOMAIN s = 1..Len(s) /\ DOMAIN t = 1..(Len(s) + 1) /\ Len(s) \in Nat
  BY <1>1
<1>3. DOMAIN t = DOMAIN s \cup {Len(s) + 1}
  BY <1>2
<1> HIDE DEF t
<1>4. ToSet(t) = ToSet(s) \cup {x}
  BY <1>1, <1>2, <1>3 DEF ToSet
<1>5. IsInjective(t)
  BY <1>1, <1>2, <1>3 DEF ToSet, IsInjective
<1>6. QED
  BY <1>1, <1>4, <1>5 DEF t

LEMMA TailOld ==
  ASSUME NEW S, NEW s \in Seq(S), s # <<>>, IsInjective(s)
  PROVE  /\ Tail(s) \in Seq(S) /\ Len(Tail(s)) = Len(s) - 1 /\ Len(s) \in Nat \ {0}
         /\ Head(s) \in ToSet(s) /\ Head(s) \in S
         /\ ToSet(Tail(s)) = ToSet(s) \ {Head(s)}
         /\ IsInjective(Tail(s))
<1> DEFINE t == Tail(s)
<1>1. /\ t \in Seq(S) /\ Len(t) = Len(s) - 1 /\ Len(s) \in Nat \ {0}
      /\ \A i \in 1..Len(t): t[i] = s[i + 1]
      /\ Head(s) = s[1]
  OBVIOUS
<1>2. DOMAIN s = 1..Len(s) /\ DOMAIN t = 1..(Len(s) - 1)
  BY <1>1
<1> HIDE DEF t
<1>3. Head(s) \in ToSet(s) /\ Head(s) \in S
  BY <1>1, <1>2 DEF ToSet
<1>4. ASSUME NEW x \in ToSet(t) PROVE x \in ToSet(s) \ {Head(s)}
  <2>1. PICK i \in 1..(Len(s) - 1): x = t[i]
    BY <1>2 DEF ToSet
  <2>2. i + 1 \in DOMAIN s /\ x = s[i + 1] /\ i + 1 # 1 /\ 1 \in DOMAIN s
    BY <1>1, <1>2, <2>1
  <2>3. QED
    BY <1>1, <2>2 DEF ToSet, IsInjective
<1>5. ASSUME NEW x \in ToSet(s), x # Head(s) PROVE x \in ToSet(t)
  <2>1. PICK i \in 1..Len(s): x = s[i]
    BY <1>2 DEF ToSet
  <2>2. i - 1 \in 1..(Len(s) - 1) /\ x = t[i - 1]
    BY <1>1, <1>5, <2>1
  <2>3. QED
    BY <1>2, <2>2 DEF ToSet
<1>6. IsInjective(t)
  <2>1. SUFFICES ASSUME NEW i \in 1..(Len(s) - 1), NEW j \in 1..(Len(s) - 1), t[i] = t[j]
        PROVE  i = j
    BY <1>2 DEF IsInjective
  <2>2. s[i + 1] = s[j + 1] /\ i + 1 \in DOMAIN s /\ j + 1 \in DOMAIN s
    BY <1>1, <1>2, <2>1
  <2>3. i + 1 = j + 1
    BY <2>2 DEF IsInjective
  <2>4. QED
    BY <2>3
<1>7. QED
  BY <1>1, <1>3, <1>4, <1>5, <1>6 DEF t

(* A worker goroutine holds an item exactly from Dequeue until it is repaired. *)
LoopInv ==
  /\ lp \in [Loops -> LoopState]
  /\ \A l \in Loops: lp[l].item # None <=> lp[l].pc \in {"taken", "process"}

ItemInv ==
  /\ LoopInv
  /\ conf \in Config
  /\ queue \in Seq(Item) /\ Len(queue) <= conf.cap /\ IsInjective(queue)
  /\ handled \subseteq Item
  /\ accepted = Queued \cup InHand \cup handled
  /\ Queued \cap (InHand \cup handled) = {}
  /\ InHand \cap handled = {}
  /\ \A k, l \in Loops: lp[k].item = lp[l].item => k = l \/ lp[k].item = None

LEMMA ItemInit == Init => ItemInv
<1> SUFFICES ASSUME Init PROVE ItemInv
  OBVIOUS
<1>1. lp \in [Loops -> LoopState] /\ \A l \in Loops: lp[l].item = None
        /\ lp[l].pc \in {"check", "exited"}
  BY DEF Init, LoopState, LoopPCs
<1>2. conf \in Config /\ conf.cap \in Nat \ {0}
  BY ConfigsAssumption DEF Init, Config
<1>3. InHand = {}
  BY <1>1 DEF InHand
<1>4. queue = <<>> /\ queue \in Seq(Item) /\ Len(queue) = 0 /\ DOMAIN queue = {}
  BY DEF Init
<1>5. Queued = {} /\ IsInjective(queue)
  BY <1>4 DEF Queued, ToSet, IsInjective
<1>6. QED
  BY <1>1, <1>2, <1>3, <1>4, <1>5 DEF Init, ItemInv, LoopInv

(* What one goroutine's move does to the items in hand *)
LEMMA InHandMove ==
  ASSUME LoopInv, NEW l \in Loops, NEW pc \in LoopPCs, NEW it \in Item \cup {None},
         Move(l, pc, it), it # None <=> pc \in {"taken", "process"},
         \A j, k \in Loops: lp[j].item = lp[k].item => j = k \/ lp[j].item = None
  PROVE  /\ LoopInv'
         /\ lp'[l] = [pc |-> pc, item |-> it] /\ \A k \in Loops \ {l}: lp'[k] = lp[k]
         /\ InHand' = (InHand \ {lp[l].item}) \cup ({it} \ {None})
<1>1. [pc |-> pc, item |-> it] \in LoopState
  BY DEF LoopState
<1>2. lp'[l] = [pc |-> pc, item |-> it] /\ \A k \in Loops \ {l}: lp'[k] = lp[k]
  BY DEF LoopInv, Move
<1>3. lp' \in [Loops -> LoopState]
  BY <1>1 DEF LoopInv, Move
<1>4. LoopInv'
  BY <1>2, <1>3 DEF LoopInv
<1>5. InHand' = (InHand \ {lp[l].item}) \cup ({it} \ {None})
  BY <1>2 DEF InHand
<1>6. QED
  BY <1>2, <1>4, <1>5

LEMMA ItemKept ==
  ASSUME ItemInv, UNCHANGED <<conf, queue, lp, accepted, handled>>
  PROVE  ItemInv'
  BY DEF ItemInv, LoopInv, Queued, InHand

LEMMA ItemSend ==
  ASSUME ProducerInv, ItemInv, NEW p \in Producers, EnqueueSend(p)
  PROVE  ItemInv'
<1> DEFINE it == en[p].item
<1>1. it \in Item /\ it \notin accepted
  BY DEF ProducerInv, ProducerState, Coherent, EnqueueSend
<1>2. queue' = Append(queue, it) /\ accepted' = accepted \cup {it} /\ Len(queue) < conf.cap
      /\ UNCHANGED <<conf, lp, handled>>
  BY DEF EnqueueSend, control
<1>3. it \notin Queued /\ it \notin InHand /\ it \notin handled
  BY <1>1 DEF ItemInv
<1>4. /\ queue' \in Seq(Item) /\ Len(queue') = Len(queue) + 1 /\ IsInjective(queue')
      /\ Queued' = Queued \cup {it}
  BY <1>1, <1>2, <1>3, AppendNew DEF ItemInv, Queued
<1>5. Len(queue') <= conf'.cap
  BY <1>2, <1>4 DEF ItemInv, Config
<1>6. InHand' = InHand
  BY <1>2 DEF InHand
<1> HIDE DEF it
<1>7. /\ accepted' = Queued' \cup InHand' \cup handled'
      /\ Queued' \cap (InHand' \cup handled') = {}
      /\ InHand' \cap handled' = {}
  BY <1>2, <1>3, <1>4, <1>6 DEF ItemInv
<1>8. QED
  BY <1>2, <1>4, <1>5, <1>7 DEF ItemInv, LoopInv

LEMMA ItemTake ==
  ASSUME ItemInv, NEW l \in Loops, LoopTake(l)
  PROVE  ItemInv' /\ Queued' = Queued \ {Head(queue)} /\ InHand' = InHand \cup {Head(queue)}
         /\ Head(queue) \in Queued /\ Len(queue') = Len(queue) - 1 /\ Len(queue) \in Nat
<1> DEFINE it == Head(queue)
<1>1. queue # <<>> /\ queue' = Tail(queue) /\ Move(l, "taken", it) /\ lp[l].item = None
      /\ UNCHANGED <<conf, accepted, handled>>
  BY DEF LoopTake, ItemInv, LoopInv, control
<1>2. /\ queue' \in Seq(Item) /\ Len(queue') = Len(queue) - 1 /\ Len(queue) \in Nat \ {0}
      /\ it \in Queued /\ it \in Item
      /\ Queued' = Queued \ {it} /\ IsInjective(queue')
  BY <1>1, TailOld DEF ItemInv, Queued
<1> HIDE DEF it
<1>3. /\ LoopInv'
      /\ lp'[l] = [pc |-> "taken", item |-> it] /\ \A k \in Loops \ {l}: lp'[k] = lp[k]
      /\ InHand' = (InHand \ {lp[l].item}) \cup ({it} \ {None})
  BY <1>1, <1>2, InHandMove, NoneIsNoItem DEF ItemInv, LoopPCs
<1>4. InHand' = InHand \cup {it}
  BY <1>1, <1>2, <1>3, NoneIsNoItem DEF InHand
<1>5. it \notin InHand /\ it \notin handled
  BY <1>2 DEF ItemInv
<1>6. \A j, k \in Loops: lp'[j].item = lp'[k].item => j = k \/ lp'[j].item = None
  BY <1>3, <1>5 DEF ItemInv, InHand
<1>7. /\ accepted' = Queued' \cup InHand' \cup handled'
      /\ Queued' \cap (InHand' \cup handled') = {}
      /\ InHand' \cap handled' = {}
  BY <1>1, <1>2, <1>4, <1>5 DEF ItemInv
<1>8. Len(queue') <= conf'.cap
  BY <1>1, <1>2 DEF ItemInv, Config
<1>9. QED
  BY <1>1, <1>2, <1>3, <1>4, <1>6, <1>7, <1>8 DEF ItemInv, it

LEMMA ItemProcess ==
  ASSUME ItemInv, NEW l \in Loops, LoopProcess(l)
  PROVE  ItemInv' /\ lp[l].item \in InHand /\ InHand' = InHand \ {lp[l].item}
<1> DEFINE it == lp[l].item
<1>1. /\ Move(l, "counted", None) /\ it # None /\ it \in Item /\ handled' = handled \cup {it}
      /\ UNCHANGED <<conf, queue, accepted>>
  BY DEF LoopProcess, ItemInv, LoopInv, LoopState, control, chan
<1>2. /\ LoopInv'
      /\ lp'[l] = [pc |-> "counted", item |-> None] /\ \A k \in Loops \ {l}: lp'[k] = lp[k]
      /\ InHand' = (InHand \ {it}) \cup ({None} \ {None})
  BY <1>1, InHandMove DEF ItemInv, LoopPCs
<1>3. it \in InHand
  BY <1>1 DEF InHand
<1> HIDE DEF it
<1>4. Queued' = Queued
  BY <1>1 DEF Queued
<1>5. /\ accepted' = Queued' \cup InHand' \cup handled'
      /\ Queued' \cap (InHand' \cup handled') = {}
      /\ InHand' \cap handled' = {}
  BY <1>1, <1>2, <1>3, <1>4 DEF ItemInv
<1>6. \A j, k \in Loops: lp'[j].item = lp'[k].item => j = k \/ lp'[j].item = None
  BY <1>2 DEF ItemInv
<1>7. QED
  BY <1>1, <1>2, <1>3, <1>5, <1>6 DEF ItemInv, it

(* The other steps of a goroutine leave the items where they are. *)
LEMMA ItemMove ==
  ASSUME ItemInv, NEW l \in Loops,
         LoopCheck(l) \/ LoopTick(l) \/ LoopExit(l) \/ LoopBegin(l) \/ LoopEnd(l)
  PROVE  ItemInv' /\ InHand' = InHand /\ UNCHANGED <<conf, queue, accepted, handled>>
<1>1. PICK pc \in LoopPCs: Move(l, pc, lp[l].item)
        /\ (lp[l].item # None <=> pc \in {"taken", "process"})
  <2>1. CASE LoopCheck(l) \/ LoopTick(l) \/ LoopExit(l) \/ LoopEnd(l)
    <3>1. lp[l].item = None
      BY <2>1 DEF LoopCheck, LoopTick, LoopExit, LoopEnd, ItemInv, LoopInv
    <3>2. \E pc \in {"check", "paused", "dequeue", "exited"}: Move(l, pc, None)
      BY <2>1 DEF LoopCheck, LoopTick, LoopExit, LoopEnd
    <3>3. QED
      BY <3>1, <3>2 DEF LoopPCs
  <2>2. CASE LoopBegin(l)
    BY <2>2 DEF LoopBegin, ItemInv, LoopInv, LoopPCs
  <2>3. QED
    BY <2>1, <2>2
<1>2. UNCHANGED <<conf, queue, accepted, handled>>
  BY DEF LoopCheck, LoopTick, LoopExit, LoopBegin, LoopEnd, control, chan, history
<1>3. lp[l].item \in Item \cup {None}
  BY DEF ItemInv, LoopInv, LoopState
<1>4. /\ LoopInv'
      /\ lp'[l] = [pc |-> pc, item |-> lp[l].item] /\ \A k \in Loops \ {l}: lp'[k] = lp[k]
      /\ InHand' = (InHand \ {lp[l].item}) \cup ({lp[l].item} \ {None})
  BY <1>1, <1>3, InHandMove DEF ItemInv
<1>5. InHand' = InHand
  BY <1>4 DEF InHand
<1>6. \A j, k \in Loops: lp'[j].item = lp'[k].item => j = k \/ lp'[j].item = None
  BY <1>4 DEF ItemInv
<1>7. Queued' = Queued
  BY <1>2 DEF Queued
<1>8. QED
  BY <1>2, <1>4, <1>5, <1>6, <1>7 DEF ItemInv

(* Everyone else leaves the queue, the goroutines and their items alone. *)
LEMMA OthersKeepItems ==
  ASSUME \/ \E p \in Producers: ProducerStep(p) /\ ~EnqueueSend(p)
         \/ Pause \/ Resume \/ ScrubEnd \/ ScrubTimer \/ Signal \/ Expire \/ Shutdown
         \/ Gone \/ UNCHANGED vars
  PROVE  UNCHANGED <<conf, queue, lp, accepted, handled>>
<1>1. ASSUME NEW p \in Producers, ProducerStep(p), ~EnqueueSend(p)
      PROVE  UNCHANGED <<conf, queue, lp, accepted, handled>>
  BY <1>1 DEF ProducerStep, Begin, Finish, EnqueueCheck, EnqueueCancel, EnqueuePanic,
     control, chan, history
<1>2. CASE Shutdown
  BY <1>2 DEF Shutdown, HTTPShutdown, AdminShutdown, ScrubStop, ScrubWait, WorkerStop,
     WorkerWait, CloseFlag, CloseChannel, MainReturn, Quiet, chan, history
<1>3. CASE Pause \/ Resume \/ ScrubEnd \/ ScrubTimer \/ Signal \/ Expire \/ Gone
           \/ UNCHANGED vars
  BY <1>3 DEF Pause, Resume, ScrubEnd, ScrubTimer, Signal, Expire, Gone, vars, Quiet,
     chan, control, history
<1>4. QED
  BY <1>1, <1>2, <1>3

LEMMA ItemNext == ProducerInv /\ ItemInv /\ [Next]_vars => ItemInv'
<1> SUFFICES ASSUME ProducerInv, ItemInv, [Next]_vars PROVE ItemInv'
  OBVIOUS
<1>1. ASSUME NEW p \in Producers, EnqueueSend(p) PROVE ItemInv'
  BY <1>1, ItemSend
<1>2. ASSUME NEW l \in Loops, LoopStep(l) PROVE ItemInv'
  BY <1>2, ItemTake, ItemProcess, ItemMove DEF LoopStep
<1>3. QED
  BY <1>1, <1>2, OthersKeepItems, ItemKept DEF Next

---------------------------------------------------------------------------
(* The counters *)

At(c) == Cardinality({l \in Loops: lp[l].pc = c})

WorkerState == [cancelled: BOOLEAN, paused: BOOLEAN, inflight: Nat, finished: Nat]

CountInv ==
  /\ worker \in WorkerState
  /\ worker.inflight = At("process") + At("counted")
  /\ StatsNearlyExact

LEMMA FiniteCounts ==
  ASSUME NEW c
  PROVE  IsFiniteSet({l \in Loops: lp[l].pc = c}) /\ At(c) \in Nat
<1>1. IsFiniteSet({l \in Loops: lp[l].pc = c})
  BY ProcsAssumption, FS_Subset
<1>2. QED
  BY <1>1, FS_CardinalityType DEF At

LEMMA FiniteAccepted == ProducerInv => IsFiniteSet(accepted) /\ Cardinality(accepted) \in Nat
<1> SUFFICES ASSUME ProducerInv PROVE IsFiniteSet(accepted)
  BY FS_CardinalityType
<1>1. IsFiniteSet(1..seen)
  BY FS_Interval, ItemsAssumption DEF ProducerInv
<1>2. QED
  BY <1>1, FS_Subset DEF ProducerInv

(* A goroutine that moves is counted where it comes to and no longer where it *)
(* was.                                                                      *)
LEMMA CountMove ==
  ASSUME NEW l \in Loops, NEW to, lp'[l].pc = to, lp[l].pc # to,
         \A k \in Loops \ {l}: lp'[k] = lp[k], NEW c
  PROVE  Cardinality({k \in Loops: lp'[k].pc = c}) =
           CASE c = to -> At(c) + 1 [] c = lp[l].pc -> At(c) - 1 [] OTHER -> At(c)
<1> DEFINE A == {k \in Loops: lp[k].pc = c}
           B == {k \in Loops: lp'[k].pc = c}
<1>1. At(c) = Cardinality(A) /\ IsFiniteSet(A)
  BY FiniteCounts DEF At
<1>2. CASE c = to
  <2>1. l \notin A /\ B = A \cup {l}
    BY <1>2
  <2>2. Cardinality(B) = Cardinality(A) + 1
    BY <1>1, <2>1, FS_AddElement
  <2>3. QED
    BY <1>1, <1>2, <2>2
<1>3. CASE c = lp[l].pc
  <2>1. l \in A /\ B = A \ {l}
    BY <1>3
  <2>2. Cardinality(B) = Cardinality(A) - 1
    BY <1>1, <2>1, FS_RemoveElement
  <2>3. QED
    BY <1>1, <1>3, <2>2
<1>4. CASE c # to /\ c # lp[l].pc
  <2>1. A = B
    BY <1>4
  <2>2. QED
    BY <1>1, <1>4, <2>1
<1>5. QED
  BY <1>2, <1>3, <1>4

(* How far a move changes the count of c *)
Moved(from, to, c) == CASE c = to -> 1 [] c = from -> -1 [] OTHER -> 0

LEMMA AtMove ==
  ASSUME NEW l \in Loops, NEW to, lp'[l].pc = to, lp[l].pc # to,
         \A k \in Loops \ {l}: lp'[k] = lp[k]
  PROVE  /\ At("taken")' = At("taken") + Moved(lp[l].pc, to, "taken")
         /\ At("process")' = At("process") + Moved(lp[l].pc, to, "process")
         /\ At("counted")' = At("counted") + Moved(lp[l].pc, to, "counted")
<1>1. ASSUME NEW c
      PROVE  Cardinality({k \in Loops: lp'[k].pc = c}) = At(c) + Moved(lp[l].pc, to, c)
  <2>1. At(c) \in Nat
    BY FiniteCounts
  <2>2. CASE c = to
    <3>1. Cardinality({k \in Loops: lp'[k].pc = c}) = At(c) + 1
      BY <2>2, CountMove
    <3>2. QED
      BY <2>2, <3>1 DEF Moved
  <2>3. CASE c # to /\ c = lp[l].pc
    <3>1. Cardinality({k \in Loops: lp'[k].pc = c}) = At(c) - 1
      BY <2>3, CountMove
    <3>2. QED
      BY <2>1, <2>3, <3>1 DEF Moved
  <2>4. CASE c # to /\ c # lp[l].pc
    <3>1. Cardinality({k \in Loops: lp'[k].pc = c}) = At(c)
      BY <2>4, CountMove
    <3>2. QED
      BY <2>1, <2>4, <3>1 DEF Moved
  <2>5. QED
    BY <2>2, <2>3, <2>4
<1>2. /\ At("taken")' = Cardinality({k \in Loops: lp'[k].pc = "taken"})
      /\ At("process")' = Cardinality({k \in Loops: lp'[k].pc = "process"})
      /\ At("counted")' = Cardinality({k \in Loops: lp'[k].pc = "counted"})
  BY DEF At
<1>3. QED
  BY <1>1, <1>2

LEMMA CountInit == Init => CountInv
<1> SUFFICES ASSUME Init PROVE CountInv
  OBVIOUS
<1>1. ASSUME NEW c \in {"taken", "process", "counted"} PROVE At(c) = 0
  <2>1. {l \in Loops: lp[l].pc = c} = {}
    BY DEF Init
  <2>2. QED
    BY <2>1, FS_EmptySet DEF At
<1>2. worker \in WorkerState /\ worker.inflight = 0 /\ worker.finished = 0
  BY DEF Init, WorkerState
<1>3. Len(queue) = 0 /\ Cardinality(accepted) = 0
  BY FS_EmptySet DEF Init
<1>4. StatsNearlyExact <=> Len(queue) + worker.inflight + worker.finished
                             = Cardinality(accepted) - At("taken") + At("counted")
  BY DEF StatsNearlyExact, At
<1>5. QED
  BY <1>1, <1>2, <1>3, <1>4 DEF CountInv

(* With At, the property is an equation between numbers. *)
LEMMA StatsEquation ==
  /\ StatsNearlyExact <=> Len(queue) + worker.inflight + worker.finished
                            = Cardinality(accepted) - At("taken") + At("counted")
  /\ StatsNearlyExact' <=> Len(queue)' + worker'.inflight + worker'.finished
                            = Cardinality(accepted)' - At("taken")' + At("counted")'
  BY DEF StatsNearlyExact, At

LEMMA CountTypes ==
  ASSUME ProducerInv, ItemInv, CountInv
  PROVE  /\ worker.inflight \in Nat /\ worker.finished \in Nat
         /\ Cardinality(accepted) \in Nat /\ Len(queue) \in Nat
         /\ At("taken") \in Nat /\ At("process") \in Nat /\ At("counted") \in Nat
<1>1. worker.inflight \in Nat /\ worker.finished \in Nat
  BY DEF CountInv, WorkerState
<1>2. Len(queue) \in Nat
  BY DEF ItemInv
<1>3. QED
  BY <1>1, <1>2, FiniteCounts, FiniteAccepted

LEMMA CountKept ==
  ASSUME CountInv, UNCHANGED <<queue, lp, accepted>>, worker' \in WorkerState,
         worker'.inflight = worker.inflight, worker'.finished = worker.finished
  PROVE  CountInv'
<1>1. At("taken")' = At("taken") /\ At("process")' = At("process")
      /\ At("counted")' = At("counted")
  BY DEF At
<1>2. QED
  BY <1>1, StatsEquation DEF CountInv

(* The equations between numbers, before and after a step that adds the same  *)
(* on both sides                                                             *)
LEMMA Balance ==
  ASSUME NEW q \in Int, NEW i \in Int, NEW f \in Int, NEW a \in Int,
         NEW t \in Int, NEW p \in Int, NEW c \in Int,
         NEW dq \in Int, NEW di \in Int, NEW df \in Int, NEW da \in Int,
         NEW dt \in Int, NEW dp \in Int, NEW dc \in Int,
         i = p + c, q + i + f = a - t + c, di = dp + dc, dq + di + df = da - dt + dc
  PROVE  /\ i + di = (p + dp) + (c + dc)
         /\ (q + dq) + (i + di) + (f + df) = (a + da) - (t + dt) + (c + dc)
  OBVIOUS

LEMMA CountStep ==
  ASSUME ProducerInv, ItemInv, CountInv, worker' \in WorkerState,
         NEW q \in Int, Len(queue') = Len(queue) + q,
         NEW i \in Int, worker'.inflight = worker.inflight + i,
         NEW f \in Int, worker'.finished = worker.finished + f,
         NEW a \in Int, Cardinality(accepted') = Cardinality(accepted) + a,
         NEW t \in Int, At("taken")' = At("taken") + t,
         NEW p \in Int, At("process")' = At("process") + p,
         NEW c \in Int, At("counted")' = At("counted") + c,
         i = p + c, q + i + f = a - t + c
  PROVE  CountInv'
<1>1. Len(queue) + worker.inflight + worker.finished
        = Cardinality(accepted) - At("taken") + At("counted")
  BY StatsEquation DEF CountInv
<1>2. worker.inflight = At("process") + At("counted")
  BY DEF CountInv
<1> DEFINE oq == Len(queue) oi == worker.inflight of == worker.finished
           oa == Cardinality(accepted) ot == At("taken") op == At("process")
           oc == At("counted")
<1>3. /\ oq \in Int /\ oi \in Int /\ of \in Int /\ oa \in Int
      /\ ot \in Int /\ op \in Int /\ oc \in Int
  BY CountTypes
<1>4. oi = op + oc /\ oq + oi + of = oa - ot + oc
  BY <1>1, <1>2
<1> HIDE DEF oq, oi, of, oa, ot, op, oc
<1>5. /\ oi + i = (op + p) + (oc + c)
      /\ (oq + q) + (oi + i) + (of + f) = (oa + a) - (ot + t) + (oc + c)
  BY <1>3, <1>4, Balance
<1>6. worker'.inflight = At("process")' + At("counted")'
  BY <1>5 DEF oi, op, oc
<1>7. StatsNearlyExact'
  BY <1>5, StatsEquation DEF oq, oi, of, oa, ot, oc
<1>8. QED
  BY <1>6, <1>7 DEF CountInv

LEMMA CountSend ==
  ASSUME ProducerInv, ItemInv, CountInv, NEW p \in Producers, EnqueueSend(p)
  PROVE  CountInv'
<1>1. en[p].item \notin accepted /\ en[p].item \in Item
  BY DEF ProducerInv, ProducerState, Coherent, EnqueueSend
<1>2. Cardinality(accepted') = Cardinality(accepted) + 1
  BY <1>1, FiniteAccepted, FS_AddElement DEF EnqueueSend
<1>3. Len(queue') = Len(queue) + 1
  BY <1>1 DEF EnqueueSend, ItemInv
<1>4. UNCHANGED <<lp, worker>>
  BY DEF EnqueueSend
<1>5. At("taken")' = At("taken") + 0 /\ At("process")' = At("process") + 0
      /\ At("counted")' = At("counted") + 0
  BY <1>4, CountTypes DEF At
<1>6. worker' \in WorkerState /\ worker'.inflight = worker.inflight + 0
      /\ worker'.finished = worker.finished + 0
  BY <1>4, CountTypes DEF CountInv
<1>7. QED
  BY <1>2, <1>3, <1>5, <1>6, CountStep

(* A step of a goroutine, by where it comes from and where it goes to *)
LEMMA CountLoop ==
  ASSUME ProducerInv, ItemInv, CountInv, NEW l \in Loops, LoopStep(l)
  PROVE  CountInv'
<1>1. lp \in [Loops -> LoopState] /\ worker \in WorkerState
  BY DEF ItemInv, LoopInv, CountInv
<1>2. ASSUME NEW pc, NEW it, Move(l, pc, it)
      PROVE  lp'[l].pc = pc /\ \A k \in Loops \ {l}: lp'[k] = lp[k]
  BY <1>1, <1>2 DEF Move
<1>3. ASSUME UNCHANGED accepted
      PROVE  Cardinality(accepted') = Cardinality(accepted) + 0
  BY <1>3, CountTypes
<1>4. ASSUME UNCHANGED queue PROVE Len(queue') = Len(queue) + 0
  BY <1>4, CountTypes
<1>5. ASSUME LoopCheck(l) \/ LoopTick(l) \/ LoopExit(l) PROVE CountInv'
  <2>1. lp[l].pc \in {"check", "paused", "dequeue"}
    BY <1>5 DEF LoopCheck, LoopTick, LoopExit
  <2>2. PICK pc \in {"check", "paused", "dequeue", "exited"}: Move(l, pc, None) /\ lp[l].pc # pc
    BY <1>5 DEF LoopCheck, LoopTick, LoopExit
  <2>3. At("taken")' = At("taken") + 0 /\ At("process")' = At("process") + 0
        /\ At("counted")' = At("counted") + 0
    BY <1>2, <2>1, <2>2, AtMove DEF Moved
  <2>4. UNCHANGED <<queue, worker, accepted>>
    BY <1>5 DEF LoopCheck, LoopTick, LoopExit, chan, history
  <2>5. worker' \in WorkerState /\ worker'.inflight = worker.inflight + 0
        /\ worker'.finished = worker.finished + 0
    BY <1>1, <2>4, CountTypes
  <2>6. Cardinality(accepted') = Cardinality(accepted) + 0 /\ Len(queue') = Len(queue) + 0
    BY <1>3, <1>4, <2>4
  <2>7. QED
    BY <2>3, <2>5, <2>6, CountStep
<1>6. ASSUME LoopTake(l) PROVE CountInv'
  <2>1. Move(l, "taken", Head(queue)) /\ lp[l].pc = "dequeue" /\ UNCHANGED <<worker, accepted>>
    BY <1>6 DEF LoopTake
  <2>2. At("taken")' = At("taken") + 1 /\ At("process")' = At("process") + 0
        /\ At("counted")' = At("counted") + 0
    BY <1>2, <2>1, AtMove DEF Moved
  <2>3. Len(queue') = Len(queue) + (-1)
    BY <1>6, CountTypes, ItemTake
  <2>4. worker' \in WorkerState /\ worker'.inflight = worker.inflight + 0
        /\ worker'.finished = worker.finished + 0
    BY <1>1, <2>1, CountTypes
  <2>5. QED
    BY <1>3, <2>1, <2>2, <2>3, <2>4, CountStep
<1>7. ASSUME LoopBegin(l) PROVE CountInv'
  <2>1. /\ Move(l, "process", lp[l].item) /\ lp[l].pc = "taken"
        /\ worker' = [worker EXCEPT !.inflight = @ + 1] /\ UNCHANGED <<queue, accepted>>
    BY <1>7 DEF LoopBegin, chan, history
  <2>2. At("taken")' = At("taken") + (-1) /\ At("process")' = At("process") + 1
        /\ At("counted")' = At("counted") + 0
    BY <1>2, <2>1, AtMove DEF Moved
  <2>3. /\ worker'.inflight = worker.inflight + 1 /\ worker'.finished = worker.finished + 0
        /\ worker' \in WorkerState
    BY <1>1, <2>1 DEF WorkerState
  <2>4. Cardinality(accepted') = Cardinality(accepted) + 0 /\ Len(queue') = Len(queue) + 0
    BY <1>3, <1>4, <2>1
  <2>5. QED
    BY <2>2, <2>3, <2>4, CountStep
<1>8. ASSUME LoopProcess(l) PROVE CountInv'
  <2>1. /\ Move(l, "counted", None) /\ lp[l].pc = "process"
        /\ worker' = [worker EXCEPT !.finished = @ + 1] /\ UNCHANGED <<queue, accepted>>
    BY <1>8 DEF LoopProcess, chan
  <2>2. At("taken")' = At("taken") + 0 /\ At("process")' = At("process") + (-1)
        /\ At("counted")' = At("counted") + 1
    BY <1>2, <2>1, AtMove DEF Moved
  <2>3. /\ worker'.inflight = worker.inflight + 0 /\ worker'.finished = worker.finished + 1
        /\ worker' \in WorkerState
    BY <1>1, <2>1 DEF WorkerState
  <2>4. Cardinality(accepted') = Cardinality(accepted) + 0 /\ Len(queue') = Len(queue) + 0
    BY <1>3, <1>4, <2>1
  <2>5. QED
    BY <2>2, <2>3, <2>4, CountStep
<1>9. ASSUME LoopEnd(l) PROVE CountInv'
  <2>1. /\ Move(l, "check", None) /\ lp[l].pc = "counted"
        /\ worker' = [worker EXCEPT !.inflight = @ - 1] /\ UNCHANGED <<queue, accepted>>
    BY <1>9 DEF LoopEnd, chan, history
  <2>2. At("taken")' = At("taken") + 0 /\ At("process")' = At("process") + 0
        /\ At("counted")' = At("counted") + (-1)
    BY <1>2, <2>1, AtMove DEF Moved
  <2>3. worker.inflight - 1 \in Nat
    <3>1. l \in {k \in Loops: lp[k].pc = "counted"}
      BY <2>1
    <3>2. At("counted") # 0
      BY <3>1, FiniteCounts, FS_EmptySet DEF At
    <3>3. QED
      BY <3>2, CountTypes DEF CountInv
  <2>4. /\ worker'.inflight = worker.inflight + (-1) /\ worker'.finished = worker.finished + 0
        /\ worker' \in WorkerState
    BY <1>1, <2>1, <2>3 DEF WorkerState
  <2>5. Cardinality(accepted') = Cardinality(accepted) + 0 /\ Len(queue') = Len(queue) + 0
    BY <1>3, <1>4, <2>1
  <2>6. QED
    BY <2>2, <2>4, <2>5, CountStep
<1>10. QED
  BY <1>5, <1>6, <1>7, <1>8, <1>9 DEF LoopStep

LEMMA CountNext == ProducerInv /\ ItemInv /\ CountInv /\ [Next]_vars => CountInv'
<1> SUFFICES ASSUME ProducerInv, ItemInv, CountInv, [Next]_vars PROVE CountInv'
  OBVIOUS
<1>1. ASSUME NEW p \in Producers, EnqueueSend(p) PROVE CountInv'
  BY <1>1, CountSend
<1>2. ASSUME NEW l \in Loops, LoopStep(l) PROVE CountInv'
  BY <1>2, CountLoop
<1>3. CASE \/ \E p \in Producers: ProducerStep(p) /\ ~EnqueueSend(p)
           \/ Pause \/ Resume \/ ScrubEnd \/ ScrubTimer \/ Signal \/ Expire \/ Shutdown
           \/ Gone \/ UNCHANGED vars
  <2>1. UNCHANGED <<queue, lp, accepted>>
    BY <1>3, OthersKeepItems
  <2>2. \/ UNCHANGED worker
        \/ \E b \in BOOLEAN: worker' = [worker EXCEPT !.paused = b]
        \/ worker' = [worker EXCEPT !.cancelled = TRUE]
    <3>1. ASSUME NEW p \in Producers, ProducerStep(p) PROVE UNCHANGED worker
      BY <3>1 DEF ProducerStep, Begin, Finish, EnqueueCheck, EnqueueSend, EnqueueCancel,
         EnqueuePanic
    <3>2. CASE Shutdown
      BY <3>2 DEF Shutdown, HTTPShutdown, AdminShutdown, ScrubStop, ScrubWait, WorkerStop,
         WorkerWait, CloseFlag, CloseChannel, MainReturn
    <3>3. CASE Pause \/ Resume \/ ScrubEnd \/ ScrubTimer \/ Signal \/ Expire \/ Gone
               \/ UNCHANGED vars
      BY <3>3 DEF Pause, Resume, ScrubEnd, ScrubTimer, Signal, Expire, Gone, vars
    <3>4. QED
      BY <1>3, <3>1, <3>2, <3>3
  <2>3. worker' \in WorkerState /\ worker'.inflight = worker.inflight
        /\ worker'.finished = worker.finished
    BY <2>2 DEF CountInv, WorkerState
  <2>4. QED
    BY <2>1, <2>3, CountKept
<1>4. QED
  BY <1>1, <1>2, <1>3 DEF Next

---------------------------------------------------------------------------
(* The pause *)

(* Since the last Pause a goroutine took one item at most, and none yet if it  *)
(* is waiting for one or if the worker is not paused.                         *)
PauseInv ==
  /\ sincePause \in [Loops -> Nat]
  /\ \A l \in Loops: sincePause[l] <= 1
  /\ \A l \in Loops: lp[l].pc = "dequeue" \/ ~worker.paused => sincePause[l] = 0

LEMMA PauseInit == Init => PauseInv
  BY DEF Init, PauseInv

LEMMA PauseLoop ==
  ASSUME ItemInv, CountInv, PauseInv, NEW l \in Loops, LoopStep(l)
  PROVE  PauseInv'
<1>1. worker'.paused = worker.paused
  BY DEF LoopStep, LoopCheck, LoopTick, LoopTake, LoopExit, LoopBegin, LoopProcess, LoopEnd,
     CountInv, WorkerState
<1>2. \A k \in Loops \ {l}: lp'[k] = lp[k]
  BY DEF LoopStep, LoopCheck, LoopTick, LoopTake, LoopExit, LoopBegin, LoopProcess, LoopEnd,
     Move, ItemInv, LoopInv
<1>3. CASE LoopTake(l)
  <2>1. lp[l].pc = "dequeue" /\ lp'[l].pc = "taken"
    BY <1>3 DEF LoopTake, Move, ItemInv, LoopInv
  <2>2. sincePause[l] = 0
    BY <2>1 DEF PauseInv
  <2>3. sincePause' = [sincePause EXCEPT ![l] = IF worker.paused THEN 1 ELSE 0]
    BY <1>3, <2>2 DEF LoopTake, PauseInv
  <2>4. QED
    BY <1>1, <1>2, <2>1, <2>3 DEF PauseInv
<1>4. CASE LoopCheck(l)
  <2>1. UNCHANGED sincePause /\ (lp'[l].pc = "dequeue" => ~worker.paused)
    BY <1>4 DEF LoopCheck, Move, ItemInv, LoopInv, history
  <2>2. QED
    BY <1>1, <1>2, <2>1 DEF PauseInv
<1>5. CASE LoopTick(l) \/ LoopExit(l) \/ LoopBegin(l) \/ LoopProcess(l) \/ LoopEnd(l)
  <2>1. UNCHANGED sincePause /\ lp'[l].pc # "dequeue"
    BY <1>5 DEF LoopTick, LoopExit, LoopBegin, LoopProcess, LoopEnd, Move, ItemInv, LoopInv,
       history
  <2>2. QED
    BY <1>1, <1>2, <2>1 DEF PauseInv
<1>6. QED
  BY <1>3, <1>4, <1>5 DEF LoopStep

LEMMA PauseNext == ItemInv /\ CountInv /\ PauseInv /\ [Next]_vars => PauseInv'
<1> SUFFICES ASSUME ItemInv, CountInv, PauseInv, [Next]_vars PROVE PauseInv'
  OBVIOUS
<1>1. ASSUME NEW p \in Producers, ProducerStep(p) PROVE UNCHANGED <<lp, worker, sincePause>>
  BY <1>1 DEF ProducerStep, Begin, Finish, EnqueueCheck, EnqueueSend, EnqueueCancel,
     EnqueuePanic, history
<1>2. CASE Pause \/ Resume
  BY <1>2 DEF Pause, Resume, PauseInv
<1>3. ASSUME Shutdown PROVE UNCHANGED <<lp, sincePause>> /\ worker'.paused = worker.paused
  <2>1. UNCHANGED <<lp, sincePause>>
    BY <1>3 DEF Shutdown, HTTPShutdown, AdminShutdown, ScrubStop, ScrubWait, WorkerStop,
       WorkerWait, CloseFlag, CloseChannel, MainReturn, Quiet, history
  <2>2. worker' \in {worker, [worker EXCEPT !.cancelled = TRUE]}
    BY <1>3 DEF Shutdown, HTTPShutdown, AdminShutdown, ScrubStop, ScrubWait, WorkerStop,
       WorkerWait, CloseFlag, CloseChannel, MainReturn
  <2>3. QED
    BY <2>1, <2>2 DEF CountInv, WorkerState
<1>4. ASSUME ScrubEnd \/ ScrubTimer \/ Signal \/ Expire \/ Gone \/ UNCHANGED vars
      PROVE  UNCHANGED <<lp, worker, sincePause>>
  BY <1>4 DEF ScrubEnd, ScrubTimer, Signal, Expire, Gone, vars, Quiet, history
<1>5. QED
  BY <1>1, <1>2, <1>3, <1>4, PauseLoop DEF Next, PauseInv

---------------------------------------------------------------------------
(* The shutdown *)

PastWorker == {"close", "closing", "closed", "stopped"}
PastScrub == PastWorker \cup {"workerStop", "workerWait"}
PastAdmin == PastScrub \cup {"scrubStop", "scrubWait"}
PastHTTP == PastAdmin \cup {"admin"}

(* What holds at every stage, also after the deadline *)
PartsInv ==
  /\ conf \in Config
  /\ main \in PastHTTP \cup {"serving", "http", "crashed"}
  /\ scrub \in {"off", "run", "wait", "exited"}
  /\ expired \in BOOLEAN /\ qclosed \in BOOLEAN /\ chClosed \in BOOLEAN
  /\ conf.scrub <=> scrub # "off"
  /\ ~conf.worker => \A l \in Loops: lp[l].pc = "exited"
  /\ chClosed => main \in {"closed", "stopped", "crashed"}
  /\ scrub # "run" => \A p \in Scanners: en[p].pc = "open"

(* What main has waited for, unless the deadline cut a wait short *)
StageInv ==
  ~expired =>
    /\ ~Panicked /\ main # "crashed"
    /\ main \in PastHTTP => \A p \in Requests: en[p].task # "read"
    /\ main \in PastAdmin => \A p \in Requests: en[p] = NoTask
    /\ main \in PastScrub => scrub \in {"off", "exited"}
    /\ main \in PastWorker => \A l \in Loops: lp[l].pc = "exited"

LEMMA PartsInit == Init => PartsInv
<1> SUFFICES ASSUME Init PROVE PartsInv
  OBVIOUS
<1>1. conf \in Config /\ conf.scrub \in BOOLEAN /\ conf.worker \in BOOLEAN
  BY ConfigsAssumption DEF Init, Config
<1>2. \A p \in Scanners: en[p].pc = "open"
  BY DEF Init, Producers, Scanning
<1>3. QED
  BY <1>1, <1>2 DEF Init, PartsInv

LEMMA StageInit == Init => StageInv
<1> SUFFICES ASSUME Init PROVE StageInv
  OBVIOUS
<1>1. \A p \in Producers: en[p].pc # "panicked"
  BY DEF Init, Producers, Scanning, NoTask
<1>2. QED
  BY <1>1 DEF Init, StageInv, Panicked, PastHTTP, PastAdmin, PastScrub, PastWorker

(* Where main goes after it has waited *)
LEMMA Onward ==
  ASSUME conf \in Config
  PROVE  /\ AfterWorker \in PastWorker
         /\ AfterScrub \in PastScrub /\ (AfterScrub \in PastWorker => ~conf.worker)
         /\ AfterAdmin \in PastAdmin /\ (AfterAdmin \in PastScrub => ~conf.scrub)
         /\ (AfterAdmin \in PastWorker => ~conf.worker)
         /\ {AfterWorker, AfterScrub, AfterAdmin} \cap {"closing", "stopped"} = {}
  BY DEF AfterAdmin, AfterScrub, AfterWorker, PastAdmin, PastScrub, PastWorker, Config

(* A worker goroutine that has exited takes no step. *)
LEMMA LoopStays ==
  ASSUME LoopInv, NEW l \in Loops, LoopStep(l), NEW k \in Loops, lp[k].pc = "exited"
  PROVE  lp'[k].pc = "exited"
<1>1. lp[l].pc # "exited" /\ \A j \in Loops \ {l}: lp'[j] = lp[j]
  BY DEF LoopStep, LoopCheck, LoopTick, LoopTake, LoopExit, LoopBegin, LoopProcess, LoopEnd,
     Move, LoopInv
<1>2. QED
  BY <1>1

LEMMA PartsProducer ==
  ASSUME ProducerInv, PartsInv, NEW p \in Producers, ProducerStep(p)
  PROVE  PartsInv'
<1>1. UNCHANGED <<conf, scrub, expired, qclosed, chClosed, lp>>
  BY DEF ProducerStep, Begin, Finish, EnqueueCheck, EnqueueSend, EnqueueCancel, EnqueuePanic,
     control, chan
<1>2. main' = main \/ (chClosed /\ main' = "crashed")
  BY DEF ProducerStep, Begin, Finish, EnqueueCheck, EnqueueSend, EnqueueCancel, EnqueuePanic,
     control
<1>3. \A q \in Producers \ {p}: en'[q] = en[q]
  BY DEF ProducerStep, Begin, Finish, EnqueueCheck, EnqueueSend, EnqueueCancel, EnqueuePanic,
     Enter, ProducerInv
<1>4. ~(p \in Scanners /\ scrub # "run")
  <2>1. SUFFICES ASSUME p \in Scanners, scrub # "run" PROVE FALSE
    OBVIOUS
  <2>2. en[p].pc = "open" /\ p \notin Requests
    BY <2>1, ProcsAssumption DEF PartsInv
  <2>3. QED
    BY <2>1, <2>2 DEF ProducerStep, Begin, Finish, EnqueueCheck, MayEnqueue, EnqueueSend,
       EnqueueCancel, EnqueuePanic
<1>5. scrub' # "run" => \A q \in Scanners: en'[q].pc = "open"
  BY <1>1, <1>3, <1>4 DEF PartsInv, Producers
<1>6. QED
  BY <1>1, <1>2, <1>5 DEF PartsInv

LEMMA PartsNext == ProducerInv /\ ItemInv /\ PartsInv /\ [Next]_vars => PartsInv'
<1> SUFFICES ASSUME ProducerInv, ItemInv, PartsInv, [Next]_vars PROVE PartsInv'
  OBVIOUS
<1>1. ASSUME NEW p \in Producers, ProducerStep(p) PROVE PartsInv'
  BY <1>1, PartsProducer
<1>2. ASSUME NEW l \in Loops, LoopStep(l) PROVE PartsInv'
  <2>1. UNCHANGED <<conf, main, scrub, expired, qclosed, chClosed, en>>
    BY <1>2 DEF LoopStep, LoopCheck, LoopTick, LoopTake, LoopExit, LoopBegin, LoopProcess,
       LoopEnd, control, chan, producing
  <2>2. \A k \in Loops: lp[k].pc = "exited" => lp'[k].pc = "exited"
    BY <1>2, LoopStays DEF ItemInv
  <2>3. QED
    BY <2>1, <2>2 DEF PartsInv
<1>3. CASE Pause \/ Resume \/ Expire \/ Gone \/ UNCHANGED vars
  <2>1. UNCHANGED <<conf, main, scrub, qclosed, chClosed, en, lp>> /\ expired' \in BOOLEAN
    BY <1>3 DEF Pause, Resume, Expire, Gone, vars, Quiet, control, chan, producing, PartsInv
  <2>2. QED
    BY <2>1 DEF PartsInv
<1>4. CASE ScrubEnd \/ ScrubTimer
  <2>1. UNCHANGED <<conf, main, expired, qclosed, chClosed, en, lp>>
    BY <1>4 DEF ScrubEnd, ScrubTimer, chan, producing
  <2>2. /\ scrub \in {"run", "wait"} /\ scrub' \in {"run", "wait"}
        /\ scrub' # "run" => \A q \in Scanners: en[q].pc = "open"
    BY <1>4 DEF ScrubEnd, ScrubTimer
  <2>3. QED
    BY <2>1, <2>2 DEF PartsInv
<1>5. CASE ScrubStop
  <2>1. UNCHANGED <<conf, expired, qclosed, chClosed, en, lp>>
        /\ main = "scrubStop" /\ main' = "scrubWait"
        /\ (scrub' = scrub \/ (scrub = "wait" /\ scrub' = "exited"))
    BY <1>5 DEF ScrubStop, MainStep, Quiet, chan, producing
  <2>2. QED
    BY <2>1 DEF PartsInv, PastHTTP, PastAdmin, PastScrub, PastWorker
<1>6. CASE (Signal \/ Shutdown) /\ ~ScrubStop
  <2>1. UNCHANGED <<conf, expired, scrub, en, lp>>
    BY <1>6 DEF Signal, Shutdown, HTTPShutdown, AdminShutdown, ScrubWait, WorkerStop,
       WorkerWait, CloseFlag, CloseChannel, MainReturn, Quiet, producing
  <2>2. /\ main' \in {"http", "admin", AfterAdmin, AfterScrub, AfterWorker, "workerWait",
                      "closing", "closed", "stopped"}
        /\ qclosed' \in {qclosed, TRUE}
        /\ \/ chClosed' = chClosed /\ (main \in {"closed", "stopped", "crashed"} =>
                                         main' = "stopped")
           \/ chClosed' = TRUE /\ main' = "closed"
    BY <1>6 DEF Signal, Shutdown, HTTPShutdown, AdminShutdown, ScrubWait, WorkerStop,
       WorkerWait, CloseFlag, CloseChannel, MainReturn, MainStep, chan
  <2>3. main' \in PastHTTP \cup {"serving", "http", "crashed"}
    BY <2>2, Onward DEF PartsInv, PastHTTP, PastAdmin, PastScrub, PastWorker
  <2>4. chClosed' => main' \in {"closed", "stopped", "crashed"}
    BY <2>2 DEF PartsInv
  <2>5. QED
    BY <2>1, <2>2, <2>3, <2>4 DEF PartsInv
<1>7. QED
  BY <1>1, <1>2, <1>3, <1>4, <1>5, <1>6 DEF Next

(* Before the deadline nobody enqueues once main has waited for the requests   *)
(* and the scrubber.                                                          *)
LEMMA NobodySends ==
  ASSUME ProducerInv, PartsInv, StageInv, ~expired, main \in PastScrub, NEW p \in Producers
  PROVE  en[p].pc \in {"idle", "open"}
<1>1. CASE p \in Requests
  BY <1>1 DEF StageInv, PastAdmin, NoTask
<1>2. CASE p \in Scanners
  BY <1>2 DEF StageInv, PartsInv
<1>3. QED
  BY <1>1, <1>2 DEF Producers

LEMMA StageProducer ==
  ASSUME ProducerInv, PartsInv, StageInv, NEW p \in Producers, ProducerStep(p)
  PROVE  StageInv'
<1> SUFFICES ASSUME ~expired' PROVE StageInv'
  BY DEF StageInv
<1>1. UNCHANGED <<scrub, lp>> /\ ~expired
  BY DEF ProducerStep, Begin, Finish, EnqueueCheck, EnqueueSend, EnqueueCancel, EnqueuePanic,
     control
<1>2. ~EnqueuePanic(p)
  <2>1. SUFFICES ASSUME EnqueuePanic(p) PROVE FALSE
    OBVIOUS
  <2>2. main = "closed" /\ en[p].pc = "send"
    BY <2>1 DEF EnqueuePanic, PartsInv, Alive
  <2>3. QED
    BY <1>1, <2>2, NobodySends DEF PastScrub, PastWorker
<1>3. main' = main
  BY <1>2 DEF ProducerStep, Begin, Finish, EnqueueCheck, EnqueueSend, EnqueueCancel, control
<1>4. \A q \in Producers \ {p}: en'[q] = en[q]
  BY DEF ProducerStep, Begin, Finish, EnqueueCheck, EnqueueSend, EnqueueCancel, EnqueuePanic,
     Enter, ProducerInv
<1>5. /\ en'[p].pc # "panicked"
      /\ p \in Requests /\ main \in PastHTTP => en'[p].task # "read"
      /\ p \in Requests => main \notin PastAdmin
  <2>1. en[p] \in ProducerState /\ Coherent(p, en[p]) /\ p \in DOMAIN en
    BY DEF ProducerInv
  <2>2. p \in Requests /\ main \in PastHTTP => en[p].task # "read"
    BY <1>1 DEF StageInv
  <2>3. p \in Requests /\ main \in PastAdmin => en[p] = NoTask
    BY <1>1 DEF StageInv
  <2>4. CASE \E task \in {"read", "admin", "audit"}: p \in Requests /\ Begin(p, task)
    BY <2>1, <2>4 DEF Begin, Enter, PastHTTP, PastAdmin, PastScrub, PastWorker
  <2>5. CASE Finish(p)
    BY <2>1, <2>3, <2>5 DEF Finish, NoTask
  <2>6. CASE EnqueueCheck(p)
    BY <2>1, <2>2, <2>3, <2>6 DEF EnqueueCheck, MayEnqueue, Enter, Returned, NoTask
  <2>7. CASE EnqueueSend(p) \/ EnqueueCancel(p)
    BY <2>1, <2>2, <2>3, <2>7 DEF EnqueueSend, EnqueueCancel, Returned, NoTask
  <2>8. QED
    BY <1>2, <2>4, <2>5, <2>6, <2>7 DEF ProducerStep
<1>6. QED
  BY <1>1, <1>3, <1>4, <1>5 DEF StageInv, Panicked, Producers

LEMMA StageMain ==
  ASSUME ProducerInv, PartsInv, StageInv, Signal \/ Expire \/ Shutdown
  PROVE  StageInv'
<1> USE DEF PastHTTP, PastAdmin, PastScrub, PastWorker
<1> SUFFICES ASSUME ~expired' PROVE StageInv'
  BY DEF StageInv
<1>1. ~Expire
  BY DEF Expire
<1>2. UNCHANGED <<en, lp, expired, conf>> /\ (scrub' = scrub \/ scrub' = "exited")
  BY <1>1 DEF Signal, Shutdown, HTTPShutdown, AdminShutdown, ScrubStop, ScrubWait, WorkerStop,
     WorkerWait, CloseFlag, CloseChannel, MainReturn, Quiet, producing
<1>3. ~Panicked /\ ~Panicked'
  BY <1>2 DEF StageInv, Panicked
<1>4. CASE Signal
  BY <1>2, <1>3, <1>4 DEF StageInv, Signal, MainStep
<1>5. CASE HTTPShutdown
  <2>1. \A p \in Requests: en[p].task # "read"
    BY <1>2, <1>3, <1>5 DEF HTTPShutdown, NoneServed, Panicked, Producers
  <2>2. QED
    BY <1>2, <1>3, <1>5, <2>1 DEF StageInv, HTTPShutdown, MainStep
<1>6. CASE AdminShutdown
  <2>1. ASSUME NEW p \in Requests PROVE en[p] = NoTask /\ en[p].task # "read"
    <3>1. en[p] \in ProducerState /\ Coherent(p, en[p]) /\ p \in Producers
      BY DEF ProducerInv, Producers
    <3>2. en[p].task \notin {"admin", "audit"}
      BY <1>2, <1>3, <1>6, <3>1 DEF AdminShutdown, NoneServed, Panicked
    <3>3. en[p].task # "read"
      BY <1>2, <1>6 DEF StageInv, AdminShutdown, MainStep
    <3>4. en[p].task = "none" /\ en[p].pc = "idle" /\ en[p].item = None
      BY <3>1, <3>2, <3>3, <2>1 DEF Coherent, ProducerState, Tasks
    <3>5. QED
      BY <3>1, <3>3, <3>4 DEF NoTask, ProducerState
  <2>2. main' = AfterAdmin
    BY <1>6 DEF AdminShutdown, MainStep
  <2>3. main' \in PastScrub => scrub' = "off"
    <3>1. UNCHANGED scrub
      BY <1>6 DEF AdminShutdown
    <3>2. QED
      BY <2>2, <3>1, Onward DEF PartsInv
  <2>4. main' \in PastWorker => \A l \in Loops: lp'[l].pc = "exited"
    BY <1>2, <2>2, Onward DEF PartsInv
  <2>5. main' # "crashed"
    BY <2>2, Onward DEF PartsInv
  <2>6. QED
    BY <1>2, <1>3, <2>1, <2>3, <2>4, <2>5 DEF StageInv
<1>7. CASE ScrubStop
  BY <1>2, <1>3, <1>7 DEF StageInv, ScrubStop, MainStep
<1>8. CASE ScrubWait
  <2>1. /\ main = "scrubWait" /\ main' = AfterScrub
        /\ scrub' = "exited"
    BY <1>2, <1>8 DEF ScrubWait, MainStep
  <2>2. main' \in PastScrub /\ (main' \in PastWorker => \A l \in Loops: lp'[l].pc = "exited")
    BY <1>2, <2>1, Onward DEF PartsInv
  <2>3. QED
    BY <1>2, <1>3, <2>1, <2>2 DEF StageInv
<1>9. CASE WorkerStop
  BY <1>2, <1>3, <1>9 DEF StageInv, WorkerStop, MainStep
<1>10. CASE WorkerWait
  <2>1. /\ main = "workerWait" /\ main' = AfterWorker /\ UNCHANGED scrub
        /\ \A l \in Loops: lp[l].pc = "exited"
    BY <1>2, <1>10 DEF WorkerWait, MainStep
  <2>2. main' \in PastWorker
    BY <2>1, Onward DEF PartsInv
  <2>3. QED
    BY <1>2, <1>3, <2>1, <2>2 DEF StageInv
<1>11. CASE CloseFlag \/ CloseChannel \/ MainReturn
  <2>1. main \in PastWorker /\ main' \in PastWorker /\ UNCHANGED scrub
    BY <1>11 DEF CloseFlag, CloseChannel, MainReturn, MainStep
  <2>2. QED
    BY <1>2, <1>3, <2>1 DEF StageInv
<1>12. QED
  BY <1>1, <1>4, <1>5, <1>6, <1>7, <1>8, <1>9, <1>10, <1>11 DEF Shutdown

LEMMA StageNext ==
  ProducerInv /\ ItemInv /\ PartsInv /\ StageInv /\ [Next]_vars => StageInv'
<1> SUFFICES ASSUME ProducerInv, ItemInv, PartsInv, StageInv, [Next]_vars PROVE StageInv'
  OBVIOUS
<1>1. ASSUME NEW l \in Loops, LoopStep(l) PROVE StageInv'
  <2>1. UNCHANGED <<main, scrub, expired, en>>
    BY <1>1 DEF LoopStep, LoopCheck, LoopTick, LoopTake, LoopExit, LoopBegin, LoopProcess,
       LoopEnd, control, producing
  <2>2. \A k \in Loops: lp[k].pc = "exited" => lp'[k].pc = "exited"
    BY <1>1, LoopStays DEF ItemInv
  <2>3. QED
    BY <2>1, <2>2 DEF StageInv, Panicked
<1>2. CASE Pause \/ Resume \/ Gone \/ UNCHANGED vars
  <2>1. UNCHANGED <<main, scrub, expired, en, lp>>
    BY <1>2 DEF Pause, Resume, Gone, vars, control, producing
  <2>2. QED
    BY <2>1 DEF StageInv, Panicked
<1>3. CASE ScrubEnd \/ ScrubTimer
  <2>1. UNCHANGED <<main, expired, en, lp>> /\ scrub \notin {"off", "exited"}
    BY <1>3 DEF ScrubEnd, ScrubTimer, producing
  <2>2. QED
    BY <2>1 DEF StageInv, Panicked
<1>4. QED
  BY <1>1, <1>2, <1>3, StageProducer, StageMain DEF Next

---------------------------------------------------------------------------
(* The theorems *)

PipelineInv == ProducerInv /\ ItemInv /\ CountInv /\ PauseInv /\ PartsInv /\ StageInv

(* The five parts hold in every reachable state, whatever the actors do.       *)
THEOREM PipelineHeld == Spec => []PipelineInv
<1>1. Init => PipelineInv
  BY ProducerInit, ItemInit, CountInit, PauseInit, PartsInit, StageInit DEF PipelineInv
<1>2. PipelineInv /\ [Next]_vars => PipelineInv'
  BY ProducerNext, ItemNext, CountNext, PauseNext, PartsNext, StageNext DEF PipelineInv
<1>3. QED
  BY <1>1, <1>2, PTL DEF Spec

(* Every variable keeps its type, in particular the channel its capacity.      *)
THEOREM PipelineTypeCorrect == Spec => []TypeOK
<1>1. PipelineInv => TypeOK
  <2> SUFFICES ASSUME PipelineInv PROVE TypeOK
    OBVIOUS
  <2>1. accepted \subseteq Item
    BY ItemsAssumption DEF PipelineInv, ProducerInv, Item
  <2>2. QED
    BY <2>1 DEF PipelineInv, ProducerInv, ItemInv, LoopInv, CountInv, PauseInv, PartsInv,
       TypeOK, ProducerState, Tasks, LoopState, LoopPCs, WorkerState, PastHTTP, PastAdmin,
       PastScrub, PastWorker
<1>2. QED
  BY <1>1, PipelineHeld, PTL

(* No accepted item is lost, doubled or still with its producer, for any       *)
(* number of goroutines, any capacity, and also after the shutdown deadline.   *)
THEOREM PipelineItems == Spec => []EachItemOnce
<1>1. PipelineInv => EachItemOnce
  <2> SUFFICES ASSUME PipelineInv PROVE EachItemOnce
    OBVIOUS
  <2>1. \A it \in accepted: it <= seen /\ it \notin OnItsWay
    BY ItemsAssumption DEF PipelineInv, ProducerInv, OnItsWay
  <2>2. QED
    BY <2>1 DEF PipelineInv, ItemInv, EachItemOnce
<1>2. QED
  BY <1>1, PipelineHeld, PTL

(* The queue length and the worker's counters miss the accepted items by       *)
(* exactly the goroutines between a receive and the counter that goes with it. *)
THEOREM PipelineStats == Spec => []StatsNearlyExact
<1>1. PipelineInv => StatsNearlyExact
  BY DEF PipelineInv, CountInv
<1>2. QED
  BY <1>1, PipelineHeld, PTL

(* A paused worker takes at most one more item per goroutine, for any number   *)
(* of pauses and resumes.                                                      *)
THEOREM PipelinePause == Spec => []PauseLeaksOne
<1>1. PipelineInv => PauseLeaksOne
  BY DEF PipelineInv, PauseInv, PauseLeaksOne
<1>2. QED
  BY <1>1, PipelineHeld, PTL

(* A shutdown within its deadline panics nobody and leaves nobody behind, in    *)
(* every configuration main can be started with.                              *)
THEOREM PipelineShutdown == Spec => []CleanShutdown
<1>1. PipelineInv => CleanShutdown
  <2> SUFFICES ASSUME PipelineInv, ~expired PROVE CleanShutdown
    BY DEF CleanShutdown
  <2>1. ~Panicked
    BY DEF PipelineInv, StageInv
  <2>2. ASSUME main \in {"closing", "closed", "stopped"}
        PROVE  /\ \A l \in Loops: lp[l].pc = "exited"
               /\ \A p \in Producers: en[p].pc \in {"idle", "open"}
               /\ \A p \in Requests: en[p] = NoTask
               /\ scrub \in {"off", "exited"}
    BY <2>2, NobodySends DEF PipelineInv, StageInv, PastAdmin, PastScrub, PastWorker
  <2>3. ASSUME \A l \in Loops: lp[l].pc = "exited" PROVE worker.inflight = 0
    <3>1. {l \in Loops: lp[l].pc = "process"} = {} /\ {l \in Loops: lp[l].pc = "counted"} = {}
      BY <2>3
    <3>2. At("process") = 0 /\ At("counted") = 0
      BY <3>1, FS_EmptySet DEF At
    <3>3. QED
      BY <3>2 DEF PipelineInv, CountInv
  <2>4. QED
    BY <2>1, <2>2, <2>3 DEF CleanShutdown
<1>2. QED
  BY <1>1, PipelineHeld, PTL

---------------------------------------------------------------------------
(* The refinement of WorkQueue.  An item is in at most one of the sets its     *)
(* place is read from, so a step that moves one item between them is a step of *)
(* the abstract queue, and every other step a stutter.                        *)

(* The sets are disjoint, and an item not seen yet is in none of them. *)
LEMMA OnePlace ==
  ASSUME ProducerInv, ItemInv
  PROVE  /\ OnItsWay \subseteq 1..seen /\ accepted \subseteq 1..seen
         /\ OnItsWay \cap accepted = {}
         /\ accepted = Queued \cup InHand \cup handled
         /\ Queued \cap (InHand \cup handled) = {} /\ InHand \cap handled = {}
         /\ seen \in 0..Items /\ 1..seen \subseteq Item
<1>1. OnItsWay \subseteq 1..seen
  BY NoneIsNoItem, ItemsAssumption DEF ProducerInv, ProducerState, OnItsWay, Item
<1>2. OnItsWay \cap accepted = {}
  BY DEF ProducerInv, OnItsWay
<1>3. QED
  BY <1>1, <1>2, ItemsAssumption DEF ProducerInv, ItemInv, Item

(* What one producer's move does to the items on their way *)
LEMMA WayMove ==
  ASSUME ProducerInv, NEW p \in Producers, NEW e, en' = [en EXCEPT ![p] = e]
  PROVE  OnItsWay' = (OnItsWay \ {en[p].item}) \cup ({e.item} \ {None})
<1>1. en'[p] = e /\ \A q \in Producers \ {p}: en'[q] = en[q]
  BY DEF ProducerInv
<1>2. QED
  BY <1>1 DEF ProducerInv, OnItsWay

(* A step that moves nothing *)
LEMMA PlaceKept ==
  ASSUME UNCHANGED <<seen, queue, handled, conf, chClosed>>, OnItsWay' = OnItsWay,
         InHand' = InHand
  PROVE  UNCHANGED <<PlaceOf, queue, conf.cap, chClosed>>
<1>1. Queued' = Queued
  BY DEF Queued
<1>2. QED
  BY <1>1 DEF PlaceOf, Place

(* A step that moves x alone *)
LEMMA PlaceMoves ==
  ASSUME NEW x \in Item, \A it \in Item \ {x}: /\ it > seen <=> it > seen'
                                               /\ it \in OnItsWay <=> it \in OnItsWay'
                                               /\ it \in Queued <=> it \in Queued'
                                               /\ it \in InHand <=> it \in InHand'
                                               /\ it \in handled <=> it \in handled'
  PROVE  /\ PlaceOf' = [PlaceOf EXCEPT ![x] = PlaceOf'[x]]
         /\ PlaceOf[x] = CASE x > seen -> "new" [] x \in OnItsWay -> "offered"
                           [] x \in Queued -> "queued" [] x \in InHand -> "taken"
                           [] x \in handled -> "done" [] OTHER -> "dropped"
         /\ PlaceOf'[x] = CASE x > seen' -> "new" [] x \in OnItsWay' -> "offered"
                            [] x \in Queued' -> "queued" [] x \in InHand' -> "taken"
                            [] x \in handled' -> "done" [] OTHER -> "dropped"
<1>1. /\ DOMAIN PlaceOf = Item /\ DOMAIN PlaceOf' = Item
      /\ \A it \in Item: PlaceOf[it] = CASE it > seen -> "new" [] it \in OnItsWay -> "offered"
                           [] it \in Queued -> "queued" [] it \in InHand -> "taken"
                           [] it \in handled -> "done" [] OTHER -> "dropped"
      /\ \A it \in Item: PlaceOf'[it] = CASE it > seen' -> "new" [] it \in OnItsWay' -> "offered"
                            [] it \in Queued' -> "queued" [] it \in InHand' -> "taken"
                            [] it \in handled' -> "done" [] OTHER -> "dropped"
  BY DEF PlaceOf, Place
<1>2. \A it \in Item \ {x}: PlaceOf'[it] = PlaceOf[it]
  BY <1>1
<1>3. PlaceOf' = [it \in Item |-> PlaceOf'[it]] /\ PlaceOf = [it \in Item |-> PlaceOf[it]]
  BY DEF PlaceOf
<1>4. PlaceOf' = [PlaceOf EXCEPT ![x] = PlaceOf'[x]]
  BY <1>2, <1>3
<1>5. QED
  BY <1>1, <1>4

LEMMA QueueInit == Init => Queue!Init
<1> SUFFICES ASSUME Init PROVE Queue!Init
  OBVIOUS
<1>1. \A it \in Item: it > seen /\ it \notin OnItsWay /\ it \notin accepted
  BY ProducerInit, ItemInit, OnePlace, ItemsAssumption DEF Init, Item
<1>2. \A it \in Item: Place(it) = "new"
  BY <1>1, ProducerInit, ItemInit, OnePlace DEF Place
<1>3. conf.cap \in Nat \ {0}
  BY ConfigsAssumption DEF Init, Config
<1>4. QED
  BY <1>2, <1>3 DEF Init, PlaceOf, Queue!Init

LEMMA QueueCheck ==
  ASSUME ProducerInv, ItemInv, NEW p \in Producers, EnqueueCheck(p)
  PROVE  Queue!Next
<1> DEFINE x == seen + 1
<1>1. x \in Item /\ seen \in Nat /\ seen' = x
  BY ItemsAssumption DEF EnqueueCheck, ProducerInv, Item
<1>2. UNCHANGED <<queue, handled, conf, chClosed, lp>>
  BY DEF EnqueueCheck, chan, control, history
<1>3. Queued' = Queued /\ InHand' = InHand
  BY <1>2 DEF Queued, InHand
<1>4. en[p].pc = "open" /\ en[p].item = None
  BY DEF EnqueueCheck, MayEnqueue, ProducerInv, Coherent
<1>5. en[p] \in ProducerState /\ Coherent(p, en[p])
  BY DEF ProducerInv
<1>6. OnItsWay' = IF qclosed THEN OnItsWay ELSE OnItsWay \cup {x}
  <2>1. None \notin OnItsWay /\ x # None
    BY <1>1, NoneIsNoItem DEF OnItsWay
  <2>2. CASE qclosed
    <3>1. en' = [en EXCEPT ![p] = Returned(en[p])] /\ Returned(en[p]).item = None
      BY <1>4, <1>5, <2>2, ReturnedState DEF EnqueueCheck
    <3>2. OnItsWay' = (OnItsWay \ {en[p].item}) \cup ({Returned(en[p]).item} \ {None})
      BY <3>1, WayMove
    <3>3. QED
      BY <1>4, <2>1, <2>2, <3>1, <3>2
  <2>3. CASE ~qclosed
    <3>1. en' = [en EXCEPT ![p] = [task |-> en[p].task, pc |-> "send", item |-> x]]
      BY <1>1, <2>3 DEF EnqueueCheck, Enter
    <3>2. OnItsWay' = (OnItsWay \ {en[p].item}) \cup ({x} \ {None})
      BY <3>1, WayMove
    <3>3. QED
      BY <1>4, <2>1, <2>3, <3>2
  <2>4. QED
    BY <2>2, <2>3
<1>7. /\ x \notin OnItsWay /\ x \notin Queued /\ x \notin InHand /\ x \notin handled
  BY <1>1, OnePlace
<1> HIDE DEF x
<1>8. \A it \in Item \ {x}: it > seen <=> it > seen'
  BY <1>1, NoneIsNoItem DEF x
<1>9. \A it \in Item \ {x}: /\ it > seen <=> it > seen'
                            /\ it \in OnItsWay <=> it \in OnItsWay'
                            /\ it \in Queued <=> it \in Queued'
                            /\ it \in InHand <=> it \in InHand'
                            /\ it \in handled <=> it \in handled'
  BY <1>2, <1>3, <1>6, <1>8
<1>10. PlaceOf[x] = "new"
  BY <1>1, <1>7, <1>9, PlaceMoves DEF x
<1>11. PlaceOf'[x] = IF qclosed THEN "dropped" ELSE "offered"
  <2>1. ~(x > seen')
    BY <1>1, NoneIsNoItem
  <2>2. QED
    BY <1>1, <1>2, <1>3, <1>6, <1>7, <1>9, <2>1, PlaceMoves
<1>12. PlaceOf' = [PlaceOf EXCEPT ![x] = PlaceOf'[x]]
  BY <1>1, <1>9, PlaceMoves
<1>13. Queue!Drop(x) \/ Queue!Offer(x)
  BY <1>2, <1>10, <1>11, <1>12 DEF Queue!Drop, Queue!Offer, Queue!Go
<1>14. QED
  BY <1>1, <1>13 DEF Queue!Next

LEMMA QueueSend ==
  ASSUME ProducerInv, ItemInv, NEW p \in Producers, EnqueueSend(p)
  PROVE  Queue!Next
<1> DEFINE x == en[p].item
<1>1. x \in Item /\ x \in OnItsWay
  BY NoneIsNoItem DEF EnqueueSend, ProducerInv, ProducerState, Coherent, OnItsWay
<1>2. /\ UNCHANGED <<seen, handled, conf, chClosed, lp>>
      /\ queue' = Append(queue, x) /\ ~chClosed /\ Len(queue) < conf.cap
  BY DEF EnqueueSend, control
<1>3. x <= seen /\ x \notin Queued /\ x \notin InHand /\ x \notin handled /\ ~(x > seen)
  BY <1>1, OnePlace
<1>4. OnItsWay' = OnItsWay \ {x}
  <2>1. en[p] \in ProducerState /\ Coherent(p, en[p]) /\ en[p].pc = "send"
    BY DEF ProducerInv, EnqueueSend
  <2>2. en' = [en EXCEPT ![p] = Returned(en[p])] /\ Returned(en[p]).item = None
    BY <2>1, ReturnedState DEF EnqueueSend
  <2>3. OnItsWay' = (OnItsWay \ {en[p].item}) \cup ({Returned(en[p]).item} \ {None})
    BY <2>2, WayMove
  <2>4. QED
    BY <2>2, <2>3
<1>5. InHand' = InHand
  BY <1>2 DEF InHand
<1>6. Queued' = Queued \cup {x}
  BY <1>1, <1>2, <1>3, AppendNew DEF ItemInv, Queued
<1> HIDE DEF x
<1>7. \A it \in Item \ {x}: /\ it > seen <=> it > seen'
                            /\ it \in OnItsWay <=> it \in OnItsWay'
                            /\ it \in Queued <=> it \in Queued'
                            /\ it \in InHand <=> it \in InHand'
                            /\ it \in handled <=> it \in handled'
  BY <1>2, <1>4, <1>5, <1>6
<1>8. PlaceOf[x] = "offered"
  BY <1>1, <1>3, <1>7, PlaceMoves
<1>9. PlaceOf'[x] = "queued"
  BY <1>1, <1>2, <1>3, <1>4, <1>5, <1>6, <1>7, PlaceMoves
<1>10. PlaceOf' = [PlaceOf EXCEPT ![x] = PlaceOf'[x]]
  BY <1>1, <1>7, PlaceMoves
<1>11. Queue!Accept(x)
  BY <1>2, <1>8, <1>9, <1>10 DEF Queue!Accept, Queue!Go
<1>12. QED
  BY <1>1, <1>11 DEF Queue!Next

LEMMA QueueCancel ==
  ASSUME ProducerInv, ItemInv, NEW p \in Producers, EnqueueCancel(p)
  PROVE  Queue!Next
<1> DEFINE x == en[p].item
<1>1. x \in Item /\ x \in OnItsWay
  BY NoneIsNoItem DEF EnqueueCancel, ProducerInv, ProducerState, Coherent, OnItsWay
<1>2. UNCHANGED <<seen, handled, conf, chClosed, lp, queue>>
  BY DEF EnqueueCancel, control, chan, history
<1>3. x <= seen /\ x \notin Queued /\ x \notin InHand /\ x \notin handled /\ ~(x > seen)
  BY <1>1, OnePlace
<1>4. OnItsWay' = OnItsWay \ {x}
  <2>1. en[p] \in ProducerState /\ Coherent(p, en[p]) /\ en[p].pc = "send"
    BY DEF ProducerInv, EnqueueCancel
  <2>2. en' = [en EXCEPT ![p] = Returned(en[p])] /\ Returned(en[p]).item = None
    BY <2>1, ReturnedState DEF EnqueueCancel
  <2>3. OnItsWay' = (OnItsWay \ {en[p].item}) \cup ({Returned(en[p]).item} \ {None})
    BY <2>2, WayMove
  <2>4. QED
    BY <2>2, <2>3
<1>5. InHand' = InHand /\ Queued' = Queued
  BY <1>2 DEF InHand, Queued
<1> HIDE DEF x
<1>6. \A it \in Item \ {x}: /\ it > seen <=> it > seen'
                            /\ it \in OnItsWay <=> it \in OnItsWay'
                            /\ it \in Queued <=> it \in Queued'
                            /\ it \in InHand <=> it \in InHand'
                            /\ it \in handled <=> it \in handled'
  BY <1>2, <1>4, <1>5
<1>7. PlaceOf[x] = "offered"
  BY <1>1, <1>3, <1>6, PlaceMoves
<1>8. PlaceOf'[x] = "dropped"
  BY <1>1, <1>2, <1>3, <1>4, <1>5, <1>6, PlaceMoves
<1>9. PlaceOf' = [PlaceOf EXCEPT ![x] = PlaceOf'[x]]
  BY <1>1, <1>6, PlaceMoves
<1>10. Queue!Drop(x)
  BY <1>2, <1>7, <1>8, <1>9 DEF Queue!Drop, Queue!Go
<1>11. QED
  BY <1>1, <1>10 DEF Queue!Next

LEMMA QueueTake ==
  ASSUME ProducerInv, ItemInv, NEW l \in Loops, LoopTake(l)
  PROVE  Queue!Next
<1> DEFINE x == Head(queue)
<1>1. /\ UNCHANGED <<seen, handled, conf, chClosed, en>>
      /\ queue # <<>> /\ queue' = Tail(queue) /\ Move(l, "taken", x) /\ lp[l].pc = "dequeue"
  BY DEF LoopTake, control, producing
<1>2. x \in Item /\ x \in Queued /\ Queued' = Queued \ {x}
  BY <1>1, TailOld DEF ItemInv, Queued
<1>3. ~(x > seen) /\ x \notin OnItsWay /\ x \notin InHand /\ x \notin handled
  BY <1>2, OnePlace
<1>4. InHand' = InHand \cup {x}
  <2>1. lp[l].item = None /\ x # None
    BY <1>1, <1>2, NoneIsNoItem DEF ItemInv, LoopInv
  <2>2. InHand' = (InHand \ {lp[l].item}) \cup ({x} \ {None})
    BY <1>1, <1>2, <2>1, InHandMove DEF ItemInv, LoopPCs
  <2>3. None \notin InHand
    BY DEF InHand
  <2>4. QED
    BY <2>1, <2>2, <2>3
<1>5. OnItsWay' = OnItsWay
  BY <1>1 DEF OnItsWay
<1> HIDE DEF x
<1>6. \A it \in Item \ {x}: /\ it > seen <=> it > seen'
                            /\ it \in OnItsWay <=> it \in OnItsWay'
                            /\ it \in Queued <=> it \in Queued'
                            /\ it \in InHand <=> it \in InHand'
                            /\ it \in handled <=> it \in handled'
  BY <1>1, <1>2, <1>4, <1>5
<1>7. PlaceOf[x] = "queued"
  BY <1>2, <1>3, <1>6, PlaceMoves
<1>8. PlaceOf'[x] = "taken"
  BY <1>1, <1>2, <1>3, <1>4, <1>5, <1>6, PlaceMoves
<1>9. PlaceOf' = [PlaceOf EXCEPT ![x] = PlaceOf'[x]]
  BY <1>2, <1>6, PlaceMoves
<1>10. Queue!Take(x)
  BY <1>1, <1>7, <1>8, <1>9 DEF Queue!Take, Queue!Go, x
<1>11. QED
  BY <1>2, <1>10 DEF Queue!Next

LEMMA QueueFinish ==
  ASSUME ProducerInv, ItemInv, NEW l \in Loops, LoopProcess(l)
  PROVE  Queue!Next
<1> DEFINE x == lp[l].item
<1>1. /\ UNCHANGED <<seen, queue, conf, chClosed, en>>
      /\ handled' = handled \cup {x} /\ Move(l, "counted", None) /\ lp[l].pc = "process"
  BY DEF LoopProcess, control, producing, chan
<1>2. x \in Item /\ x # None
  BY <1>1, NoneIsNoItem DEF ItemInv, LoopInv, LoopState
<1>3. x \in InHand
  BY <1>2 DEF InHand
<1>4. ~(x > seen) /\ x \notin OnItsWay /\ x \notin Queued /\ x \notin handled
  BY <1>2, <1>3, OnePlace
<1>5. InHand' = InHand \ {x}
  <2>1. InHand' = (InHand \ {x}) \cup ({None} \ {None})
    BY <1>1, InHandMove DEF ItemInv, LoopPCs
  <2>2. QED
    BY <2>1
<1>6. OnItsWay' = OnItsWay /\ Queued' = Queued
  BY <1>1 DEF OnItsWay, Queued
<1> HIDE DEF x
<1>7. \A it \in Item \ {x}: /\ it > seen <=> it > seen'
                            /\ it \in OnItsWay <=> it \in OnItsWay'
                            /\ it \in Queued <=> it \in Queued'
                            /\ it \in InHand <=> it \in InHand'
                            /\ it \in handled <=> it \in handled'
  BY <1>1, <1>5, <1>6
<1>8. PlaceOf[x] = "taken"
  BY <1>2, <1>3, <1>4, <1>7, PlaceMoves
<1>9. PlaceOf'[x] = "done"
  BY <1>1, <1>2, <1>4, <1>5, <1>6, <1>7, PlaceMoves
<1>10. PlaceOf' = [PlaceOf EXCEPT ![x] = PlaceOf'[x]]
  BY <1>2, <1>7, PlaceMoves
<1>11. Queue!Finish(x)
  BY <1>1, <1>8, <1>9, <1>10 DEF Queue!Finish, Queue!Go
<1>12. QED
  BY <1>2, <1>11 DEF Queue!Next

(* A producer that neither gets an item nor gives one up *)
LEMMA QueueOther ==
  ASSUME ProducerInv, NEW p \in Producers,
         \/ \E task \in {"read", "admin", "audit"}: p \in Requests /\ Begin(p, task)
         \/ Finish(p) \/ EnqueuePanic(p)
  PROVE  UNCHANGED <<PlaceOf, queue, conf.cap, chClosed>>
<1>1. UNCHANGED <<seen, queue, handled, conf, chClosed, lp>>
  BY DEF Begin, Finish, EnqueuePanic, chan, control, history
<1>2. ASSUME NEW e, en' = [en EXCEPT ![p] = e], e.item = en[p].item
      PROVE  OnItsWay' = OnItsWay
  <2>1. OnItsWay' = (OnItsWay \ {en[p].item}) \cup ({e.item} \ {None})
    BY <1>2, WayMove
  <2>2. en[p].item \in OnItsWay \/ en[p].item = None
    BY DEF OnItsWay
  <2>3. None \notin OnItsWay
    BY DEF OnItsWay
  <2>4. QED
    BY <1>2, <2>1, <2>2, <2>3
<1>3. OnItsWay' = OnItsWay
  <2>1. ASSUME NEW task, Begin(p, task) PROVE OnItsWay' = OnItsWay
    <3> DEFINE e == [task |-> task, pc |-> "open", item |-> None]
    <3>1. en' = [en EXCEPT ![p] = e] /\ e.item = en[p].item
      BY <2>1 DEF Begin, Enter, NoTask
    <3>2. QED
      BY <1>2, <3>1
  <2>2. CASE Finish(p)
    <3>1. en' = [en EXCEPT ![p] = NoTask] /\ NoTask.item = en[p].item
      BY <2>2 DEF Finish, ProducerInv, Coherent, NoTask
    <3>2. QED
      BY <1>2, <3>1
  <2>3. CASE EnqueuePanic(p)
    <3> DEFINE e == [task |-> en[p].task, pc |-> "panicked", item |-> en[p].item]
    <3>1. en' = [en EXCEPT ![p] = e] /\ e.item = en[p].item
      BY <2>3 DEF EnqueuePanic, Enter
    <3>2. QED
      BY <1>2, <3>1
  <2>4. QED
    BY <2>1, <2>2, <2>3
<1>4. InHand' = InHand
  BY <1>1 DEF InHand
<1>5. QED
  BY <1>1, <1>3, <1>4, PlaceKept

LEMMA QueueStep ==
  ASSUME ProducerInv, ItemInv, PartsInv, [Next]_vars
  PROVE  [Queue!Next]_<<PlaceOf, queue, conf.cap, chClosed>>
<1>1. ASSUME NEW p \in Producers, ProducerStep(p)
      PROVE  Queue!Next \/ UNCHANGED <<PlaceOf, queue, conf.cap, chClosed>>
  BY <1>1, QueueCheck, QueueSend, QueueCancel, QueueOther DEF ProducerStep
<1>2. ASSUME NEW l \in Loops, LoopStep(l)
      PROVE  Queue!Next \/ UNCHANGED <<PlaceOf, queue, conf.cap, chClosed>>
  <2>1. CASE LoopTake(l)
    BY <2>1, QueueTake
  <2>2. CASE LoopProcess(l)
    BY <2>2, QueueFinish
  <2>3. CASE LoopCheck(l) \/ LoopTick(l) \/ LoopExit(l) \/ LoopBegin(l) \/ LoopEnd(l)
    <3>1. UNCHANGED <<seen, queue, handled, conf, chClosed, en>>
      BY <2>3 DEF LoopCheck, LoopTick, LoopExit, LoopBegin, LoopEnd, producing, control, chan,
         history
    <3>2. OnItsWay' = OnItsWay /\ InHand' = InHand
      BY <2>3, <3>1, ItemMove DEF OnItsWay
    <3>3. QED
      BY <3>1, <3>2, PlaceKept
  <2>4. QED
    BY <1>2, <2>1, <2>2, <2>3 DEF LoopStep
<1>3. ASSUME \/ Pause \/ Resume \/ ScrubEnd \/ ScrubTimer \/ Signal \/ Expire \/ Gone
             \/ UNCHANGED vars \/ Shutdown
      PROVE  Queue!Next \/ UNCHANGED <<PlaceOf, queue, conf.cap, chClosed>>
  <2>1. UNCHANGED <<seen, queue, handled, conf, en, lp>>
    <3>1. UNCHANGED <<en, seen>> /\ UNCHANGED <<conf, queue, lp, handled>>
      BY <1>3, OthersKeep, OthersKeepItems
    <3>2. QED
      BY <3>1
  <2>2. OnItsWay' = OnItsWay /\ InHand' = InHand /\ Queued' = Queued
    BY <2>1 DEF OnItsWay, InHand, Queued
  <2>3. PlaceOf' = PlaceOf
    BY <2>1, <2>2 DEF PlaceOf, Place
  <2>4. chClosed' = chClosed \/ (~chClosed /\ chClosed' = TRUE)
    <3>1. CASE CloseChannel
      BY <3>1 DEF CloseChannel, MainStep, PartsInv
    <3>2. CASE ~CloseChannel
      BY <1>3, <3>2 DEF Pause, Resume, ScrubEnd, ScrubTimer, Signal, Expire, Gone, vars,
         Shutdown, HTTPShutdown, AdminShutdown, ScrubStop, ScrubWait, WorkerStop, WorkerWait,
         CloseFlag, MainReturn, chan
    <3>3. QED
      BY <3>1, <3>2
  <2>5. QED
    BY <2>1, <2>3, <2>4 DEF Queue!Next, Queue!Shut
<1>4. QED
  BY <1>1, <1>2, <1>3 DEF Next

(* MemQueue with its producers, the worker goroutines and the shutdown is the   *)
(* abstract bounded first-come-first-served queue, for any number of them.     *)
THEOREM PipelineIsQueue == Spec => QueueSpec
<1>1. Init => Queue!Init
  BY QueueInit
<1>2. PipelineInv /\ [Next]_vars => [Queue!Next]_<<PlaceOf, queue, conf.cap, chClosed>>
  BY QueueStep DEF PipelineInv
<1>3. QED
  BY <1>1, <1>2, PipelineHeld, PTL DEF Spec, QueueSpec, Queue!Spec

=============================================================================
