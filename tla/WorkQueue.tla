------------------------------ MODULE WorkQueue ------------------------------
(***************************************************************************)
(* What the bounded repair queue and the workers on it promise together, to *)
(* someone who sees neither channels nor goroutines: an item is offered     *)
(* once, is then accepted or dropped, waits its turn first come first       *)
(* served among at most cap others, is taken by one worker and is finished  *)
(* at most once.  After Shut nothing is accepted; what waits may still be   *)
(* taken.                                                                   *)
(***************************************************************************)
EXTENDS Naturals, Sequences

CONSTANT Item

VARIABLES place,  \* where each item is
          order,  \* the items that wait, the oldest first
          cap,    \* how many items may wait, chosen when the queue is made
          shut    \* is the queue closed

Places == {"new", "offered", "dropped", "queued", "taken", "done"}

Init ==
  /\ place = [it \in Item |-> "new"]
  /\ order = <<>>
  /\ cap \in Nat \ {0}
  /\ shut = FALSE

Go(it, from, to) == place[it] = from /\ place' = [place EXCEPT ![it] = to]

Offer(it) == Go(it, "new", "offered") /\ UNCHANGED <<order, cap, shut>>

Drop(it) ==
  /\ Go(it, "new", "dropped") \/ Go(it, "offered", "dropped")
  /\ UNCHANGED <<order, cap, shut>>

Accept(it) ==
  /\ ~shut /\ Len(order) < cap
  /\ Go(it, "offered", "queued")
  /\ order' = Append(order, it)
  /\ UNCHANGED <<cap, shut>>

Take(it) ==
  /\ order # <<>> /\ it = Head(order)
  /\ Go(it, "queued", "taken")
  /\ order' = Tail(order)
  /\ UNCHANGED <<cap, shut>>

Finish(it) == Go(it, "taken", "done") /\ UNCHANGED <<order, cap, shut>>

Shut == ~shut /\ shut' = TRUE /\ UNCHANGED <<place, order, cap>>

Next ==
  \/ \E it \in Item: Offer(it) \/ Drop(it) \/ Accept(it) \/ Take(it) \/ Finish(it)
  \/ Shut

Spec == Init /\ [][Next]_<<place, order, cap, shut>>
=============================================================================
