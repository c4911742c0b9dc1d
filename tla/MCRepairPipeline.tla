------------------------- MODULE MCRepairPipeline -------------------------
(* Instances of RepairPipeline for TLC. *)
EXTENDS RepairPipeline

CONSTANTS r1, s1, l1, l2

(* Every combination of parts with a queue that the items can fill, and one *)
(* in which several of them wait.                                          *)
MCConfigs ==
  {c \in [queue: BOOLEAN, worker: BOOLEAN, scrub: BOOLEAN, cap: {1}]:
     c.worker => c.queue}
  \cup {[queue |-> TRUE, worker |-> TRUE, scrub |-> FALSE, cap |-> 2]}
===========================================================================
