--------------------------- MODULE MCPlainObject ---------------------------
(* Instances of PlainObject for TLC.  The keys are "a", "a/b" and "a/c". *)
EXTENDS PlainObject, TLC

CONSTANTS p1, p2, r1, a, ab, ac, v1, v2

AllPaths == {a, ab, ac}
InA == [p \in AllPaths |-> IF p = a THEN Root ELSE a]
Symmetric ==
  Permutations({v1, v2}) \cup Permutations({p1, p2}) \cup Permutations({ab, ac})
============================================================================
