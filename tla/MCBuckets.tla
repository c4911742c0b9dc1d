----------------------------- MODULE MCBuckets -----------------------------
(* An instance of Buckets for TLC: one client handler creates and deletes. *)
EXTENDS Buckets

CONSTANTS c1, d1, d2, w1, i1, e1, k1, k2, u1
============================================================================
