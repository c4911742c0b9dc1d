---------------------------- MODULE MCMultipart ----------------------------
(* Instances of Multipart for TLC. *)
EXTENDS Multipart

CONSTANTS u1, i1, h1, h2, c1, a1, g1, big, small

MCSize == [c \in Chunk |-> IF c = big THEN 5 ELSE 2]
TwoParts == 1..2
=============================================================================
