-------------------------- MODULE MCSealedObject --------------------------
(* Instances of SealedObject for TLC: payloads over two byte values, one of  *)
(* them a proper prefix of another.                                         *)
EXTENDS SealedObject

CONSTANTS p1, p2, r1, d1, w1, s1

TwoContents == {<<0>>, <<0, 1>>}
Bits == {0, 1}
CRCRot == {"header", "footer"}
===========================================================================
