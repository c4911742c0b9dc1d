----------------------------- MODULE MCListing -----------------------------
(* Instances of Listing for TLC.  Characters: 1 is "-", 2 is ".", 3 is "/",   *)
(* 4 is "a", 5 is "b": the order of their bytes.  A temp file is named ".a-". *)
EXTENDS Listing

TreeKeys == {<<4>>, <<4, 1, 5>>, <<4, 3, 4>>, <<4, 3, 4, 3, 5>>, <<4, 1, 3, 5>>}
Temp == {<<2, 4, 1>>}
SomePrefixes == {<<>>, <<4, 3>>}
Delimiters == {<<>>, <<1>>, <<3>>}
FromSome == {<<>>, <<4, 3, 4>>}
============================================================================
