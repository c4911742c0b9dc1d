----------------------------- MODULE MCScrubber -----------------------------
(* Instances of Scrubber for TLC. *)
EXTENDS Scrubber

CONSTANTS a1, v1, v2
=============================================================================
