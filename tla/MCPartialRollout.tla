--------------------------- MODULE MCPartialRollout ----------------------------
(* Instances of PartialRollout for TLC. *)
EXTENDS PartialRollout

CONSTANTS i0, s0, s1

MCSamples == {i0}
MCServers == {s0, s1}
=============================================================================
