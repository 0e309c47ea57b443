--------------------------- MODULE MCMessageQueue ---------------------------
(* Instance of MessageQueueChannel for TLC: two samples, the finish signal   *)
(* and two consumers.                                                        *)
EXTENDS MessageQueueChannel

CONSTANTS s1, s2, c1, c2

MCSamples == {s1, s2}
MCConsumers == {c1, c2}
=============================================================================
