---------------------------- MODULE MCFullyAsync ----------------------------
(* Instance of FullyAsync for TLC. *)
EXTENDS FullyAsyncPipeline

MCSamples == 1..TotalRolloutSteps
MCConsumers == {Reader}
=============================================================================
