------------------------- MODULE FullyAsyncPipeline -------------------------
(***************************************************************************)
(* The recipe implements SamplePipeline.  A sample is where it has got     *)
(* least far, so one that is in two places would be seen to go back.       *)
(***************************************************************************)
EXTENDS FullyAsync

InRollout == SamplesOf(pendingQueue) \cup {hand} \cup InTask \cup SamplesOf(cancelQueue)

place == [s \in Samples |-> IF s > fed THEN "new"
                            ELSE IF s \in InRollout THEN "rollout"
                            ELSE IF s \in SamplesOf(queue) THEN "queue"
                            ELSE IF s \in SamplesOf(batch) THEN "batch"
                            ELSE IF s \in trained THEN "trained" ELSE "lost"]

Pipeline == INSTANCE SamplePipeline WITH BatchSize <- RequiredSamples

\* Every step of the recipe is a step of the pipeline or none: whatever is
\* interrupted, requeued, dropped or cleared, samples only go forward, and
\* training only takes full batches.
ImplementsPipeline == Pipeline!Spec
=============================================================================
