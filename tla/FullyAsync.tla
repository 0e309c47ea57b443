----------------------------- MODULE FullyAsync -----------------------------
(***************************************************************************)
(* The fully asynchronous recipe as a whole: rollouter, message queue,     *)
(* trainer, synchronizer, and the main program that waits for both fit     *)
(* routines and then clears the queue (fully_async_main.py).               *)
(***************************************************************************)
EXTENDS Trainer

VARIABLE runner   \* _run_training_loop: "waiting" for both futures, or "ended"

vars == <<mqVars, rollVars, trainVars, runner>>

Init == MQInit /\ RollInit /\ TrainInit /\ runner = "waiting"

RollouterEnded == main = "ended" /\ monitor = "ended"

RunnerEnds ==
    /\ runner = "waiting"
    /\ RollouterEnded
    /\ trainer = "ended"
    /\ ClearQueue
    /\ runner' = "ended"
    /\ UNCHANGED <<rollVars, trainVars>>

Terminated == runner = "ended" /\ UNCHANGED vars

Others == UNCHANGED <<trainVars, runner>>

Next ==
    \/ RollNext /\ Others
    \/ TrainNext /\ UNCHANGED runner
    \/ RunnerEnds
    \/ Terminated

\* The event loop, the timer and every process and call outside the loop go
\* on.  That a generation fails is not assumed.
Fairness ==
    /\ WF_vars(LoopRuns /\ Others)
    /\ WF_vars(TaskEnvironment /\ Others)
    /\ WF_vars(MonitorTimer /\ Others)
    /\ WF_vars(QueueTakesNone /\ Others)
    /\ WF_vars(SyncEnvironment /\ Others)
    /\ WF_vars(TrainNext /\ UNCHANGED runner)
    /\ WF_vars(RunnerEnds)

Spec == Init /\ [][Next]_vars
FairSpec == Spec /\ Fairness

-----------------------------------------------------------------------------
(* Where a sample is. *)
Ended == runner = "ended"
SamplesOf(q) == {q[i] : i \in 1..Len(q)} \cap Samples
Occurrences(s, q) == Cardinality({i \in 1..Len(q) : q[i] = s})
InSet(s, S) == IF s \in S THEN 1 ELSE 0

\* Samples whose task has not handed them over yet.
InTask == {s \in Samples : task[s] \notin {"none", "put", "failed"}}

\* How many times the system holds sample s.
Copies(s) ==
    Occurrences(s, pendingQueue) + InSet(s, {hand}) + InSet(s, InTask) + Occurrences(s, cancelQueue)
      + Occurrences(s, queue) + Occurrences(s, batch) + InSet(s, trained)

\* Taken from the feeder and not yet by the trainer.
Outstanding ==
    Cardinality(InTask \cup ({hand} \cap Samples)) + Len(cancelQueue) + Cardinality(SamplesOf(queue))

SamplesPerVersion == RequiredSamples * TriggerSyncStep

-----------------------------------------------------------------------------
(* Properties that hold. *)

\* Every variable of the three processes keeps its type.
TypeOK == MQTypeOK /\ RollTypeOK /\ TrainTypeOK /\ runner \in {"waiting", "ended"}

\* A sample that was fed is in one place at most, one that was not is nowhere:
\* it is never trained on twice, whatever is interrupted, requeued or resubmitted.
ExactlyOnce == \A s \in Samples : Copies(s) <= IF s <= fed THEN 1 ELSE 0

\* The samples that are nowhere are those the queue dropped or cleared, and
\* those whose generation raised: no other path loses a sample.  (The queue
\* counts the finish signal too, if it loses it.)
Accounted ==
    LET nowhere == {s \in Samples : s <= fed /\ Copies(s) = 0}
        signalGone == main \in {"sent", "stopping", "ended"} /\ ~stopping
                         /\ \A i \in 1..Len(queue) : queue[i] # None
    IN droppedSamples + cleared + failures = Cardinality(nowhere) + (IF signalGone THEN 1 ELSE 0)

\* The finish signal is the last entry of the queue, and no task can put
\* another sample after it, unless a generation raised.
SentinelLast ==
    /\ \A i \in 1..Len(queue) : queue[i] = None => (i = Len(queue) \/ failures > 0)
    /\ main \in {"sent", "stopping", "ended"} => (Live = {} \/ failures > 0)

\* The processor raises only because a generation did: the tasks never go away
\* between its test of active_tasks and the lock in a way that leaves the local
\* done_tasks unbound. pending_queue must be large enough for that, as the code's
\* 128 is for all but large settings: see ProcessorCrashesOnlyOnFailure.
CrashesOnlyOnFailure == processor = "crashed" => failures > 0

\* The freshness counter misses at most the one sample the processor holds, so
\* the samples under way never exceed the limit by more than one.
CounterCovers ==
    /\ Outstanding <= staleness + 1
    /\ Outstanding <= MaxRequiredSamples + 1

\* Freshness of what is trained on, while a sample is in a batch that will be
\* trained on.  If the staleness threshold is less than one sample it is on
\* policy.  If not, a sample that is finished when the monitor has unpaused before
\* update_param_version is stamped with the version already replaced, and
\* until it is put the trainer may complete the next version as well; then it
\* waits in the queue behind all but one of the MaxRequiredSamples that fit.
VersionLag ==
    ~stopping => \A s \in SamplesOf(batch) :
        trainerVersion - stamp[s] <=
            IF MaxRequiredSamples = SamplesPerVersion THEN 0
            ELSE (MaxRequiredSamples - 1) \div SamplesPerVersion + 2

\* The three version counters follow one another one step apart, and the
\* rollouter's has caught up when no synchronization is under way.
VersionsInStep ==
    /\ version <= mqVersion /\ mqVersion <= version + 1
    /\ mqVersion <= trainerVersion /\ trainerVersion <= mqVersion + 1
    /\ sync = "none" => version = mqVersion

\* The trainer reads every validation result before it ends, and at most two wait.
ValidationsRead == Len(valQueue) <= 2 /\ (trainer = "ended" => valQueue = <<>>)

\* When the trainer ends, the rollouter has its last weights, and the last
\* version that is a multiple of save_freq has been saved.
EndsSynchronized ==
    trainer = "ended" =>
        /\ version = trainerVersion
        /\ localStep = 1
        /\ SaveFreq > 0 => lastCkptVersion = trainerVersion - (trainerVersion % SaveFreq)

\* Both programs end, and the main program with them.  With partial rollout
\* this and ProcessorRecovers need that the interrupted samples cannot alone
\* reach the limit (see the runs).
Termination == <>Ended

\* pause returns: it holds the lock while it waits for the tasks.
PauseReturns == sync = "pauseCall" ~> sync = "paused"

\* A processor that has paused itself goes on (the monitor's "Trigger rollout
\* recovery", lines 619-622).
ProcessorRecovers == processor = "idleWait" ~> processor # "idleWait"

-----------------------------------------------------------------------------
(* What the documentation says; it holds without staleness (see the runs). *)

\* README.md:228-229: during a synchronization the rollouter "will wait for
\* the tasks to complete and not add new tasks": none runs while weights move.
QuietTransfer == trainer = "transfer" => Live = {}

\* README.md:135-138: "at most" (1 + staleness_threshold) * trigger * required
\* samples, the stale ones included, are generated and not yet consumed.
FreshnessBound == Outstanding <= MaxRequiredSamples

\* README.md:116-117: total_rollout_steps is the number of samples of the
\* training: all of them are trained on, but those that fill no batch.
EverySampleTrained ==
    Ended => Cardinality(trained) = TotalRolloutSteps - (TotalRolloutSteps % RequiredSamples)
=============================================================================
