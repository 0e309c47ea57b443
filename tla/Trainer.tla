------------------------------- MODULE Trainer -------------------------------
(***************************************************************************)
(* The trainer (recipe/fully_async_policy/fully_async_trainer.py) and the  *)
(* ParameterSynchronizer it calls (param_sync.py).  The trainer is one     *)
(* thread that blocks in every call.  sync_weights pauses the rollouter,   *)
(* sets the version of the message queue, moves the weights, and then only *)
(* launches update_param_version and resume: the trainer goes on and waits *)
(* for both before the next synchronization (wait_last_valid).             *)
(***************************************************************************)
EXTENDS Rollouter

CONSTANTS TestFreq,    \* rollout.test_freq
          SaveFreq,    \* trainer.save_freq, 0 for never
          Reader       \* the trainer as a consumer of the message queue

ASSUME FrequencyAssumption == TestFreq \in Nat \ {0} /\ SaveFreq \in Nat

VARIABLES trainer,          \* where fit is
          batch,            \* the samples collected for the next training step; once
                            \* stopping, those of an incomplete batch, given up
          trained,          \* the samples trained on
          localStep,        \* local_trigger_step
          trainerVersion,   \* the trainer's current_param_version
          lastCkptVersion,  \* last_ckpt_version
          stopping          \* the termination signal has come

trainVars == <<trainer, batch, trained, localStep, trainerVersion, lastCkptVersion, stopping>>

ASSUME ReaderAssumption == Consumers = {Reader}

TrainTypeOK ==
    /\ trainer \in {"collect", "train", "waitValid", "pause", "transfer", "log",
                    "final", "finalWait", "ended"}
    /\ batch \in Seq(Samples)
    /\ Len(batch) <= RequiredSamples
    /\ trained \subseteq Samples
    /\ localStep \in 1..TriggerSyncStep
    /\ trainerVersion \in Nat
    /\ lastCkptVersion \in 0..trainerVersion
    /\ stopping \in BOOLEAN

TrainInit ==
    /\ trainer = "collect"
    /\ batch = <<>>
    /\ trained = {}
    /\ localStep = 1
    /\ trainerVersion = 0
    /\ lastCkptVersion = 0
    /\ stopping = FALSE

-----------------------------------------------------------------------------
(* _get_samples_from_queue *)
CollectWaits ==
    /\ trainer = "collect"
    /\ GetSampleWaits(Reader)
    /\ UNCHANGED <<rollVars, trainVars>>

CollectTakes ==
    /\ trainer = "collect"
    /\ GetSampleReturns(Reader)
    /\ Head(queue) # None
    /\ batch' = Append(batch, Head(queue))
    /\ trainer' = IF Len(batch') = RequiredSamples THEN "train" ELSE "collect"
    /\ UNCHANGED <<rollVars, trained, localStep, trainerVersion, lastCkptVersion, stopping>>

\* The termination signal: an incomplete batch is given up.
CollectStops ==
    /\ trainer = "collect"
    /\ GetSampleReturns(Reader)
    /\ Head(queue) = None
    /\ trainer' = "final"
    /\ stopping' = TRUE
    /\ UNCHANGED <<rollVars, batch, trained, localStep, trainerVersion, lastCkptVersion>>

-----------------------------------------------------------------------------
(* _trigger_parameter_sync_after_step *)
NewVersion ==
    /\ trainerVersion' = trainerVersion + 1
    /\ localStep' = 1

\* One training step; the last of TriggerSyncStep of them makes a new version.
Trains ==
    /\ trainer = "train"
    /\ trained' = trained \cup {batch[i] : i \in 1..Len(batch)}
    /\ batch' = <<>>
    /\ \/ /\ localStep < TriggerSyncStep
          /\ localStep' = localStep + 1
          /\ trainer' = "log"
          /\ UNCHANGED trainerVersion
       \/ /\ localStep >= TriggerSyncStep
          /\ NewVersion
          /\ trainer' = "waitValid"
    /\ UNCHANGED <<mqVars, rollVars, lastCkptVersion, stopping>>

SyncIdleEarly == sync \in {"none", "updateCall"}   \* mutant of SyncIdle: nobody waits

\* wait_last_valid: the last update_param_version and resume have returned.
SyncIdle == sync = "none"

\* What the trainer leaves alone when it only moves on in a synchronization.
TrainerGoes(place) ==
    /\ trainer' = place
    /\ UNCHANGED <<batch, trained, localStep, trainerVersion, lastCkptVersion, stopping>>

\* Of the rollouter, the synchronizer only changes the call under way.
RollouterButSync ==
    UNCHANGED <<loopVars, flagVars, feedVars, procVars, taskVars, cancelQueue, staleness, version,
                syncSum, monitor, main, serversPaused>>

\* wait_last_valid has returned, sync_weights begins with pause.
CallsPause ==
    /\ trainer = "waitValid"
    /\ SyncIdle
    /\ sync' = "pauseCall"
    /\ TrainerGoes("pause")
    /\ RollouterButSync
    /\ UNCHANGED <<mqVars, syncVersion>>

\* pause has returned: the weights begin to move.
TransferBegins ==
    /\ trainer = "pause"
    /\ sync = "paused"
    /\ UpdateParamVersion(trainerVersion)
    /\ TrainerGoes("transfer")
    /\ UNCHANGED rollVars

\* The weights are there; update_param_version and resume are launched.
TransferEnds ==
    /\ trainer = "transfer"
    /\ sync' = "updateCall"
    /\ syncVersion' = trainerVersion
    /\ TrainerGoes(IF stopping THEN "finalWait" ELSE "log")
    /\ RollouterButSync
    /\ UNCHANGED mqVars

-----------------------------------------------------------------------------
\* Mutant of CheckpointDue: save_freq versions since the last one.
CheckpointDueLate == SaveFreq > 0 /\ trainerVersion > lastCkptVersion + SaveFreq

CheckpointDue ==
    trainerVersion # lastCkptVersion /\ SaveFreq > 0 /\ trainerVersion % SaveFreq = 0

\* _check_save_checkpoint; what a checkpoint holds is not part of this module.
ChecksCheckpoint ==
    lastCkptVersion' = IF CheckpointDue THEN trainerVersion ELSE lastCkptVersion

NeedsFinalSyncOdd == trainerVersion % TestFreq # 0   \* mutant of NeedsFinalSync

NeedsFinalSync == trainerVersion % TestFreq # 0 \/ localStep > 1

\* The end of one turn of the loop of fit.
Logs ==
    /\ trainer = "log"
    /\ GetValidate
    /\ ChecksCheckpoint
    /\ trainer' = "collect"
    /\ UNCHANGED <<rollVars, batch, trained, localStep, trainerVersion, stopping>>

\* After the loop: a last synchronization if steps have been trained since the
\* last one, or if the last version is not one that is validated.
Finishes ==
    /\ trainer = "final"
    /\ SyncIdle
    /\ GetValidate
    /\ \/ /\ NeedsFinalSync
          /\ NewVersion
          /\ trainer' = "waitValid"
          /\ UNCHANGED lastCkptVersion
       \/ /\ ~NeedsFinalSync
          /\ ChecksCheckpoint
          /\ trainer' = "ended"
          /\ UNCHANGED <<localStep, trainerVersion>>
    /\ UNCHANGED <<rollVars, batch, trained, stopping>>

FinishesSync ==
    /\ trainer = "finalWait"
    /\ SyncIdle
    /\ GetValidate
    /\ ChecksCheckpoint
    /\ trainer' = "ended"
    /\ UNCHANGED <<rollVars, batch, trained, localStep, trainerVersion, stopping>>

TrainNext ==
    \/ CollectWaits \/ CollectTakes \/ CollectStops
    \/ Trains
    \/ CallsPause \/ TransferBegins \/ TransferEnds
    \/ Logs \/ Finishes \/ FinishesSync
=============================================================================
