------------------------------ MODULE Checkpoint ------------------------------
(***************************************************************************)
(* Checkpoints of a training job, crashes and restarts: the driver          *)
(* (verl/trainer/ppo/ray_trainer.py), its worker groups                     *)
(* (verl/utils/checkpoint/fsdp_checkpoint_manager.py) and the disk.         *)
(*                                                                          *)
(* Weights are the sequence of updates they went through, an update being   *)
(* a batch and the incarnation of the job that trained on it: two jobs do   *)
(* not make the same weights of the same batch.                             *)
(***************************************************************************)
EXTENDS Integers, Sequences, FiniteSets

CONSTANTS
    Roles,       \* number of worker groups that save: actor, or actor and critic
    Ranks,       \* the ranks of a worker group
    Rank0,       \* the one that removes old checkpoints
    MaxKeep,     \* max_actor_ckpt_to_keep, max_critic_ckpt_to_keep; 0 is None
    SaveFreq,    \* save_freq
    TotalSteps,  \* total_training_steps
    MaxAhead,    \* batches the dataloader may be read ahead of training
    MaxDrops,    \* bound of the model: batches that are never trained on
    MaxCrashes,  \* bound of the model
    NoFile, Torn \* a file that does not exist, a file that is cut short

\* What happens to the weights: a batch, and the job that trained on it.
Update == Nat \X Nat

ASSUME RanksAssumption == IsFiniteSet(Ranks) /\ Rank0 \in Ranks
ASSUME SizesAssumption ==
    /\ Roles \in Nat \ {0} /\ TotalSteps \in Nat \ {0} /\ SaveFreq \in Nat \ {0}
    /\ MaxAhead \in Nat /\ MaxDrops \in Nat /\ MaxCrashes \in Nat
    /\ MaxKeep \in [1..Roles -> Nat]
ASSUME FilesAssumption ==
    /\ NoFile # Torn
    /\ {NoFile, Torn} \cap (Nat \cup Seq(Update)) = {}

Steps == 1..TotalSteps
Role == 1..Roles

VARIABLES
    \* The disk.
    shard,    \* shard[n][g][r]: the file of rank r of group g in global_step_n
    data,     \* data[n]: data.pt, the position of the dataloader
    tracker,  \* latest_checkpointed_iteration.txt
    \* The job.
    pc,       \* where the driver is
    group,    \* the group that saves
    at,       \* at[r]: where its rank r is
    kept,     \* kept[g]: previous_saved_paths of rank 0 of group g
    step,     \* global_steps
    weights,
    position, \* batches taken from the dataloader
    ahead,    \* of these, the ones in flight: not trained on yet
    lost,     \* and how many of this job will never be
    \* History.
    crashes,
    dropped,  \* by all jobs
    saved     \* the step of the last save that ended

disk == <<shard, data, tracker>>
batches == <<position, ahead, lost, dropped>>
job == <<pc, group, at, kept, step, weights>>
vars == <<disk, job, batches, crashes, saved>>

Init ==
    /\ shard = [n \in Steps |-> [g \in Role |-> [r \in Ranks |-> NoFile]]]
    /\ data = [n \in Steps |-> NoFile]
    /\ tracker = NoFile
    /\ pc = "train" /\ group = 1 /\ at = [r \in Ranks |-> "idle"]
    /\ kept = [g \in Role |-> <<>>]
    /\ step = 0 /\ weights = <<>>
    /\ position = 0 /\ ahead = {} /\ lost = 0 /\ dropped = 0
    /\ crashes = 0 /\ saved = 0

-----------------------------------------------------------------------------
(* Training. *)

Up == pc \notin {"down", "failed", "ended"}

\* A job feeds no more batches than it has steps left.
MayRead == step + Cardinality(ahead) + lost < TotalSteps

\* The asynchronous recipe prepares batches before the driver asks for them.
ReadsAhead ==
    /\ Up /\ MayRead /\ Cardinality(ahead) < MaxAhead
    /\ position' = position + 1
    /\ ahead' = ahead \cup {position'}
    /\ UNCHANGED <<disk, job, lost, dropped, crashes, saved>>

\* One that is dropped by the full queue, or whose generation failed.
Drops ==
    /\ Up /\ dropped < MaxDrops
    /\ \E b \in ahead : ahead' = ahead \ {b}
    /\ lost' = lost + 1 /\ dropped' = dropped + 1
    /\ UNCHANGED <<disk, job, position, crashes, saved>>

\* Generations end in any order, and batches are trained on in the order in which they
\* end. The synchronous trainer takes the next one from the dataloader.
Trains ==
    /\ pc = "train" /\ step < TotalSteps
    /\ \/ \E b \in ahead :
            /\ weights' = Append(weights, <<crashes, b>>)
            /\ ahead' = ahead \ {b}
            /\ UNCHANGED position
       \/ /\ ahead = {} /\ MayRead
          /\ position' = position + 1
          /\ weights' = Append(weights, <<crashes, position'>>)
          /\ UNCHANGED ahead
    /\ step' = step + 1
    /\ pc' = "trained"
    /\ UNCHANGED <<disk, group, at, kept, lost, dropped, crashes, saved>>

\* After drops the samples end before the steps do, and the trainer with them.
RunsShort ==
    /\ pc = "train" /\ step < TotalSteps /\ ahead = {} /\ ~MayRead
    /\ pc' = "ended"
    /\ UNCHANGED <<disk, group, at, kept, step, weights, batches, crashes, saved>>

SaveDue == step = TotalSteps \/ step % SaveFreq = 0

NextStep == IF step < TotalSteps THEN "train" ELSE "ended"

\* The instance may expire soon (should_save_ckpt_esi), which forces a save.
Decides ==
    /\ pc = "trained"
    /\ \E esi_close_to_expiration \in BOOLEAN :
         pc' = IF SaveDue \/ esi_close_to_expiration THEN "save" ELSE NextStep
    /\ UNCHANGED <<disk, group, at, kept, step, weights, batches, crashes, saved>>

-----------------------------------------------------------------------------
(* One worker group saves: FSDPCheckpointManager.save_checkpoint. *)

\* Mutants of Excess: one path too many, one too few.
ExcessOneMore(g) ==
    IF MaxKeep[g] > 0 /\ Len(kept[g]) >= MaxKeep[g] THEN Len(kept[g]) - MaxKeep[g] + 2 ELSE 0
ExcessOneLess(g) ==
    IF MaxKeep[g] > 0 /\ Len(kept[g]) > MaxKeep[g] THEN Len(kept[g]) - MaxKeep[g] ELSE 0

\* The paths beyond the ones to keep, the coming one included.
Excess(g) ==
    IF MaxKeep[g] > 0 /\ Len(kept[g]) >= MaxKeep[g] THEN Len(kept[g]) - MaxKeep[g] + 1 ELSE 0

\* remove_previous_save_local_path, local_mkdir_safe, and the first barrier.
Rotates ==
    /\ pc = "save"
    /\ LET old == {kept[group][i] : i \in 1..Excess(group)}
       IN shard' = [n \in Steps |->
                      IF n \in old THEN [shard[n] EXCEPT ![group] = [r \in Ranks |-> NoFile]]
                      ELSE shard[n]]
    /\ kept' = [kept EXCEPT ![group] = SubSeq(@, Excess(group) + 1, Len(@))]
    /\ at' = [r \in Ranks |-> "barrier"]
    /\ pc' = "shards"
    /\ UNCHANGED <<data, tracker, group, step, weights, batches, crashes, saved>>

\* torch.save of model, optimizer and extra state: the file is cut short until it ends.
OpensShard(r) ==
    /\ pc = "shards" /\ at[r] = "barrier"
    /\ shard' = [shard EXCEPT ![step][group][r] = Torn]
    /\ at' = [at EXCEPT ![r] = "writing"]
    /\ UNCHANGED <<data, tracker, pc, group, kept, step, weights, batches, crashes, saved>>

ClosesShard(r) ==
    /\ pc = "shards" /\ at[r] = "writing"
    /\ shard' = [shard EXCEPT ![step][group][r] = weights]
    /\ at' = [at EXCEPT ![r] = "written"]
    /\ UNCHANGED <<data, tracker, pc, group, kept, step, weights, batches, crashes, saved>>

\* The last barrier; the driver goes on to the next group, then to data.pt.
GroupSaved ==
    /\ pc = "shards" /\ \A r \in Ranks : at[r] = "written"
    /\ kept' = [kept EXCEPT ![group] = Append(@, step)]
    /\ at' = [r \in Ranks |-> "idle"]
    /\ IF group < Roles
       THEN group' = group + 1 /\ pc' = "save"
       ELSE group' = 1 /\ pc' = "data"
    /\ UNCHANGED <<disk, step, weights, batches, crashes, saved>>

(* The rest of RayPPOTrainer._save_checkpoint. *)

OpensData ==
    /\ pc = "data"
    /\ data' = [data EXCEPT ![step] = Torn]
    /\ pc' = "dataOpen"
    /\ UNCHANGED <<shard, tracker, group, at, kept, step, weights, batches, crashes, saved>>

ClosesData ==
    /\ pc = "dataOpen"
    /\ data' = [data EXCEPT ![step] = position]
    /\ pc' = "tracker"
    /\ UNCHANGED <<shard, tracker, group, at, kept, step, weights, batches, crashes, saved>>

\* open(..., "w") truncates the file before anything is written.
OpensTracker ==
    /\ pc = "tracker"
    /\ tracker' = Torn
    /\ pc' = "trackerOpen"
    /\ UNCHANGED <<shard, data, group, at, kept, step, weights, batches, crashes, saved>>

ClosesTracker ==
    /\ pc = "trackerOpen"
    /\ tracker' = step
    /\ saved' = step
    /\ pc' = NextStep
    /\ UNCHANGED <<shard, data, group, at, kept, step, weights, batches, crashes>>

-----------------------------------------------------------------------------
(* Crash and restart. *)

Crashes ==
    /\ Up /\ crashes < MaxCrashes
    /\ crashes' = crashes + 1
    /\ pc' = "down" /\ group' = 1 /\ at' = [r \in Ranks |-> "idle"]
    /\ kept' = [g \in Role |-> <<>>]
    /\ step' = 0 /\ weights' = <<>> /\ position' = 0 /\ ahead' = {} /\ lost' = 0
    /\ UNCHANGED <<disk, dropped, saved>>

\* os.path.exists of the folder global_step_n.
FolderExists(n) == data[n] # NoFile \/ \E g \in Role : \E r \in Ranks : shard[n][g][r] # NoFile

\* torch.load raises for a file that is missing or cut short.
Loads(n) ==
    /\ \A g \in Role : \A r \in Ranks : shard[n][g][r] \notin {NoFile, Torn}
    /\ data[n] # Torn

\* Mutant of FromScratch: a tracker that cannot be read counts as none.
FromScratchIfTorn ==
    tracker \in {NoFile, Torn} \/ (tracker \in Steps /\ ~FolderExists(tracker))

\* find_latest_ckpt_path finds nothing.
FromScratch == tracker = NoFile \/ (tracker \in Steps /\ ~FolderExists(tracker))

StartsFromScratch ==
    /\ pc = "down" /\ FromScratch
    /\ pc' = "train"
    /\ UNCHANGED <<disk, group, at, kept, step, weights, batches, crashes, saved>>

\* Mutant of ResumedPosition: the state of the dataloader is not loaded.
ResumedPositionLost(n) == 0

\* Without data.pt the dataloader starts from the beginning.
ResumedPosition(n) == IF data[n] = NoFile THEN 0 ELSE data[n]

Resumes ==
    /\ pc = "down" /\ tracker \in Steps /\ FolderExists(tracker) /\ Loads(tracker)
    /\ step' = tracker
    /\ weights' = shard[tracker][1][Rank0]
    /\ position' = ResumedPosition(tracker)
    /\ pc' = IF tracker < TotalSteps THEN "train" ELSE "ended"
    /\ UNCHANGED <<disk, group, at, kept, ahead, lost, dropped, crashes, saved>>

\* int("") of an empty tracker, or a file of the checkpoint that cannot be loaded.
FailsToResume ==
    /\ pc = "down"
    /\ tracker = Torn \/ (tracker \in Steps /\ FolderExists(tracker) /\ ~Loads(tracker))
    /\ pc' = "failed"
    /\ UNCHANGED <<disk, group, at, kept, step, weights, batches, crashes, saved>>

\* The job is over.
Stops == pc \in {"failed", "ended"} /\ UNCHANGED vars

Next ==
    \/ ReadsAhead \/ Drops \/ Trains \/ RunsShort \/ Decides
    \/ Rotates \/ (\E r \in Ranks : OpensShard(r) \/ ClosesShard(r)) \/ GroupSaved
    \/ OpensData \/ ClosesData \/ OpensTracker \/ ClosesTracker
    \/ Crashes \/ StartsFromScratch \/ Resumes \/ FailsToResume \/ Stops

Spec == Init /\ [][Next]_vars
-----------------------------------------------------------------------------
(* Properties. *)

File == Seq(Update) \cup {NoFile, Torn}

TypeOK ==
    /\ shard \in [Steps -> [Role -> [Ranks -> File]]]
    /\ data \in [Steps -> Nat \cup {NoFile, Torn}]
    /\ tracker \in Steps \cup {NoFile, Torn}
    /\ pc \in {"train", "trained", "save", "shards", "data", "dataOpen", "tracker",
               "trackerOpen", "down", "failed", "ended"}
    /\ group \in Role
    /\ at \in [Ranks -> {"idle", "barrier", "writing", "written"}]
    /\ kept \in [Role -> Seq(Steps)]
    /\ step \in 0..TotalSteps
    /\ weights \in Seq(Update)
    /\ position \in Nat /\ ahead \in SUBSET Nat /\ lost \in Nat /\ dropped \in Nat
    /\ crashes \in Nat /\ saved \in 0..TotalSteps
    /\ step = 0 => pc \in {"train", "down", "failed", "ended"}

\* The weights a complete checkpoint holds: one and the same in every file.
Complete(n) ==
    /\ \A g \in Role : \A r \in Ranks : shard[n][g][r] = shard[n][1][Rank0]
    /\ shard[n][1][Rank0] \in Seq(Update) /\ Len(shard[n][1][Rank0]) = n
    /\ data[n] \in Nat

\* The step in the tracker file is a checkpoint that can be loaded, whose files
\* were all written by one job at one step: not by two jobs that both reached the
\* step, and not partly removed by the rotation of old checkpoints
\* (ray_trainer.py 938-1005, fsdp_checkpoint_manager.py 203-214). The comment at
\* ray_trainer.py:991 calls the tracker "for atomic usage".
TrackerNamesComplete == tracker \in Steps => Complete(tracker)

\* A job that starts again goes on from the last save that ended, with as many
\* updates in its weights: nothing older, and nothing of a later save that did not
\* end. It starts from scratch only if no save ever ended.
ResumesLatestSave ==
    [][pc = "down" /\ pc' \in {"train", "ended"} =>
         step' = saved /\ Len(weights') = saved]_vars

\* The tracker records "the latest chckpoint during training to restart from"
\* (checkpoint_manager.py:202): a job whose tracker can be read is not refused.
RestartsFromTracker == pc = "failed" => tracker = Torn

\* Across crashes the weights in use never saw a batch twice, nor one that an earlier job
\* had read; and what they never saw was dropped, or was in flight in a job that crashed:
\* nothing in the synchronous trainer (ray_trainer.py 985-989, 1057-1062), the pending
\* samples in the asynchronous one (fully_async_rollouter.py:252).
LineageTrained ==
    /\ \A i, j \in 1..Len(weights) : i < j =>
         /\ weights[i][2] # weights[j][2]
         /\ weights[i][1] # weights[j][1] => weights[i][2] < weights[j][2]
    /\ position - (Len(weights) + Cardinality(ahead)) <= MaxAhead * crashes + dropped

\* "Rotates old checkpoints, keeping at most max_ckpt_to_keep"
\* (fsdp_checkpoint_manager.py:190): true of what one job writes. A new job does
\* not know the paths of the one before, so each crash may leave as many again.
DiskBounded ==
    \A g \in Role : MaxKeep[g] > 0 =>
        Cardinality({n \in Steps : \E r \in Ranks : shard[n][g][r] # NoFile})
            <= MaxKeep[g] * (crashes + 1)

=============================================================================
