# TLA+ development for verl 0.7.0 with NTHR

This directory holds TLA+ modules, TLC configurations and machine-checked
proofs about the code in `src/`, which is ByteDance's verl 0.7.0 (a library for
reinforcement learning of language models) with the repository's own trainer in
`examples/nthr_trainer`. Paths below are relative to `src/verl-0.7.0/` unless
they begin with `src/`.

Five parts are modelled: the fully asynchronous recipe
(`recipe/fully_async_policy`), of everything in the repository the part where
correctness hangs most on the order of events; the inference servers it
interrupts; checkpoints, crashes and restarts; the NTHR trainer on several
ranks; and the rate-limited reward manager.

## 1. The system

### Components

| Component | State it keeps | Operations | Who calls it |
|---|---|---|---|
| Message queue (`message_queue.py`) | bounded deque of samples, counters, parameter version, queue of validation results, closed flag | `put_sample`, `get_sample`, `update_param_version`, `clear_queue`, `shutdown`, `put_validate`, `get_validate`, statistics | rollouter (puts), trainer (gets), synchronizer (version), main program (clear) |
| Rollouter (`fully_async_rollouter.py`) | pending and cancel queues, active tasks, pause flag, monitor trigger, staleness counter, version, one lock with a condition | `fit` (feeder, processor, a task per sample, monitor), `pause`, `update_param_version`, `resume`, `save_checkpoint` | main program, synchronizer |
| Inference servers (`vllm_rollout/`, `agent_loop/`) | paused flag, event and partial output of each request | `generate_for_partial`, `cancel`, `resume` | rollouter |
| Trainer (`fully_async_trainer.py`) | batch being collected, local step, version, last checkpoint | `fit` | main program |
| Parameter synchronizer (`param_sync.py`) | references of the last asynchronous calls | `sync_weights`, `wait_last_valid` | trainer |
| Main program (`fully_async_main.py`) | futures of the two `fit` | `_run_training_loop` | user |
| Agent loops, tools, server routing (`verl/experimental/agent_loop`) | state of a trajectory, LRU of request ids, heap of server loads | state machine of a trajectory, `_choose_server` | rollouter |
| Reward loop and rate limiter (`verl/experimental/reward_loop`) | tokens of a bucket, semaphore | `AsyncTokenBucket.acquire`, `run_single` | agent loops |
| Checkpointing (`verl/utils/checkpoint`, the trainers) | checkpoint directories, tracker file, list of paths to keep | save, load, delete old | trainers |
| Data protocol, balancing (`verl/protocol.py`, `verl/utils/seqlen_balancing.py`) | none (functions) | pad, chunk, concat, partitions, micro batches | everything |
| NTHR trainer (`examples/nthr_trainer`) | none across calls | `compute_nthr_mask` on every rank with collective calls; `compute_nthr_group` | its driver |
| Worker groups, engines, models, other recipes, data, evaluation | | | |

### How they interact

The rollouter is a Ray actor with one asyncio event loop. Its feeder puts
samples into `pending_queue`; its processor takes them, or interrupted samples
from `cancel_queue` first, waits for room, and starts a task per sample. The
task sends the prompt to the servers and puts the answer into the message queue,
or, if the servers cut it short, puts the sample into `cancel_queue`. The trainer
is a thread of another process that blocks in `get_sample` until it has a batch,
trains, and every `trigger_parameter_sync_step` steps makes a new version: it
waits until the previous synchronization is over, calls `pause`, sets the queue's
version, moves the weights, and only launches `update_param_version` and
`resume`. The processor pauses itself when the queue is full or too many samples
are stale; a monitor wakes it every ten seconds if the reason has gone.

### What is hard

* The processor, the monitor and the synchronizer's handler share one lock and
  one condition, and each tests flags before it holds the lock.
* A sample passes through six places, can be interrupted at any step, and is
  counted in `staleness_samples` by three sizes read at two moments.
* The calls launched by the synchronizer run while the trainer trains on.
* Generations fail; the exception surfaces in whoever gathers the task.
* The finish signal travels through the same bounded queue as the samples.
* Progress needs trainer and rollouter to wait for each other, in both directions.

### What makes each part correct

* Message queue: order, no duplicate, every sample accounted for, nobody asleep
  on a queue it could read.
* Rollouter: no sample lost or generated twice, a bounded number of tasks and of
  stale samples, nothing after the finish signal, pauses that return, no pause
  for ever.
* Inference servers: a cancelled request returns with exactly the tokens that
  will not be generated again; none escapes a cancel; nothing is kept of a request
  that is over.
* Trainer and synchronizer: full batches, bounded age of what is trained on,
  versions one step apart, everything trained is in the last weights and the
  last due checkpoint.
* Main program: it ends when both components do, and ends them when one fails.
* Agent loops: a trajectory ends within its turn and length limits and resumes
  where it was interrupted; a conversation stays on its server; loads are even.
* Rate limiter: no more than rate times time plus one bucket is granted, and
  every request is granted in the end.
* Checkpointing: after a crash at any point the tracker names a complete
  checkpoint that has not been deleted, and no sample is trained on twice.
* Data protocol and balancing: functions that are each other's inverses;
  partitions that cover every item once and are as even as promised.
* NTHR: every rank makes the same collective calls in the same order, also when
  one of them finds an error; the selection keeps within its group and its limit.

The properties stated so far are in section 4; `PROJECT.json` lists the hazards
at their lines with the properties that cover them.

## 2. Modules

| Module | What it is | Code |
|---|---|---|
| `MessageQueue` | the queue's state and one action per method | `message_queue.py` |
| `MessageQueueSystem` | the queue with callers of any method at any time | |
| `SampleChannel` | abstract lossy first-in first-out channel | what the queue promises |
| `MessageQueueChannel` | the queue with history variables, mapped to `SampleChannel` | |
| `MessageQueueProofs` | theorems about the queue | |
| `EventLoop` | asyncio as the rollouter uses it: FIFO of ready coroutines, FIFO lock | external |
| `Rollouter` | the rollouter, its servers as seen by it | `fully_async_rollouter.py`, parts of `vllm_async_server.py`, `agent_loop.py` |
| `Trainer` | trainer and synchronizer | `fully_async_trainer.py`, `param_sync.py` |
| `FullyAsync` | the composition, the main program, fairness, properties | `fully_async_main.py` |
| `SamplePipeline` | abstract: the life of a sample | what the recipe promises |
| `FullyAsyncPipeline` | the recipe mapped to `SamplePipeline` | |
| `RolloutProofs` | theorems about versions, validations and the last synchronization; about the loop, the lock, the tasks: types, no sample twice | |
| `PipelineProofs` | theorems about lost samples, the freshness counter, the processor's crash and the finish signal; the refinement of `SamplePipeline` | |
| `FreshnessProofs` | theorems about the age of the samples trained on, and about runs without staleness | |
| `PartialRollout` | servers, requests and trajectories of interrupted generation | `vllm_async_server.py`, `agent_loop.py`, `partial_single_turn_agent_loop.py` |
| `PartialRolloutProofs` | theorems about interrupted generation | |
| `Checkpoint` | save, rotation, tracker, crash, restart | `verl/trainer/ppo/ray_trainer.py`, `verl/utils/checkpoint` |
| `CheckpointProofs` | theorems about restarts, the lineage of the weights, the disk | |
| `NthrGroup` | the selection of tokens in one group, as operators | `nthr.py` |
| `NthrStep` | abstract: what one NTHR correction promises | `examples/nthr.md` |
| `Nthr` | ranks with collective calls, dispatch, reassembly; at its end the theorem about the ranks' errors | `fsdp_worker.py`, `ray_trainer.py` of the trainer |
| `RateLimiter` | token buckets, semaphore, timeout | `reward_manager/limited.py` |
| `RateLimiterProofs` | theorems about the buckets, the sleeps, the semaphore | |
| `MCMessageQueue`, `MCFullyAsync`, `MCPartialRollout`, `MCCheckpoint`, `MCNthr`, `MCRateLimiter` | instances for TLC | |

`FullyAsync` extends `Trainer`, which extends `Rollouter`, which extends
`MessageQueue` and `EventLoop`: the four share the queue's variables, as the
actors share the queue. `PartialRollout` looks closely at what `Rollouter` takes
as one call to the servers, and keeps of the lock and the monitor, which `Rollouter`
looks at closely, only what decides when a sample may be submitted.

### The queue

Each method of the actor runs under its lock and awaits only in
`Condition.wait`, so each is one action, except `get_sample`, which is cut where
it waits: `GetSampleWaits`, then a notification, then `GetSampleReturns`,
`GetSampleClosed` or `GetSampleWaits` again. `getter` says where a consumer is.
`put_sample` makes room before it appends. `cleared` is a history of what
`clear_queue` threw away, which the code only logs.

### The event loop

Between two awaits that suspend, a coroutine runs alone. `ready` is asyncio's
queue of callbacks and its head is the coroutine that runs; `lockQueue` is the
lock's owner followed by its waiters, first come first served. An `await` that
does not suspend (a free lock, `cancel_queue.get` when not empty, the blocking
`get_statistics_sync`) does not end a turn. A step of the model is at most what
a coroutine does between two points where it can be seen or can be suspended.
Replies, calls and the timer reach the loop with `Wake` at any time and in any
order. Two simplifications: the extra turns in which `asyncio.wait` and
`asyncio.gather` pass on the completion of a task are merged with the turn that
sees it, and so is the `cancel`/`gather` of an already finished processor at the
end of `_streaming_generation_main`.

### The rollouter

`processor`, `feeder`, `monitor`, `main`, `sync` and `task[s]` say where each
coroutine is. The three loops that wait for active tasks (432, 460, 471) are one
place, `drain`, and `drainFor` says which loop it is. `active_tasks` is the live
tasks and `finishedTasks`, those that have ended and that nobody has taken out
of the set. `everReaped` says whether the local `done_tasks` has a value.
`Done` is counted in `staleness_samples` like a sample, as the code does.
`failedTasks` are finished tasks that raised: reaped by the processor they end
it, gathered by `pause` they are forgotten.

`sync` follows the one call in progress: `pause` (`pauseCall` to `paused`),
`update_param_version` (`updateCall` to `validated`), and `resume`
(`resumeCall` to the end). Ray delivers `resume` only when the update it depends
on has returned, so the three never overlap.

The servers refuse or cut short while they are paused; `cancel` and `resume`
reach all servers in one step. A request is one call: conversations of several
turns are not in this model.

The initial state is the one `fit` starts from, after the main program's first
`sync_weights` and `wait_last_valid` (`fully_async_main.py:201-207`): version 0,
not paused, the first validation result already read, and the monitor, the
feeder and the processor ready in the order their tasks are created.
`dataloader` has at least `total_rollout_steps` samples, as its configuration
ensures (`fully_async_rollouter.py:111-113`).

### Trainer and synchronizer

`trainer` says where the thread is. `collect` is `_get_samples_from_queue`, one
`get_sample` per step; `train` the training step, whose content is not
modelled; `waitValid`, `pause`, `transfer` the three phases of
`_trigger_parameter_sync_after_step`; `log` the end of the loop body; `final` and
`finalWait` what follows the loop. `CheckpointDue` leaves out
`esi_close_to_expiration`. `test_freq = 0` is excluded: line 290 divides by it.

### Interrupted generation

A token is the version of the weights that generated it, so that `response[t]`
says which weights a response was put together from. `request[t]` is the one
request of a trajectory that is being run; its id is new every time
(`uuid4`), and it is named by the trajectory and the version it was submitted
under. `entries` are the keys of `cancel_event` and `req_output` of all servers.
`generate_for_partial` is cut where it awaits: `Arrives` up to the wait,
`Answers` after it; between them the engine `Yields` outputs, of which any may be
the last, and `cancel` may set the event. A request whose generation is over is
not cancelled even if its event is set too, and an answer of one that was
cancelled keeps what it has. Any server may be chosen. When the engine raises,
the gather of the sample raises with it and its other trajectories run on with
nobody waiting for them: `sample[i] = "failed"`, and what they return is dropped.

A sample is submitted whenever the rollouter runs and nobody holds its lock
(`LockFree`): `pause` and `resume` hold it to their end, and between the two the
monitor may have undone the pause. `monitor_loop_trigger` is cleared only at the end of
`pause`, so the monitor may find it set meanwhile (`MonitorAsks`), wait for the lock and
unpause the rollouter before `update_param_version` (`Unpauses`): the servers are
paused, the weights move, and samples are submitted. `undone` is a history of the
versions whose transfer found this. A server is chosen when the request reaches it:
nothing shows the choice earlier.

### Checkpoints

A file is absent, cut short, or holds weights, and weights are the sequence of
updates that made them: pairs of a batch and the incarnation of the job that
trained on it. Every rank opens and closes its own file, at its own time, between
the barriers; the three files it writes (model, optimizer, extra state) are one.
`Crashes` may come between any two writes; it forgets the memory of all processes
and leaves the disk. `previous_saved_paths`, the list that rotation works from, is
memory. `rmtree` of one checkpoint is one step. The model covers both
trainers. A batch is what one training step takes. With `MaxAhead = 0` the next one comes
from the dataloader when the step begins: the synchronous trainer. Otherwise `ReadsAhead` is the
feeder of the asynchronous rollouter, and `ahead` the batches in flight: pending, being
generated or queued. They end, and are trained on, in any order (`Trains`); the
full queue drops some and generations fail (`Drops`), so that the feeder, which stops at
what the steps need (`MayRead`), may leave the trainer without its last batches (`RunsShort`). A
batch of samples is one number here although the samples of the code travel
singly: what a restart does to them does not depend on how many fill a step.
The asynchronous trainer saves with the same calls in the same order; its one
more synchronization and save after the last step is left out.
`FailsToResume` is a restart that raises: `int('')` of a tracker cut short, or
`torch.load` of a missing or torn file. `saved` is a history: the step of the last
save that ended.

### NTHR

Every rank runs `compute_nthr_mask` on its part of the batch. A rank enters a
collective call (the `all_reduce` of a check or the gathers of an FSDP forward
pass) and leaves it when every rank has made the same call as its n-th
(`Met`). Scores are integers: probabilities are multiples of `1/Unit`, means are
compared as sums over lengths, and the products of matrices in `NthrGroup` are the
code's. `NthrStep` states the same by pairs of tokens, over the whole batch, with
no ranks, parts or micro-batches, and `Nthr` is shown to implement it. That every
prompt has `n` rows and that the batch is a multiple of the ranks is assumed
(`BatchAssumption`), as `main_nthr.py` and the driver make sure; that the rows of
a prompt are on one rank is not, and is what the first check is for.

### The rate limiter

A request is decoded first, in a thread of the executor that reward functions which are
not coroutines run in as well (`Decodes`, `ThreadTakes`); the timeout begins only with the call.
Tokens are measured by the time it takes to refill them, so that both buckets,
which hold what one second refills, have the same `Capacity`. `acquire` runs
without awaiting anything but its sleep, so each of its rounds is one action
(its lock is never contended): `Borrows` and `Repaid` for requests larger than the bucket, `Takes` or
`Sleeps` for the others. Timers may fire late, and waiters that wake together race
for the tokens. `sync` says whether the reward function runs in a thread: then a
timeout ends the wait and not the thread, and `Threads` are those that calls keep. `load` is a history: the most that any
span of time that ends now was granted beyond what it refilled.

## 3. Runs

Every configuration gives all the constants a value.
`RequiredSamples` is `ppo_mini_batch_size * require_batches`, the staleness
threshold is the fraction `StalenessNum / StalenessDen`, `ServerSlots` stands for
`16 * servers`. `PendingSize = 2` stands for the 128 of the code: what matters is
that the processor never finds the queue empty before the feeder has ended unless
it has taken everything in one turn, and two slots already give that; `fa_synchronous` has
three, more than may run at once, as the hypothesis of its theorem asks (section 5).

| Run | Instance | What it shows |
|---|---|---|
| `mq` | 2 samples and the finish signal, 2 consumers, capacity 2, 4 puts | the queue is a lossy FIFO channel, its counters add up, wake-ups are not lost, a shutdown wakes everyone |
| `fa_stale` | 6 samples, 1 slot, staleness 1 | the finish signal is last, the staleness counter, age of samples, validation results |
| `fa_partial` | 3 samples, 2 slots, partial rollout, 1 failure | no sample lost or doubled, no unbound local, refinement of `SamplePipeline`, versions in step |
| `fa_synchronous` | 7 samples, 2 per step, 2 steps per version, staleness 0 | the documentation's guarantees hold when staleness is 0; the last synchronization and checkpoint |
| `fa_liveness_partial` | 5 samples, 1 slot, 2 steps per version, staleness 1/2, partial rollout | everything ends, pauses return and paused processors go on, when the interrupted samples cannot reach the limit |
| `partial_rollout` | 1 sample of 2 trajectories, 2 servers, 2 synchronizations, 1 failure | requests before, during and after a cancel, also after the monitor has undone the pause; continued responses and their labels; pauses end |
| `checkpoint` | actor and critic, 2 ranks, 5 steps, 2 kept, 2 crashes, 2 batches in flight, 1 dropped | the tracker, the restart, the lineage of the weights, the disk |
| `nthr` | 2 ranks, groups of 3, micro-batches of 2, mixed and uniform groups, each error on one rank | same collective calls, errors on all ranks or none, scaling as defined |
| `reward` | 3 requests, 1 concurrent, 1 thread, hanging reward functions | the rate, the sleeps, the concurrency, every decoded request answered |
| `fa_quiet`, `fa_stuck`, `checkpoint_single` | | expected violations, section 6 |

The bounds are enough for the interesting cases: with six samples and a limit
of two there are several synchronizations, the queue fills and overflows, the
processor pauses itself and is woken by the monitor and by `resume`, tasks end
while it waits for the lock, and the end of the run overlaps with a
synchronization. Six is also the first number of samples at which the bound of
`VersionLag` is reached. `fa_stale` has neither a failure nor partial rollout, so for `SentinelLast` TLC sees
no sample that fails or is interrupted; the theorem `SignalIsLast` covers both. In `partial_rollout` a trajectory can be interrupted twice,
before its first token and after it, next to one that finished. In `checkpoint` the second job
rotates while the first one's files are there, reaches a step the first one left
half saved, and crashes again; two batches in flight change places, also in
the second job, and the bound of `LineageTrained` on what is skipped is reached. The
orders of batches multiply with the contents of the disk, so `CONSTRAINT MCInFlight` bounds them: what the
synchronous trainer can do is explored to the end of every job, while with batches in flight, or after
some were skipped or changed places, a first job goes to its fourth step and a
second one to its third, with the saves that `save_freq` asks for and not the ones that
the end of the instance forces. In `nthr` a group takes two forward passes, so that
ranks can get out of step within a group as well as between groups. In `reward`
every request is larger than the second bucket and empties the first one.
`MaxFailures`, `MaxPuts`, `MaxVersion`, `MaxCrashes`, `MaxAhead`, `MaxDrops` and `MCInFlight` are the only
bounds that are not parameters of the code.

## 4. Properties

Queue: `Capacity` (room is made before the deque's own `maxlen` would drop
silently), `Accounting` (put = consumed + dropped + cleared + waiting),
`NoLostWakeup`, `QueueIsSuffix` and `ImplementsChannel` (order, no duplicate, only
the oldest is lost), `ShutdownWakesAll`.

Samples: `ExactlyOnce` (in at most one place), `Accounted` (only the queue and
failures lose samples), `ImplementsPipeline` (samples only go forward, batches
are full), `SentinelLast` (nothing follows the finish signal).

Freshness: `CounterCovers` (the counter misses at most the sample in the
processor's hand, at every moment, also while a synchronization computes it anew),
`VersionLag` (a sample in a batch is on policy if the threshold adds less than one
sample to `SamplesPerVersion`, and if not at most
`(MaxRequiredSamples - 1) div SamplesPerVersion + 2` versions old: one because a sample
finished after the monitor unpaused in the middle of a synchronization carries
the version already replaced, one that the trainer completes before it is put, and
the rest while it waits in the queue), `VersionsInStep`.

Control: `CrashesOnlyOnFailure`, `ValidationsRead`, `EndsSynchronized`, and under
fairness `Termination`, `PauseReturns`, `ProcessorRecovers`.

Documented, and true only of some instances: `QuietTransfer`, `FreshnessBound`
and `EverySampleTrained` hold without staleness (`fa_synchronous`; section 5 proves it
under hypotheses on the constants), `ProcessorRecovers` in `fa_liveness_partial`; `fa_quiet` and `fa_stuck` show where the first and the last
do not hold. `FreshnessBound` counts what is generated and not yet consumed at any moment, which is a little
less than the document's number between two updates.

Interrupted generation: `VersionsBracketed` (every token comes from a version
between the two its batch is labelled with, in order, or from the next one if the monitor had
undone the pause before it: section 6), `OnlyContinued` (an
interruption only continues a response, finished trajectories are left alone),
`ServersQuiet` (while the weights move, and until the resume, a server runs at most a request of a
failed sample, and that one has been told to stop; what the processor sends then is turned away), `LeftoversEmpty` (what an
answer leaves behind in a server's tables), `InterruptedByPause` (a sample comes
back unfinished only while the rollouter is pausing, or after the monitor has undone
the pause), and under fairness
`PauseEnds`.

Checkpoints: `TrackerNamesComplete` (the step in the tracker is a complete
checkpoint of one job), `ResumesLatestSave` (a restart goes on from the last save
that ended), `LineageTrained` (in the lineage of the weights no batch is trained on
twice and none after those of a later job, and what is skipped was dropped, or was in flight in a job
that crashed: nothing in the synchronous trainer), `DiskBounded` (each job
keeps to its limit, but does not know the directories of the one before). `RestartsFromTracker` is what
`checkpoint_single` refutes.

NTHR: `RaiseTogether` (when a rank has raised, no other one goes on into the
forward passes, where it would wait for ever), `ScalesAsDefined` (the two passes with
micro-batches implement `NthrStep`, the definition by pairs of tokens),
`EveryRankEnds`.

Rate limiter: `WithinRate` (what a bucket grants in any span of time; a request larger than the bucket
counts when its tokens are due, so late wake-ups may still bunch the calls),
`NoOversleep` (a waiter sleeps no longer than the tokens it lacks need, whatever
those that woke with it took), `ConcurrencyLimited` (calls that are still waited
for), `EveryRequestAnswered` (whoever wins the race for tokens, and even if a
reward function never returns: unless it is not decoded because calls that timed out
keep all threads).

`PROJECT.json` names for every property a mutation of a modelled definition that
breaks it; the mutated operators stand beside the originals.

### Fairness

All of it is weak. In `FullyAsync` the loop runs its head (asyncio's queue is first in
first out, so weak fairness of the loop as a whole is enough), the timer fires,
a call that was sent arrives and returns, a server that has a request answers it
in the end, the trainer takes its next step, the main program notices that both
futures are done. That a generation fails is never assumed, and neither is that
a server answers before it is paused. In `mq`, a notified consumer takes its turn.
In `PartialRollout` tasks and engines run and a pause that has begun goes on;
none is forced to begin, and no sample is forced to fail. In `Nthr` a rank that can take
its next step does, and the driver does when they all have. In `RateLimiter` the
event loop runs what is ready and
time passes; a reward function may never return. `Checkpoint` states no
fairness: it promises nothing of when a save ends.

## 5. Proofs

Each `*Proofs` module, and `Nthr`, proves its theorems for every value of the constants that
the named `ASSUME`s of the component's module admit; TLC evaluates these
assumptions in every run. Every proof has the same shape: an inductive invariant,
preserved by each action, from which the property follows.

`MessageQueueProofs`, for every set of samples and consumers and every size:

* `TypeCorrect`, `CapacityHolds`, `AccountingHolds`, `NoLostWakeupHolds`: the
  invariant is their conjunction `MQInv`; `Capacity` is what `Accounting` needs
  when a full queue makes room, since then exactly one entry leaves.
* `QueueIsSuffixHolds`: with the history variables, the deque is the segment of
  everything sent that begins at the position the counters give. `HInv` adds this
  to `MQInv`, because the position moves with consumed, dropped and cleared
  samples and only the accounting says that it never passes the end.
* `QueueImplementsChannel`: each action maps to one step of `SampleChannel` or to
  a stutter, from the same invariant.

`RolloutProofs`, `PipelineProofs` and `FreshnessProofs` build on one another; unless a
hypothesis is named they hold for every number of samples, servers, training steps and failures, every
staleness threshold and queue size, with and without partial rollout.

* `VersionsStayInStep`, `ValidationsAreRead`, `TrainerEndsSynchronized`: the
  invariant `SInv` follows what a synchronization hands from the trainer to the queue
  and the rollouter. `Handed` says who has the new version at each place of the
  trainer and of the handler, `Validated` how many validation results are unread
  (in the queue or on their way), `Saved` which version was last saved.
* `TypesHold`: that `ActiveTasks` never passes `max_concurrent_samples` and no
  `Head` of an empty queue is taken depends on where the processor is, and so on
  how often the loop may run it. `RollInv` adds to the type `ProcLoop` (the
  processor is ready or in line for the lock at most once, in line exactly at the
  places that ask for the lock, and it is only woken in `get` when there is
  something to get), `HandInv` (it holds a sample exactly between taking and
  submitting it), `Room` (tasks, against the limit that was tested before the lock was
  asked for), `FeedInv` and `BatchInv`.
* `SamplesAreNeverCopied`: `SamplesInv` adds `ExactlyOnce` to it. Each step moves an
  occurrence from one place to another; the lemmas on `Occurrences` count them.
* `RecipeImplementsPipeline`: with every sample in one place at most, the refinement
  mapping is a function of the counts (`PlaceOf`), and each step of the recipe is a
  step of `SamplePipeline` or a stutter.
* `LossesAreAccounted`: `FateInv` adds the equation of `Accounted`, with the finish
  signal's own losses, and `SignalInv` (the signal is in the queue at most once, and
  only between its put and its receipt).
* `CounterMissesOne`: the hazard is the sum that `update_param_version` computes in
  two halves. `CounterInv` says that the handler has the lock at every place where it
  may be suspended with it (`HandlerHolds`), so nothing is submitted; that what is under way
  is covered by the half that has been read; and that the processor asks for a
  sample only below the limit.
* `ProcessorCrashesOnlyOnFailure`, under the hypothesis `QueueHoldsMore`: `pending_queue`
  can hold more than `max_concurrent_samples`, or as many as may be generated. The code's
  128 does whenever there are fewer than 8 servers (of 16 slots each) or
  `max_required_samples` is at most 128; section 6 says what happens otherwise. The
  hazard is the local `done_tasks`, unbound until the processor has waited for a task
  once. `StartInv` says that until then only the monitor, the feeder and the
  processor run, in that order, and no task has begun: so the tasks it found are
  still there when it has the lock. The processor must find a sample or a full
  limit each time it asks `pending_queue` (`Stocked`), which is where the hypothesis is
  needed. `FailInv` says that a failed task is one of the counted failures.
  The run that checks the property, `fa_partial`, satisfies the hypothesis.
* `SignalIsLast`: `EndInv` adds to `FateInv` that the main routine is neither ready nor
  in line for the lock until the processor is over, and that then no task is alive or
  one has failed (`Settled`); so when the signal is put, nobody is left to put a
  sample after it.
* `LagIsBounded`: no variable bounds an age; what bounds it is how many samples the
  trainer can have consumed when it comes to this one. `AgeInv` gives each sample a
  place in the order of consumption, `Consumed` plus its index in the queue, and
  keeps that place within `Window` of its stamp: the samples of the two versions that can be
  completed before it is put, and the `MaxRequiredSamples` that fit in the queue. That
  holds when it is put; afterwards what is consumed raises `Consumed` by what it lowers the
  index, and what is dropped only lowers the index. `StampedLate` says that a sample being
  put is at most one version behind the rollouter's, and behind it only after `updating`; the
  lemmas on versions and quotients turn places into versions.
* `NoTaskWhileWeightsMove` and `LimitIsKept`, under `NoSlack`: `max_required_samples` is
  what one version takes, so the threshold adds less than one sample. `WithoutStaleness` shows it
  of a threshold of 0, which the documents' synchronous modes set. `LimitInv`
  (with what the trainer has taken for the version, what is under way is at most the
  counter, and that at most the limit), `QuietInv` and `PolicyInv` (all that is stamped and not yet
  trained on has the trainer's version) need one another: when a synchronization begins the
  trainer has taken all the limit allows, so the counter is at the limit, nothing
  is under way, and the monitor has no reason to unpause; therefore no task has the
  old version, and the counter starts anew from nothing. `LagIsBounded` takes its 0 from here.
* `EverySampleIsTrained`, under `Undisturbed`: `NoSlack`, `QueueHoldsMore`, no partial rollout, no
  failure. A failed sample is not trained on, and one interrupted after `DONE` may
  never be; and a processor that crashes leaves what is not fed. `WholeInv` says that `DONE` is the last
  that is fed and is taken when nothing is left to take, that it counts like a sample (`DoneCounts`),
  which leaves the finish signal its room in the queue, that nothing is
  dropped or cleared, and that the trainer has trained on whole batches only. At the end what
  is nowhere is nothing, so what is not trained on is less than a batch.
  `fa_synchronous` satisfies the hypotheses, and has an incomplete last batch.

`CheckpointProofs`, for any number of groups, ranks, steps, crashes and batches read
ahead: `TypeCorrect`; `RestartIsLatest`; `RestartIsPossible`, under the hypothesis `KeepsTwo`
that every group keeps all its checkpoints or at least two (`checkpoint_single`
shows that it is needed), and under the same one `RestartIsRefusedOnlyIfTorn`: what
`checkpoint_single` refutes fails then only for a tracker cut short;
`BatchesTrainedOnce`; `DiskStaysBounded`. `CInv` has four parts: the type, `Progress` (which files of the
step being saved exist at each place in `_save_checkpoint`),
`Behind` (the step the tracker names is complete, and not later than the job's),
and `Order` (the list of kept paths is increasing, and only its last entry can be
the step the tracker names, which rotation spares when two are kept).
`LineageInv` adds to it that what the job has trained on and what is in flight are
different batches below the position of the dataloader, that all those of
earlier jobs lie below all those of this one, and that the position exceeds their number by at
most `MaxAhead` for every crash before and what was dropped (`JobLineage`); and the same
for the weights on the disk the tracker names, which are what a crash goes back
to: those may have skipped once more what was in flight when they were saved (`TrackedLineage`).
`DiskInv` says of each group that the list keeps to its limit, with room for the
checkpoint being written, and that the folders not on the list are at most as many
as the crashes have left.

At the end of `Nthr`, for any number of ranks and any batches: `RanksRaiseTogether`. The
invariant `Past` says what the place of a rank tells of the checks before it: what
they found on any rank, which is the same for all of them.

`RateLimiterProofs`, for any rates, costs, requests and timings:
`BucketsWithinRate`, `WaitersSleepNoLonger`, `CallsWithinLimit`. `RInv` adds to the type `Undecoded` (a request
that is being decoded has no part in the rest), `Covered` (what a bucket has
granted and time has not paid for, with what it has left, is at most what it can
hold) and `Spaced` (requests larger than the bucket sleep one cost apart, the
first until the earlier grants are paid for, the last until the bucket is back
at zero). `TInv` adds that what is left of a sleep and what the bucket has by now are
at most the cost: tokens taken meanwhile only lower the sum. `HInv` adds that the
holders of the semaphore are at most as many as its places, and that a call whose
reward function is a coroutine is made by a holder: it is cancelled with the wait, when a thread is not.

`PartialRolloutProofs`, for any number of samples, trajectories, servers,
synchronizations and failures: `LabelsBracket`, `QuietWhenWeightsMove`,
`NothingLeftOver`, `ContinuedOnly`, `InterruptionIsPause`. The invariant `PInv` is
`TypeOK` with `Gate` (how far the pause is, against the servers' flags, the
rollouter and the active samples: between the end of `pause` and the resume a sample is active
only if the pause was undone), `Asked` (a request has the version its sample was submitted
with, which is the present one or, after an undone pause, the one before; and only a
pause, or servers still paused after it, cut it short), `Fresh` (what is being generated has the present
version, what came before an older one), `Labelled` (`VersionsBracketed`, and
labels not later than the present version) and `Forgotten` (`LeftoversEmpty`, and
the keys of answers with tokens are gone). `Fresh` is what makes the labels
ordered, and rests on `Asked` and `Gate`: no request outlives a pause in a server.

Only model-checked:

* Liveness (`Termination`, `PauseReturns`, `ProcessorRecovers`, `ShutdownWakesAll`, `PauseEnds`,
  `EveryRankEnds`, `EveryRequestAnswered`): it needs fairness, and with it `ENABLED`, which the prover
  does not reason about.
* `ScalesAsDefined`, the refinement of `NthrStep`: sums and gathers over groups of any
  size need induction over data, which the prover's backends cannot instantiate.

Every other property of a passing run is stated by a theorem.

## 6. Disagreements between the code and its documents

Each is a run that TLC ends with the counterexample.

* `fa_quiet`: the monitor tests its trigger before it waits for the lock that
  `pause` holds, and unpauses the rollouter when `pause` has returned: samples are
  generated while the weights move. The README says no tasks are added.
* `fa_stuck`: with partial rollout, interrupted samples alone can reach
  `max_required_samples`; the processor pauses itself before it looks at them, the
  trainer waits for samples, and both wait for ever. `fa_liveness_partial` shows
  that this does not happen when the slots and the sample in hand are fewer than
  the limit.
* `checkpoint_single`: with one checkpoint to keep (what the driver recommends in
  place of `remove_previous_ckpt_in_save`), the old one is removed before the new
  one is written, and a crash in between leaves a tracker that names nothing.

Seen while modelling, without a run of their own:

* The sample in the processor's hand is not counted by `update_param_version`;
  one more than the documented number can be generated. `CounterCovers` states the
  bound that holds, `FreshnessBound` the documented one.
* The finish signal goes through the same `put_sample` and displaces the oldest
  sample of a full queue; samples interrupted after `DONE` was taken stay in
  `cancel_queue`. `EverySampleTrained` therefore needs the hypotheses of `Undisturbed`.
* The age of a sample is not bounded by the threshold alone, as one would expect of
  `MaxRequiredSamples / SamplesPerVersion + 1` versions, which an earlier form of
  `VersionLag` stated: the proof failed, and TLC, led along the failed case, found a sample four
  versions old with `RequiredSamples = 1`, `TriggerSyncStep = 2`, `StalenessNum / StalenessDen = 3/2`,
  `ServerSlots = 2` and 15 samples, without partial rollout. It is finished after the monitor has unpaused
  and before `update_param_version`, and it is put only when the trainer has completed the next version and the queue is nearly full.
  A sample can be stamped late (`fully_async_rollouter.py:511`) only because the monitor
  unpauses in the middle of a synchronization, as `fa_quiet` shows.
* The tracker is truncated and then written (`OpensTracker`, `ClosesTracker`); a
  crash in between leaves a file on which `int('')` raises at restart, however
  many checkpoints are kept. The theorems say what a tracker that can be read
  names.
* A synchronous reward function keeps its thread after its timeout: the semaphore
  bounds requests, and calls still running can be more. When such calls have all the threads of
  the default executor, every later request waits for ever to be decoded, which no timeout
  covers (`limited.py:389`, `414-416`): `EveryRequestAnswered` has this exception.
* After the monitor has undone a pause, samples are submitted while the weights move. The servers
  turn their requests away, and they return unfinished; or a request reaches a server
  after its resume, and tokens of the new version are labelled with the one that
  `fully_async_rollouter.py:500` stamped before. `VersionsBracketed` and
  `InterruptedByPause` name the case. It is the same unpausing as in `fa_quiet`; no
  document says anything of these labels.
* Requests take their tokens before they wait for the semaphore, so calls can
  bunch when slots become free; `WithinRate` is about what the buckets grant.
* `max_rpm = 0` divides by zero.
* `done_tasks` can be unbound without any failure when `pending_queue` holds no more than
  may run at once: the processor empties it and has tasks before its first wait, waits
  for a sample, and `pause` takes the lock and ends the tasks before the processor
  waits for one. TLC finds it with `PendingSize = 2`, `RequiredSamples = TriggerSyncStep = 1`,
  `StalenessNum = ServerSlots = 4` and five samples, without partial rollout. In the code it takes
  at least 8 servers and `max_required_samples` above 128, which is why it is a
  remark and the hypothesis of a theorem, not a run.

## 7. Not modelled, and the plan

Not modelled, and why:

* Fully asynchronous recipe: a component that fails and takes the main program
  with it; the checkpoint engine (transport of weights, no decisions); assembly
  and metrics of a batch (functions of data); several turns per request
  (`partial_tool_agent_loop`).
* Agent loops: the trajectory's state machine with tools, server loads and the
  LRU of request ids. The reward routers and their HTTP client.
* Checkpoints: Megatron's manager, asynchronous saves, HDFS copies, the SFT
  `CheckpointHandler`, an explicit `total_training_steps`; the removal of a
  directory is one step.
* NTHR: a rank that runs out of memory between two collective calls; floating
  point. Errors of the forward pass that only a rank with a mixed group can raise: no
  output embedding, or one that does not run exactly once (`fsdp_worker.py:37-42`, `90`,
  `137-141`). A rank that raises there while the others have none would leave them in
  their next collective call; whether it raises depends on the type of the model alone.
* Data protocol and sequence-length balancing: functions of tensors. Single
  controller: other dispatch modes than the one `Nthr` assumes.
* The synchronous trainer beyond its checkpoints, workers, models, kernels, other
  recipes, vendored code, data and evaluation scripts: numerical or wrappers of
  engines, where a model would restate arithmetic or assume what the engine does.

The modelled parts are a small share of the repository's lines, because most of
these lines are numerical code, recipes and wrappers.

Left of the plan, in this order:

1. The failure path of the main program composed with `FullyAsync`: the other
   component is cancelled and the queue cleared while it works.
2. `ServerRouting` (heap of loads, LRU) and the reward router's counts, which
   `naive_router.py` does not give back on an error.
3. Operators for sequence-length balancing and for padding, chunking and
   reordering in the data protocol, against reference definitions.
