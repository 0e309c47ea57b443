------------------------------ MODULE Rollouter ------------------------------
(***************************************************************************)
(* The sample generator (recipe/fully_async_policy/                        *)
(* fully_async_rollouter.py): a Ray actor with one asyncio event loop.     *)
(*                                                                         *)
(* Its coroutines are the feeder, the processor, one task per sample being *)
(* generated, the monitor, the main routine, and the handler of the calls  *)
(* pause, update_param_version and resume, of which the                    *)
(* ParameterSynchronizer makes one at a time.  The message queue, the      *)
(* inference servers and the timer act from outside the loop, at any time. *)
(***************************************************************************)
EXTENDS MessageQueue, EventLoop

CONSTANTS TotalRolloutSteps,   \* total_rollout_steps: the samples to generate
          PendingSize,         \* maxsize of pending_queue (128 in the code)
          RequiredSamples,     \* required_samples, of one training step
          TriggerSyncStep,     \* trigger_parameter_sync_step
          StalenessNum,        \* staleness_threshold = StalenessNum / StalenessDen
          StalenessDen,
          ServerSlots,         \* 16 * number of servers
          PartialRollout,      \* partial_rollout
          Done,                \* the feeder's end signal, "DONE"
          MaxFailures          \* bound of the model: generations that raise

ASSUME SamplesAssumption == Samples = 1..TotalRolloutSteps /\ Done \notin Samples
ASSUME RolloutAssumption ==
    /\ {TotalRolloutSteps, RequiredSamples, TriggerSyncStep,
        StalenessDen, ServerSlots} \subseteq Nat \ {0}
    /\ PendingSize \in Nat \ {0, 1}
    /\ {StalenessNum, MaxFailures} \subseteq Nat
    /\ PartialRollout \in BOOLEAN

\* set_max_required_samples: int(required * (staleness + 1) * trigger).
MaxRequiredSamples ==
    (RequiredSamples * (StalenessNum + StalenessDen) * TriggerSyncStep) \div StalenessDen
MaxConcurrent == IF ServerSlots < MaxRequiredSamples THEN ServerSlots ELSE MaxRequiredSamples

ASSUME QueueSizeAssumption == MaxQueueSize = MaxRequiredSamples

VARIABLES
    paused, monitorTrigger, rollRunning,
    pendingQueue,     \* pending_queue: samples, then Done
    fed, feeder,      \* the samples the feeder has put, and where it is
    processor,        \* where the processor is
    drainFor,         \* why it waits for active tasks
    hand,             \* the sample it holds, or None
    everReaped,       \* its local done_tasks has a value
    task,             \* the state of the task of each sample; "none" if it has none
    finishedTasks,    \* finished tasks still in active_tasks
    failedTasks,      \* those of them that raised
    failures,         \* generations that raised so far
    stamp,            \* param_version of each sample
    cancelQueue,      \* cancel_queue: interrupted samples
    staleness,        \* staleness_samples
    version,          \* current_param_version
    sync,             \* where the handler of the synchronizer's calls is
    syncVersion,      \* the version update_param_version is called with
    syncSum,          \* the sum it is computing
    monitor, main,    \* where the monitor and the main routine are
    serversPaused     \* the inference servers refuse and interrupt requests

flagVars == <<paused, monitorTrigger, rollRunning>>
feedVars == <<pendingQueue, fed, feeder>>
procVars == <<processor, drainFor, hand, everReaped>>
taskVars == <<task, finishedTasks, failedTasks, failures, stamp>>
syncVars == <<sync, syncVersion, syncSum>>
rollVars == <<loopVars, flagVars, feedVars, procVars, taskVars, cancelQueue,
              staleness, version, syncVars, monitor, main, serversPaused>>

\* The coroutines, as entries of the event loop.
Feeder == <<"feeder", 0>>
Proc == <<"processor", 0>>
TaskOf(s) == <<"task", s>>
Mon == <<"monitor", 0>>
MainRoutine == <<"main", 0>>
Handler == <<"sync", 0>>
LockUsers == {Proc, Mon, MainRoutine, Handler}

Live == {s \in Samples : task[s] # "none"}
ActiveTasks == Cardinality(Live) + finishedTasks          \* len(self.active_tasks)

RollTypeOK ==
    /\ ready \in Seq(LockUsers \cup {Feeder} \cup {TaskOf(s) : s \in Samples})
    /\ lockQueue \in Seq(LockUsers)
    /\ {paused, monitorTrigger, rollRunning, everReaped, serversPaused} \subseteq BOOLEAN
    /\ pendingQueue \in Seq(Samples \cup {Done}) /\ cancelQueue \in Seq(Samples)
    /\ fed \in 0..TotalRolloutSteps /\ feeder \in {"feeding", "closing", "ended"}
    /\ processor \in {"top", "pausing", "get", "drain", "drainLock", "drainWait",
                      "idle", "idleWait", "submit", "submitWait", "ended", "crashed"}
    /\ drainFor \in {"pause", "capacity", "done"} /\ hand \in Items
    /\ task \in [Samples -> {"none", "created", "requested", "generating", "refused", "answered",
                             "cancelled", "failed", "putting", "put"}]
    /\ finishedTasks \in 0..MaxConcurrent /\ failedTasks \in 0..finishedTasks
    /\ failures \in 0..MaxFailures
    /\ {staleness, version, syncVersion, syncSum} \subseteq Nat /\ stamp \in [Samples -> Nat]
    /\ sync \in {"none", "pauseCall", "pausing", "cancelling", "cancelled", "gathering",
                 "flushing", "paused", "updateCall", "updating", "sizing", "sized",
                 "validating", "validated", "resumeCall", "resuming", "serversResuming",
                 "serversResumed"}
    /\ monitor \in {"check", "checking", "sleep", "unpausing", "ended"}
    /\ main \in {"streaming", "sending", "sent", "stopping", "ended"}

\* The state in which fit creates its coroutines: the first synchronization is over.
RollInit ==
    /\ ready = <<Mon, Feeder, Proc>> /\ lockQueue = <<>>
    /\ paused = FALSE /\ monitorTrigger = TRUE /\ rollRunning = TRUE
    /\ pendingQueue = <<>> /\ fed = 0 /\ feeder = "feeding"
    /\ processor = "top" /\ drainFor = "capacity" /\ hand = None /\ everReaped = FALSE
    /\ task = [s \in Samples |-> "none"] /\ stamp = [s \in Samples |-> 0]
    /\ finishedTasks = 0 /\ failedTasks = 0 /\ failures = 0
    /\ cancelQueue = <<>> /\ staleness = 0 /\ version = 0
    /\ sync = "none" /\ syncVersion = 0 /\ syncSum = 0
    /\ monitor = "check" /\ main = "streaming" /\ serversPaused = FALSE

\* Mutant of ShouldPause: staleness is forgotten.
ShouldPauseFullOnly == Len(queue) >= MaxQueueSize

\* _should_pause_generation: a blocking read of the message queue.
ShouldPause == Len(queue) >= MaxQueueSize \/ staleness >= MaxRequiredSamples

\* Whom a step wakes: c, if it sleeps where "asleep" says.
Wakes(c, asleep) == IF asleep /\ ~IsReady(c) THEN <<c>> ELSE <<>>

\* condition.notify_all: only the processor ever waits on the condition.
ProcessorWaits == processor \in {"idleWait", "submitWait"}
NotifiedNone == <<>>   \* mutant of Notified: no notify_all
Notified == Wakes(Proc, ProcessorWaits)

-----------------------------------------------------------------------------
(* The feeder: _feed_samples.  A put that finds pending_queue full suspends. *)
FeederDoes(item) ==
    /\ Runs(Feeder)
    /\ Len(pendingQueue) < PendingSize
    /\ pendingQueue' = Append(pendingQueue, item)
    /\ LET woken == Wakes(Proc, processor = "get")
       IN IF Len(pendingQueue') < PendingSize /\ item # Done THEN Continue(woken) ELSE Suspend(woken)
    /\ UNCHANGED <<mqVars, lockQueue, flagVars, procVars, taskVars, cancelQueue, staleness,
                   version, syncVars, monitor, main, serversPaused>>

FeederPuts ==
    /\ feeder = "feeding"
    /\ FeederDoes(fed + 1)
    /\ fed' = fed + 1
    /\ feeder' = IF fed' >= TotalRolloutSteps THEN "closing" ELSE "feeding"

FeederEnds ==
    /\ feeder = "closing"
    /\ FeederDoes(Done)
    /\ feeder' = "ended"
    /\ UNCHANGED fed

-----------------------------------------------------------------------------
(* The processor: _processor_worker.  ProcessorAt and ProcessorOwns say     *)
(* where it is, ProcessorGoes that a step only moves it on.                 *)
ProcessorAt(place) == processor = place /\ Runs(Proc)
ProcessorOwns(place) == processor = place /\ Owns(Proc)
ProcessorGoes(place) ==
    /\ processor' = place
    /\ UNCHANGED <<paused, feedVars, drainFor, hand, everReaped, taskVars, cancelQueue, staleness>>

ProcessorSeesPause ==
    /\ ProcessorAt("top")
    /\ paused \/ ShouldPause
    /\ Acquire(Proc)
    /\ ProcessorGoes("pausing")

ProcessorPauses ==
    /\ ProcessorOwns("pausing")
    /\ paused' = TRUE
    /\ processor' = "drain" /\ drainFor' = "pause"
    /\ ReleaseContinue(<<>>)
    /\ UNCHANGED <<feedVars, hand, everReaped, taskVars, cancelQueue, staleness>>

\* An interrupted sample goes before a new one, and is not counted again.
ProcessorTakesCancelled ==
    /\ ProcessorAt("top")
    /\ ~paused /\ ~ShouldPause
    /\ cancelQueue # <<>>
    /\ hand' = Head(cancelQueue)
    /\ cancelQueue' = Tail(cancelQueue)
    /\ processor' = "drain" /\ drainFor' = "capacity"
    /\ UNCHANGED <<loopVars, paused, feedVars, everReaped, taskVars, staleness>>

ProcessorAsksPending ==
    /\ ProcessorAt("top")
    /\ ~paused /\ ~ShouldPause
    /\ cancelQueue = <<>>
    /\ IF pendingQueue = <<>> THEN Suspend(<<>>) ELSE Continue(<<>>)
    /\ ProcessorGoes("get")
    /\ UNCHANGED lockQueue

ProcessorGets ==
    /\ ProcessorAt("get")
    /\ pendingQueue' = Tail(pendingQueue)
    /\ Continue(Wakes(Feeder, feeder # "ended"))
    /\ staleness' = staleness + 1
    /\ \/ Head(pendingQueue) = Done /\ drainFor' = "done" /\ hand' = hand
       \/ Head(pendingQueue) # Done /\ drainFor' = "capacity" /\ hand' = Head(pendingQueue)
    /\ processor' = "drain"
    /\ UNCHANGED <<lockQueue, paused, fed, feeder, everReaped, taskVars, cancelQueue>>

\* Mutant of MustDrain: no wait at the end.
MustDrainNotAtEnd == drainFor # "done" /\ ActiveTasks >= IF drainFor = "capacity" THEN MaxConcurrent ELSE 1

\* The three loops that wait for active tasks: until there is none (at a pause
\* and at the end), or until there is room for one more.
MustDrain == ActiveTasks >= IF drainFor = "capacity" THEN MaxConcurrent ELSE 1

ProcessorDrains ==
    /\ ProcessorAt("drain")
    /\ MustDrain
    /\ Acquire(Proc)
    /\ ProcessorGoes("drainLock")

ProcessorDrained ==
    /\ ProcessorAt("drain")
    /\ ~MustDrain
    /\ \/ drainFor = "pause" /\ ProcessorGoes("idle") /\ Acquire(Proc)
       \/ drainFor = "capacity" /\ ProcessorGoes("submit") /\ Acquire(Proc)
       \/ drainFor = "done" /\ ProcessorGoes("ended") /\ Suspend(<<MainRoutine>>) /\ UNCHANGED lockQueue

\* asyncio.wait suspends, with the lock held, even if a task is done already.
ProcessorAwaitsTask ==
    /\ ProcessorOwns("drainLock")
    /\ ActiveTasks > 0
    /\ Suspend(IF finishedTasks > 0 THEN <<Proc>> ELSE <<>>)
    /\ ProcessorGoes("drainWait")
    /\ UNCHANGED lockQueue

ProcessorCrashes == processor' = "crashed" /\ ReleaseSuspend(<<MainRoutine>>)

DoneTasksBoundHere == FALSE   \* mutant of DoneTasksBound: a helper with a local of its own
DoneTasksBound == everReaped

\* The tasks went away while it waited for the lock: it goes through the
\* done_tasks of an earlier wait, an unbound local if there was none.
ProcessorFindsNoTask ==
    /\ ProcessorOwns("drainLock")
    /\ ActiveTasks = 0
    /\ \/ DoneTasksBound /\ processor' = "drain" /\ ReleaseContinue(<<>>)
       \/ ~DoneTasksBound /\ ProcessorCrashes
    /\ UNCHANGED <<paused, feedVars, drainFor, hand, everReaped, taskVars, cancelQueue, staleness>>

\* A task that raised makes the processor raise.
ProcessorReaps ==
    /\ ProcessorOwns("drainWait")
    /\ finishedTasks' = 0 /\ failedTasks' = 0
    /\ everReaped' = TRUE
    /\ \/ failedTasks = 0 /\ processor' = "drain" /\ ReleaseContinue(<<>>)
       \/ failedTasks > 0 /\ ProcessorCrashes
    /\ UNCHANGED <<paused, feedVars, drainFor, hand, task, failures, stamp, cancelQueue, staleness>>

\* condition.wait, after a pause and before a submission.
ProcessorSleeps ==
    /\ processor \in {"idle", "submit"} /\ Owns(Proc)
    /\ paused
    /\ ReleaseSuspend(<<>>)
    /\ ProcessorGoes(IF processor = "idle" THEN "idleWait" ELSE "submitWait")

ProcessorWakes ==
    /\ ProcessorWaits /\ Runs(Proc)
    /\ Acquire(Proc)
    /\ ProcessorGoes(IF processor = "idleWait" THEN "idle" ELSE "submit")

ProcessorLeavesPause ==
    /\ ProcessorOwns("idle")
    /\ ~paused
    /\ ReleaseContinue(<<>>)
    /\ ProcessorGoes("top")

ProcessorSubmits ==
    /\ ProcessorOwns("submit")
    /\ ~paused
    /\ task' = [task EXCEPT ![hand] = "created"]
    /\ ReleaseContinue(<<TaskOf(hand)>>)
    /\ hand' = None
    /\ processor' = "top"
    /\ UNCHANGED <<paused, feedVars, drainFor, everReaped, finishedTasks, failedTasks, failures,
                   stamp, cancelQueue, staleness>>

Processor ==
    /\ \/ ProcessorSeesPause \/ ProcessorPauses \/ ProcessorTakesCancelled
       \/ ProcessorAsksPending \/ ProcessorGets \/ ProcessorDrains \/ ProcessorDrained
       \/ ProcessorAwaitsTask \/ ProcessorFindsNoTask \/ ProcessorReaps
       \/ ProcessorSleeps \/ ProcessorWakes \/ ProcessorLeavesPause \/ ProcessorSubmits
    /\ UNCHANGED <<mqVars, monitorTrigger, rollRunning, version, syncVars, monitor, main, serversPaused>>

-----------------------------------------------------------------------------
(* The task of a sample: _process_single_sample_streaming. *)
TaskAt(s, place) == task[s] = place /\ Runs(TaskOf(s))
TaskGoes(s, place) == task' = [task EXCEPT ![s] = place]

TaskStarts(s) ==
    /\ TaskAt(s, "created")
    /\ TaskGoes(s, "requested")
    /\ Suspend(<<>>)
    /\ UNCHANGED <<finishedTasks, failedTasks, failures, stamp, cancelQueue>>

\* The answer is complete: the sample is stamped and sent to the message queue.
TaskSends(s) ==
    /\ TaskAt(s, "answered")
    /\ stamp' = [stamp EXCEPT ![s] = version]
    /\ TaskGoes(s, "putting")
    /\ Suspend(<<>>)
    /\ UNCHANGED <<finishedTasks, failedTasks, failures, cancelQueue>>

\* Mutants of Requeued: an interrupted sample is forgotten, a sent one is kept.
RequeuedNever(s) == cancelQueue
RequeuedSent(s) == IF task[s] # "failed" THEN Append(cancelQueue, s) ELSE cancelQueue

Requeued(s) == IF task[s] = "cancelled" THEN Append(cancelQueue, s) ELSE cancelQueue

\* A task is over: sent, interrupted (the sample goes to cancel_queue), or raised.
TaskEnds(s) ==
    /\ task[s] \in {"put", "cancelled", "failed"} /\ Runs(TaskOf(s))
    /\ TaskGoes(s, "none")
    /\ finishedTasks' = finishedTasks + 1
    /\ failedTasks' = failedTasks + IF task[s] = "failed" THEN 1 ELSE 0
    /\ cancelQueue' = Requeued(s)
    /\ Suspend(Wakes(Proc, processor = "drainWait") \o Wakes(Handler, sync = "gathering" /\ Live = {s}))
    /\ UNCHANGED <<failures, stamp>>

TaskSteps ==
    /\ \E s \in Samples : TaskStarts(s) \/ TaskSends(s) \/ TaskEnds(s)
    /\ UNCHANGED <<mqVars, lockQueue, flagVars, feedVars, procVars, staleness, version, syncVars,
                   monitor, main, serversPaused>>

\* Outside the loop, the rest of the way of a sample.
TaskOutside == UNCHANGED <<lockQueue, flagVars, feedVars, procVars, finishedTasks, failedTasks, stamp,
                           cancelQueue, staleness, version, syncVars, monitor, main, serversPaused>>

\* The request reaches the servers, which refuse it while they are paused.
ServersTake(s) ==
    /\ task[s] = "requested"
    /\ TaskGoes(s, IF serversPaused THEN "refused" ELSE "generating")
    /\ TaskOutside
    /\ UNCHANGED <<mqVars, ready, failures>>

\* The answer comes: complete, or cut short.
ServersAnswer(s) ==
    /\ \/ task[s] = "generating" /\ TaskGoes(s, "answered")
       \/ task[s] = "generating" /\ serversPaused /\ TaskGoes(s, "cancelled")
       \/ task[s] = "refused" /\ TaskGoes(s, "cancelled")
    /\ Wake(TaskOf(s))
    /\ TaskOutside
    /\ UNCHANGED <<mqVars, failures>>

ServersFail(s) ==
    /\ task[s] = "generating"
    /\ failures < MaxFailures
    /\ failures' = failures + 1
    /\ TaskGoes(s, "failed")
    /\ Wake(TaskOf(s))
    /\ TaskOutside
    /\ UNCHANGED mqVars

\* put_sample at the message queue, and its answer.
QueueTakes(s) ==
    /\ task[s] = "putting"
    /\ PutSample(s)
    /\ TaskGoes(s, "put")
    /\ TaskOutside
    /\ UNCHANGED <<ready, failures>>

QueueAnswers(s) ==
    /\ task[s] = "put"
    /\ Wake(TaskOf(s))
    /\ TaskOutside
    /\ UNCHANGED <<mqVars, task, failures>>

-----------------------------------------------------------------------------
(* The monitor: _async_monitor_loop. *)
MonitorStarts ==
    /\ monitor = "check" /\ Runs(Mon)
    /\ monitor' = "checking"
    /\ Acquire(Mon)
    /\ UNCHANGED paused

MonitorChecks ==
    /\ monitor = "checking" /\ Owns(Mon)
    /\ monitor' = IF rollRunning THEN "sleep" ELSE "ended"
    /\ ReleaseSuspend(<<>>)
    /\ UNCHANGED paused

\* After its sleep it tests the trigger, then asks for the lock.
MonitorWakes ==
    /\ monitor = "sleep" /\ Runs(Mon)
    /\ \/ monitorTrigger /\ ~ShouldPause /\ monitor' = "unpausing" /\ Acquire(Mon)
       \/ ~(monitorTrigger /\ ~ShouldPause) /\ monitor' = "check" /\ UNCHANGED loopVars
    /\ UNCHANGED paused

MonitorUnpauses ==
    /\ monitor = "unpausing" /\ Owns(Mon)
    /\ paused' = FALSE
    /\ monitor' = "check"
    /\ ReleaseContinue(Notified)

Monitor ==
    /\ MonitorStarts \/ MonitorChecks \/ MonitorWakes \/ MonitorUnpauses
    /\ UNCHANGED <<mqVars, monitorTrigger, rollRunning, feedVars, procVars, taskVars, cancelQueue,
                   staleness, version, syncVars, main, serversPaused>>

\* asyncio.sleep is over.
MonitorTimer ==
    /\ monitor = "sleep"
    /\ Wake(Mon)
    /\ UNCHANGED <<mqVars, lockQueue, flagVars, feedVars, procVars, taskVars, cancelQueue,
                   staleness, version, syncVars, monitor, main, serversPaused>>

-----------------------------------------------------------------------------
(* The end of _streaming_generation_main, once the processor is over. *)
MainOnly == UNCHANGED <<paused, monitorTrigger, feedVars, procVars, taskVars, cancelQueue, staleness,
                        version, syncVars, monitor, serversPaused>>

MainSends ==
    /\ main = "streaming" /\ Runs(MainRoutine)
    /\ main' = "sending"
    /\ Suspend(<<>>)
    /\ UNCHANGED <<mqVars, lockQueue, rollRunning>>

MainLocks ==
    /\ main = "sent" /\ Runs(MainRoutine)
    /\ main' = "stopping"
    /\ Acquire(MainRoutine)
    /\ UNCHANGED <<mqVars, rollRunning>>

MainStops ==
    /\ main = "stopping" /\ Owns(MainRoutine)
    /\ rollRunning' = FALSE
    /\ main' = "ended"
    /\ ReleaseSuspend(<<>>)
    /\ UNCHANGED mqVars

Main == (MainSends \/ MainLocks \/ MainStops) /\ MainOnly

\* Outside the loop, the finish signal reaches the message queue.
QueueTakesNone ==
    /\ main = "sending"
    /\ PutSample(None)
    /\ main' = "sent"
    /\ Wake(MainRoutine)
    /\ MainOnly
    /\ UNCHANGED <<lockQueue, rollRunning>>

-----------------------------------------------------------------------------
(* pause, update_param_version and resume.  SyncGoes: a step of the handler *)
(* that leaves the rest of the rollouter alone.                             *)
SyncOwns(place) == sync = place /\ Owns(Handler)
SyncGoes(place) ==
    /\ sync' = place
    /\ UNCHANGED <<mqVars, paused, monitorTrigger, finishedTasks, failedTasks, staleness, version, syncSum>>

CallLocks ==
    /\ Runs(Handler)
    /\ \/ sync = "pauseCall" /\ SyncGoes("pausing")
       \/ sync = "updateCall" /\ SyncGoes("updating")
       \/ sync = "resumeCall" /\ SyncGoes("resuming")
    /\ Acquire(Handler)

\* Mutants of Gathered: waits for somebody to take the finished tasks, waits not at all.
GatheredReaped == ActiveTasks = 0
GatheredAtOnce == TRUE

Gathered == Live = {}

\* Waits for the tasks, then clears active_tasks and asks for a flush of the caches.
Gathers ==
    /\ sync' = IF Gathered THEN "flushing" ELSE "gathering"
    /\ finishedTasks' = IF Gathered THEN 0 ELSE finishedTasks
    /\ failedTasks' = IF Gathered THEN 0 ELSE failedTasks
    /\ Suspend(<<>>)
    /\ UNCHANGED <<mqVars, lockQueue, monitorTrigger, staleness, version, syncSum>>

PauseBegins ==
    /\ SyncOwns("pausing")
    /\ paused' = TRUE
    /\ \/ /\ PartialRollout
          /\ sync' = "cancelling"
          /\ Suspend(<<>>)
          /\ UNCHANGED <<mqVars, lockQueue, monitorTrigger, finishedTasks, failedTasks, staleness,
                         version, syncSum>>
       \/ ~PartialRollout /\ Gathers

\* Once the servers have cancelled, and again once the tasks are over.  A task
\* that raised is forgotten (return_exceptions).
PauseGathers ==
    /\ sync \in {"cancelled", "gathering"} /\ Owns(Handler)
    /\ Gathers
    /\ UNCHANGED paused

PauseEnds ==
    /\ SyncOwns("flushing")
    /\ monitorTrigger' = FALSE
    /\ sync' = "paused"
    /\ ReleaseSuspend(<<>>)
    /\ UNCHANGED <<mqVars, paused, finishedTasks, failedTasks, staleness, version, syncSum>>

\* The sum's first two terms are read before the message queue is asked.
SumBegun == ActiveTasks + Len(cancelQueue)

\* Mutant of VersionTaken: the assignment is forgotten.
VersionKept == version
VersionTaken == syncVersion

UpdateBegins ==
    /\ SyncOwns("updating")
    /\ version' = VersionTaken
    /\ syncSum' = SumBegun
    /\ sync' = "sizing"
    /\ Suspend(<<>>)
    /\ UNCHANGED <<mqVars, lockQueue, paused, monitorTrigger, finishedTasks, failedTasks, staleness>>

UpdateResets ==
    /\ SyncOwns("sized")
    /\ staleness' = syncSum
    /\ sync' = "validating"
    /\ Suspend(<<>>)
    /\ UNCHANGED <<mqVars, lockQueue, paused, monitorTrigger, finishedTasks, failedTasks, version, syncSum>>

UpdateEnds ==
    /\ SyncOwns("validated")
    /\ ReleaseSuspend(<<>>)
    /\ SyncGoes("resumeCall")

ResumeAsksServers ==
    /\ PartialRollout
    /\ SyncOwns("resuming")
    /\ Suspend(<<>>)
    /\ SyncGoes("serversResuming")
    /\ UNCHANGED lockQueue

ResumeEnds ==
    /\ SyncOwns(IF PartialRollout THEN "serversResumed" ELSE "resuming")
    /\ paused' = FALSE /\ monitorTrigger' = TRUE
    /\ sync' = "none"
    /\ ReleaseSuspend(Notified)
    /\ UNCHANGED <<mqVars, finishedTasks, failedTasks, staleness, version, syncSum>>

Sync ==
    /\ \/ CallLocks \/ PauseBegins \/ PauseGathers \/ PauseEnds
       \/ UpdateBegins \/ UpdateResets \/ UpdateEnds \/ ResumeAsksServers \/ ResumeEnds
    /\ UNCHANGED <<rollRunning, feedVars, procVars, task, failures, stamp, cancelQueue, syncVersion,
                   monitor, main, serversPaused>>

\* Outside the loop: the effect of what the handler has asked for, ...
SyncOutside == UNCHANGED <<lockQueue, flagVars, feedVars, procVars, taskVars, cancelQueue, staleness,
                           version, syncVersion, monitor, main>>

ServersCancel ==
    /\ sync = "cancelling" /\ sync' = "cancelled"
    /\ serversPaused' = TRUE
    /\ SyncOutside /\ UNCHANGED <<mqVars, ready, syncSum>>

ServersResume ==
    /\ sync = "serversResuming" /\ sync' = "serversResumed"
    /\ serversPaused' = FALSE
    /\ SyncOutside /\ UNCHANGED <<mqVars, ready, syncSum>>

SumOfRollouter == syncSum   \* mutant of SumEnded: the queue is forgotten
SumEnded == syncSum + Len(queue)

QueueSizes ==
    /\ sync = "sizing" /\ sync' = "sized"
    /\ syncSum' = SumEnded
    /\ SyncOutside /\ UNCHANGED <<mqVars, ready, serversPaused>>

QueueTakesValidate ==
    /\ sync = "validating" /\ sync' = "validated"
    /\ PutValidate(version)
    /\ SyncOutside /\ UNCHANGED <<ready, syncSum, serversPaused>>

\* ... and the arrival of a call or of an answer.
SyncArrives ==
    /\ sync \in {"pauseCall", "updateCall", "resumeCall", "cancelled", "flushing", "sized",
                 "validated", "serversResumed"}
    /\ Wake(Handler)
    /\ SyncOutside /\ UNCHANGED <<mqVars, sync, syncSum, serversPaused>>

SyncEnvironment == ServersCancel \/ ServersResume \/ QueueSizes \/ QueueTakesValidate \/ SyncArrives
-----------------------------------------------------------------------------
\* The event loop runs; what happens outside it.
LoopRuns == FeederPuts \/ FeederEnds \/ Processor \/ TaskSteps \/ Monitor \/ Main \/ Sync

TaskEnvironment == \E s \in Samples : ServersTake(s) \/ ServersAnswer(s) \/ QueueTakes(s) \/ QueueAnswers(s)

RollNext ==
    \/ LoopRuns
    \/ TaskEnvironment \/ \E s \in Samples : ServersFail(s)
    \/ MonitorTimer \/ QueueTakesNone \/ SyncEnvironment
=============================================================================
