---------------------------- MODULE FreshnessProofs ----------------------------
(***************************************************************************)
(* How old the samples are that are trained on.  First the bound for any    *)
(* staleness threshold: a sample is stamped when it is finished, and what   *)
(* the trainer consumes before it fetches the sample is counted against the *)
(* versions that it can have completed since.  Then a threshold of less     *)
(* than one sample: training is on policy, no task runs while the weights   *)
(* move, the limit of the samples under way is never passed, and every      *)
(* sample is trained on.                                                    *)
(***************************************************************************)
EXTENDS PipelineProofs

\* The samples of n versions, and those of the steps of a version before step l.
Versions(n) == n * SamplesPerVersion
Steps(l) == (l - 1) * RequiredSamples

LEMMA Sizes ==
  /\ SamplesPerVersion \in Nat \ {0} /\ MaxRequiredSamples \in Nat \ {0} /\ RequiredSamples \in Nat \ {0}
  /\ TriggerSyncStep \in Nat \ {0} /\ MaxQueueSize = MaxRequiredSamples
<1>1. RequiredSamples \in Nat \ {0} /\ TriggerSyncStep \in Nat \ {0} /\ MaxRequiredSamples \in Nat \ {0}
  BY Numbers
<1>2. \A a, b \in Nat \ {0} : a * b \in Nat \ {0}
  OBVIOUS
<1> QED BY <1>1, <1>2, QueueSizeAssumption DEF SamplesPerVersion

\* The trainer consumes SamplesPerVersion samples for each version, RequiredSamples for each step of it.
LEMMA VersionLaws ==
  ASSUME NEW n \in Nat
  PROVE  /\ Versions(n) \in Nat /\ Versions(n + 1) = Versions(n) + SamplesPerVersion
         /\ Versions(n + 2) = Versions(n) + SamplesPerVersion + SamplesPerVersion
         /\ \A m \in Nat : m <= n => Versions(m) <= Versions(n)
<1>1. SamplesPerVersion \in Nat \ {0}
  BY Sizes
<1>2. \A S \in Nat \ {0} : /\ n * S \in Nat /\ (n + 1) * S = n * S + S /\ (n + 2) * S = n * S + S + S
  OBVIOUS
<1>3. \A S \in Nat \ {0}, m \in Nat : m <= n => m * S <= n * S
  <2> SUFFICES ASSUME NEW S \in Nat \ {0}, NEW m \in Nat, m <= n PROVE m * S <= n * S
    OBVIOUS
  <2>1. PICK d \in Nat : n = m + d
    <3>1. n - m \in Nat /\ n = m + (n - m)
      OBVIOUS
    <3> QED BY <3>1
  <2>2. (m + d) * S = m * S + d * S /\ d * S \in Nat /\ m * S \in Nat
    OBVIOUS
  <2> QED BY <2>1, <2>2
<1> QED BY <1>1, <1>2, <1>3 DEF Versions

LEMMA StepLaws ==
  ASSUME NEW l \in 1..TriggerSyncStep
  PROVE  /\ Steps(l) \in Nat /\ Steps(1) = 0 /\ Steps(l + 1) = Steps(l) + RequiredSamples
         /\ Steps(l) + RequiredSamples <= SamplesPerVersion
         /\ l >= TriggerSyncStep => Steps(l) + RequiredSamples = SamplesPerVersion
<1>1. RequiredSamples \in Nat \ {0} /\ TriggerSyncStep \in Nat \ {0}
  BY Sizes
<1>2. \A S \in Nat \ {0} : (l - 1) * S \in Nat /\ (l - 1) * S + S = l * S /\ (l + 1 - 1) * S = (l - 1) * S + S
                           /\ (1 - 1) * S = 0
  BY <1>1
<1>3. \A S, t \in Nat \ {0} : l \in 1..t => l * S <= S * t /\ (l >= t => l * S = S * t)
  <2> SUFFICES ASSUME NEW S \in Nat \ {0}, NEW t \in Nat \ {0}, l \in 1..t
               PROVE  l * S <= S * t /\ (l >= t => l * S = S * t)
    OBVIOUS
  <2>1. PICK d \in Nat : t = l + d
    <3>1. t - l \in Nat /\ t = l + (t - l)
      BY <1>1
    <3> QED BY <3>1
  <2>2. l \in Nat
    BY <1>1
  <2>3. S * (l + d) = l * S + d * S /\ d * S \in Nat /\ l * S \in Nat
    BY <2>2
  <2>4. l >= t => d = 0 /\ d * S = 0
    BY <2>1, <2>2
  <2> QED BY <2>1, <2>3, <2>4
<1> QED BY <1>1, <1>2, <1>3 DEF Steps, SamplesPerVersion

\* A number of whole parts is at most the quotient.
LEMMA QuotientBounds ==
  ASSUME NEW S \in Nat \ {0}, NEW a \in Int, NEW b \in Nat, a * S <= b
  PROVE  a <= b \div S
<1> DEFINE q == b \div S
           r == b % S
<1>1. q \in Int /\ r \in 0..(S - 1) /\ b = S * q + r
  OBVIOUS
<1> HIDE DEF q, r
<1> SUFFICES ASSUME a > q PROVE FALSE
  BY <1>1 DEF q
<1>2. PICK d \in Nat : a = q + 1 + d
  <2>1. a - q - 1 \in Nat /\ a = q + 1 + (a - q - 1)
    BY <1>1
  <2> QED BY <2>1
<1>3. (q + 1 + d) * S = S * q + S + d * S /\ d * S \in Nat
  BY <1>1
<1> QED BY <1>1, <1>2, <1>3

-----------------------------------------------------------------------------
(* The age of a sample, for any staleness threshold. *)

\* From the end of pause to the new version: no task is left when it begins.
Early == {"flushing", "paused", "updateCall", "updating"}

\* The samples the trainer has consumed; how many it may have consumed with one that is stamped v: those
\* of all versions up to v + 1, and as many as fit in the queue.
Consumed == Versions(trainerVersion) + Steps(localStep) + Len(batch)
Window(v) == Versions(v + 2) + MaxRequiredSamples

QueueFits == Len(queue) <= MaxQueueSize
BatchGone == ~stopping /\ trainer \notin {"collect", "train"} => batch = <<>>
StampedLate ==
    \A s \in Samples : task[s] = "putting" =>
        stamp[s] <= version /\ version <= stamp[s] + 1 /\ (version = stamp[s] + 1 => sync \notin Early)
QueueAges == ~stopping => \A i \in 1..Len(queue) : queue[i] \in Samples => Consumed + i <= Window(stamp[queue[i]])
BatchAges == ~stopping => \A i \in 1..Len(batch) : Consumed - Len(batch) + i <= Window(stamp[batch[i]])

AgeInv == QueueFits /\ BatchGone /\ StampedLate /\ QueueAges /\ BatchAges

LEMMA AgeTypes ==
  ASSUME SamplesInv
  PROVE  /\ queue \in Seq(Items) /\ Len(queue) \in Nat /\ batch \in Seq(Samples) /\ Len(batch) \in Nat
         /\ stamp \in [Samples -> Nat] /\ trainerVersion \in Nat /\ version \in Nat
         /\ localStep \in 1..TriggerSyncStep /\ stopping \in BOOLEAN
         /\ trainer = "train" => Len(batch) = RequiredSamples
         /\ Len(batch) <= RequiredSamples
         /\ Consumed \in Nat /\ \A s \in Samples : stamp[s] \in Nat /\ Window(stamp[s]) \in Nat
<1>1. TypeOK /\ BatchInv
  BY Known DEF RollInv
<1>2. /\ queue \in Seq(Items) /\ Len(queue) \in Nat /\ batch \in Seq(Samples) /\ Len(batch) \in Nat
      /\ stamp \in [Samples -> Nat] /\ trainerVersion \in Nat /\ version \in Nat
      /\ localStep \in 1..TriggerSyncStep /\ stopping \in BOOLEAN
      /\ Len(batch) <= RequiredSamples
  BY <1>1 DEF TypeOK, MQTypeOK, RollTypeOK, TrainTypeOK
<1>3. Consumed \in Nat
  <2>1. Versions(trainerVersion) \in Nat /\ Steps(localStep) \in Nat
    BY <1>2, VersionLaws, StepLaws
  <2> QED BY <1>2, <2>1 DEF Consumed
<1>4. ASSUME NEW s \in Samples PROVE stamp[s] \in Nat /\ Window(stamp[s]) \in Nat
  <2>1. stamp[s] + 2 \in Nat
    BY <1>2
  <2>2. Versions(stamp[s] + 2) \in Nat /\ MaxRequiredSamples \in Nat
    BY <2>1, VersionLaws, Sizes
  <2> HIDE DEF MaxRequiredSamples
  <2> QED BY <1>2, <2>2 DEF Window
<1> QED BY <1>1, <1>2, <1>3, <1>4 DEF BatchInv

LEMMA AgeTypesNext ==
  SamplesInv' => /\ queue' \in Seq(Items) /\ Len(queue') \in Nat /\ batch' \in Seq(Samples) /\ Len(batch') \in Nat
                 /\ stamp' \in [Samples -> Nat] /\ stopping' \in BOOLEAN
<1> SUFFICES ASSUME SamplesInv'
             PROVE  /\ queue' \in Seq(Items) /\ Len(queue') \in Nat /\ batch' \in Seq(Samples) /\ Len(batch') \in Nat
                    /\ stamp' \in [Samples -> Nat] /\ stopping' \in BOOLEAN
  OBVIOUS
<1>1. TypeOK'
  BY KnownNext
<1>2. queue' \in Seq(Items) /\ batch' \in Seq(Samples) /\ stopping' \in BOOLEAN
  BY <1>1 DEF TypeOK, MQTypeOK, TrainTypeOK
<1>3. stamp' \in [Samples -> Nat]
  BY <1>1 DEF TypeOK, RollTypeOK
<1> QED BY <1>2, <1>3, LenProperties

\* The trainer is at most one version ahead of the rollouter and in the course of the next, or, between
\* pause and the new version, two.
LEMMA ConsumedBounded ==
  ASSUME SamplesInv, SInv, BatchGone, ~stopping
  PROVE  Consumed <= Versions(version + IF sync \in Early THEN 2 ELSE 1)
<1> DEFINE S == SamplesPerVersion
           v == version
           t == trainerVersion
           p == Steps(localStep) + Len(batch)
<1>1. /\ Len(batch) \in Nat /\ localStep \in 1..TriggerSyncStep /\ t \in Nat /\ v \in Nat
      /\ Len(batch) <= RequiredSamples /\ S \in Nat /\ RequiredSamples \in Nat
  BY AgeTypes, Sizes
<1>2. p \in Nat /\ p <= S
  BY <1>1, StepLaws
<1>3. trainer \in {"waitValid", "pause", "transfer"} => p = 0
  <2>1. trainer \in {"waitValid", "pause", "transfer"} => localStep = 1 /\ batch = <<>>
    BY DEF SInv, Saved, BatchGone
  <2>2. Steps(1) = 0 /\ Len(<<>>) = 0
    BY <1>1, StepLaws
  <2> QED BY <2>1, <2>2
<1>4. /\ \/ t = v /\ trainer \notin {"waitValid", "pause", "transfer"} /\ sync \notin Asked
         \/ t = v + 1
         \/ t = v + 2 /\ trainer \in {"waitValid", "pause"} /\ sync \in Asked
      /\ t = v + 1 => trainer \in {"waitValid", "pause", "transfer"} \/ sync \in Asked
  BY <1>1 DEF SInv, SyncTypes, Handed, InPause, Asked
<1>5. Asked \subseteq Early
  BY DEF Asked, Early
<1>6. Consumed = Versions(t) + p
  <2>1. Versions(t) \in Nat /\ Steps(localStep) \in Nat
    BY <1>1, VersionLaws, StepLaws
  <2> QED BY <1>1, <2>1 DEF Consumed
<1>7. /\ Versions(v) \in Nat /\ Versions(v + 1) = Versions(v) + S /\ Versions(v + 2) = Versions(v) + S + S
  BY <1>1, VersionLaws
<1> HIDE DEF S, v, t, p
<1>8. CASE t = v
  BY <1>1, <1>2, <1>4, <1>6, <1>7, <1>8 DEF v
<1>9. CASE t = v + 1
  BY <1>1, <1>2, <1>3, <1>4, <1>5, <1>6, <1>7, <1>9 DEF v
<1>10. CASE t = v + 2
  BY <1>1, <1>2, <1>3, <1>4, <1>5, <1>6, <1>7, <1>10 DEF v
<1> QED BY <1>4, <1>8, <1>9, <1>10

\* Only a task that has its answer stamps its sample, and only then does a task begin to put one.
Stamps(s) == TaskSends(s) /\ UNCHANGED <<queue, trainVars, sync, version>>

LEMMA StampMoves ==
  ASSUME TypeOK, [Next]_vars
  PROVE  \/ \E s \in Samples : Stamps(s)
         \/ stamp' = stamp /\ \A s \in Samples : task'[s] = "putting" => task[s] = "putting"
<1>1. task \in [Samples -> {"none", "created", "requested", "generating", "refused", "answered",
                            "cancelled", "failed", "putting", "put"}]
  BY DEF TypeOK, RollTypeOK
<1>2. ASSUME stamp' = stamp, NEW s, NEW where, TaskGoes(s, where), where # "putting"
      PROVE  stamp' = stamp /\ \A t \in Samples : task'[t] = "putting" => task[t] = "putting"
  BY <1>1, <1>2 DEF TaskGoes
<1>3. ASSUME UNCHANGED <<stamp, task>>
      PROVE  stamp' = stamp /\ \A t \in Samples : task'[t] = "putting" => task[t] = "putting"
  BY <1>3
<1>4. CASE Processor /\ Others
  <2>1. stamp' = stamp /\ (task' = task \/ TaskGoes(hand, "created"))
    BY <1>4 DEF Processor, ProcessorSeesPause, ProcessorPauses, ProcessorTakesCancelled, ProcessorAsksPending,
        ProcessorGets, ProcessorDrains, ProcessorDrained, ProcessorAwaitsTask, ProcessorFindsNoTask, ProcessorReaps,
        ProcessorSleeps, ProcessorWakes, ProcessorLeavesPause, ProcessorSubmits, ProcessorGoes, taskVars, TaskGoes
  <2> QED BY <1>2, <1>3, <2>1
<1>5. CASE (TaskSteps \/ TaskEnvironment \/ \E s \in Samples : ServersFail(s)) /\ Others
  <2>1. PICK s \in Samples : \/ (TaskStarts(s) \/ TaskSends(s) \/ TaskEnds(s)) /\ TaskSteps
                             \/ ServersTake(s) \/ ServersAnswer(s) \/ QueueTakes(s) \/ QueueAnswers(s) \/ ServersFail(s)
    BY <1>5 DEF TaskSteps, TaskEnvironment
  <2>2. CASE TaskSends(s) /\ TaskSteps
    BY <1>5, <2>2 DEF TaskSteps, Stamps, mqVars, syncVars, Others
  <2>3. CASE ~(TaskSends(s) /\ TaskSteps)
    <3>1. stamp' = stamp /\ (task' = task \/ \E where : TaskGoes(s, where) /\ where # "putting")
      <4>1. CASE TaskStarts(s) \/ TaskEnds(s)
        BY <4>1 DEF TaskStarts, TaskEnds
      <4>2. CASE ServersTake(s) \/ ServersAnswer(s)
        BY <4>2 DEF ServersTake, ServersAnswer, TaskOutside
      <4>3. CASE QueueTakes(s) \/ QueueAnswers(s) \/ ServersFail(s)
        BY <4>3 DEF QueueTakes, QueueAnswers, ServersFail, TaskOutside
      <4> QED BY <2>1, <2>3, <4>1, <4>2, <4>3
    <3> QED BY <1>2, <1>3, <3>1
  <2> QED BY <2>1, <2>2, <2>3
<1>6. CASE FeederPuts \/ FeederEnds \/ Monitor \/ Main \/ Sync \/ MonitorTimer \/ QueueTakesNone \/ SyncEnvironment
  <2>1. UNCHANGED <<stamp, task>>
    BY <1>6 DEF FeederPuts, FeederEnds, FeederDoes, Monitor, Main, MainOnly, Sync, MonitorTimer, QueueTakesNone,
        SyncEnvironment, ServersCancel, ServersResume, QueueSizes, QueueTakesValidate, SyncArrives, SyncOutside, taskVars
  <2> QED BY <1>3, <2>1
<1>7. CASE TrainNext \/ RunnerEnds \/ Terminated \/ UNCHANGED vars
  <2>1. UNCHANGED <<stamp, task>>
    BY <1>7 DEF TrainNext, CollectWaits, CollectTakes, CollectStops, Trains, CallsPause, TransferBegins, TransferEnds,
      Logs, Finishes, FinishesSync, RollouterButSync, RunnerEnds, Terminated, vars, rollVars, taskVars
  <2> QED BY <1>3, <2>1
<1> QED BY <1>4, <1>5, <1>6, <1>7 DEF Next, RollNext, LoopRuns

\* The handler goes on to flush when no task is left, and from there to the new version.
LEMMA EarlyMoves ==
  ASSUME SInv, [Next]_vars, sync' \in Early
  PROVE  /\ version' = version
         /\ sync \in Early \/ (Gathers /\ Gathered /\ task' = task)
<1>1. CASE Sync
  BY <1>1 DEF Sync, CallLocks, PauseBegins, PauseGathers, Gathers, PauseEnds, UpdateBegins, UpdateResets,
      UpdateEnds, ResumeAsksServers, ResumeEnds, SyncOwns, SyncGoes, Early
<1>2. CASE SyncEnvironment
  BY <1>2 DEF SyncEnvironment, ServersCancel, ServersResume, QueueSizes, QueueTakesValidate, SyncArrives, SyncOutside,
      Early
<1>3. CASE RollNext /\ ~Sync /\ ~SyncEnvironment
  <2>1. sync' = sync /\ version' = version
    BY <1>3 DEF RollNext, LoopRuns, FeederPuts, FeederEnds, FeederDoes, Processor, TaskSteps, Monitor, Main, MainOnly,
        TaskEnvironment, ServersTake, ServersAnswer, QueueTakes, QueueAnswers, ServersFail, TaskOutside,
        MonitorTimer, QueueTakesNone, syncVars
  <2> QED BY <2>1
<1>4. CASE TransferEnds
  <2>1. sync = "paused" /\ version' = version
    BY <1>4 DEF TransferEnds, RollouterButSync, SInv, Handed
  <2> QED BY <2>1 DEF Early
<1>5. CASE (TrainNext /\ ~TransferEnds) \/ RunnerEnds \/ Terminated \/ UNCHANGED vars
  BY <1>5 DEF TrainNext, CollectWaits, CollectTakes, CollectStops, Trains, CallsPause, TransferBegins,
      Logs, Finishes, FinishesSync, RollouterButSync, RunnerEnds, Terminated, vars, rollVars, syncVars, Early
<1> QED BY <1>1, <1>2, <1>3, <1>4, <1>5 DEF Next

LEMMA VersionMoves ==
  ASSUME [Next]_vars
  PROVE  version' = version \/ TakesVersion
<1>1. CASE RollNext
  BY <1>1, RollouterSteps DEF syncState, Moves, SendsValidation
<1>2. CASE TrainNext \/ RunnerEnds \/ Terminated \/ UNCHANGED vars
  BY <1>2 DEF TrainNext, CollectWaits, CollectTakes, CollectStops, Trains, CallsPause, TransferBegins, TransferEnds,
      Logs, Finishes, FinishesSync, RollouterButSync, RunnerEnds, Terminated, vars, rollVars
<1> QED BY <1>1, <1>2 DEF Next

\* A sample on its way to the queue has the version of the rollouter or, from the new version to the
\* next pause, the one before.
LEMMA StampedLateNext ==
  ASSUME SamplesInv, SInv, StampedLate, [Next]_vars
  PROVE  StampedLate'
<1>1. /\ stamp \in [Samples -> Nat] /\ version \in Nat /\ TypeOK
  BY AgeTypes, Known
<1> SUFFICES ASSUME NEW s \in Samples, task'[s] = "putting"
             PROVE  stamp'[s] <= version' /\ version' <= stamp'[s] + 1 /\ (version' = stamp'[s] + 1 => sync' \notin Early)
  BY DEF StampedLate
<1>2. CASE task[s] = "putting" /\ stamp'[s] = stamp[s]
  <2>1. stamp[s] <= version /\ version <= stamp[s] + 1 /\ (version = stamp[s] + 1 => sync \notin Early)
    BY <1>2 DEF StampedLate
  <2>2. CASE TakesVersion
    <3>1. sync \in Early /\ sync' \notin Early /\ version' = version + 1
      BY <2>2 DEF TakesVersion, SInv, SyncTypes, Handed, Asked, Early
    <3> QED BY <1>1, <1>2, <2>1, <3>1
  <2>3. CASE version' = version
    <3>1. sync' \in Early => sync \in Early
      <4>1. s \in Live
        BY <1>2 DEF Live
      <4> QED BY <4>1, EarlyMoves DEF Gathered
    <3> QED BY <1>1, <1>2, <2>1, <2>3, <3>1
  <2> QED BY <2>2, <2>3, VersionMoves
<1>3. ASSUME NEW t \in Samples, Stamps(t)
      PROVE  s = t \/ (task[s] = "putting" /\ stamp'[s] = stamp[s])
  <2>1. task \in [Samples -> {"none", "created", "requested", "generating", "refused", "answered",
                            "cancelled", "failed", "putting", "put"}]
    BY <1>1 DEF TypeOK, RollTypeOK
  <2> QED BY <1>1, <1>3, <2>1 DEF Stamps, TaskSends, TaskGoes
<1>4. CASE Stamps(s)
  <2>1. stamp'[s] = version /\ version' = version
    BY <1>1, <1>4 DEF Stamps, TaskSends
  <2> QED BY <1>1, <2>1
<1> QED BY <1>1, <1>2, <1>3, <1>4, StampMoves

\* What a put, and any other step, does to the places in the queue: no sample moves back.
LEMMA PutMoves ==
  ASSUME SamplesInv, QueueFits, NEW item, PutSample(item)
  PROVE  /\ Len(queue') \in Nat \ {0} /\ Len(queue') <= MaxQueueSize /\ queue'[Len(queue')] = item
         /\ \A i \in 1..(Len(queue') - 1) : \E j \in 1..Len(queue) : i <= j /\ queue'[i] = queue[j]
<1>1. queue \in Seq(Items) /\ Len(queue) \in Nat /\ MaxQueueSize \in Nat \ {0} /\ Len(queue) <= MaxQueueSize
  BY AgeTypes, MaxQueueSizeAssumption DEF QueueFits
<1>2. /\ RoomMade \in Seq(Items) /\ Len(RoomMade) \in Nat /\ Len(RoomMade) < MaxQueueSize
      /\ \A i \in 1..Len(RoomMade) : \E j \in 1..Len(queue) : i <= j /\ RoomMade[i] = queue[j]
  <2>1. CASE QueueFull
    <3>1. queue # <<>> /\ RoomMade = Tail(queue)
      BY <1>1, <2>1 DEF QueueFull, RoomMade
    <3>2. Tail(queue) \in Seq(Items) /\ Len(Tail(queue)) = Len(queue) - 1
          /\ \A i \in 1..Len(Tail(queue)) : Tail(queue)[i] = queue[i + 1]
      BY <1>1, <3>1, HeadTailProperties
    <3>3. \A i \in 1..(Len(queue) - 1) : i + 1 \in 1..Len(queue) /\ i <= i + 1
      BY <1>1
    <3>4. Len(queue) # 0
      BY <1>1, <3>1, EmptySeq
    <3> QED BY <1>1, <3>1, <3>2, <3>3, <3>4
  <2>2. CASE ~QueueFull
    <3>1. RoomMade = queue /\ Len(queue) < MaxQueueSize
      BY <1>1, <2>2 DEF QueueFull, RoomMade
    <3>2. \A i \in 1..Len(queue) : i <= i
      BY <1>1
    <3> QED BY <1>1, <3>1, <3>2
  <2> QED BY <2>1, <2>2
<1>3. queue' = Append(RoomMade, item)
  BY DEF PutSample
<1> DEFINE q == RoomMade
<1> HIDE DEF q
<1>4. /\ Len(Append(q, item)) = Len(q) + 1 /\ Append(q, item)[Len(q) + 1] = item
      /\ \A i \in 1..Len(q) : Append(q, item)[i] = q[i]
  BY <1>2, AppendProperties DEF q
<1> QED BY <1>1, <1>2, <1>3, <1>4 DEF q

LEMMA PlacesDecrease ==
  ASSUME SamplesInv, [Next]_vars, ~Puts
  PROVE  /\ Len(queue') <= Len(queue)
         /\ \A i \in 1..Len(queue') : \E j \in 1..Len(queue) : i <= j /\ queue'[i] = queue[j]
<1>1. queue \in Seq(Items) /\ Len(queue) \in Nat
  BY AgeTypes
<1>2. CASE queue' = queue
  <2>1. \A i \in 1..Len(queue) : i <= i
    BY <1>1
  <2> QED BY <1>1, <1>2, <2>1
<1>3. CASE queue' = <<>>
  BY <1>1, <1>3
<1>4. CASE queue # <<>> /\ queue' = Tail(queue)
  <2>1. Tail(queue) \in Seq(Items) /\ Len(Tail(queue)) = Len(queue) - 1
        /\ \A i \in 1..Len(Tail(queue)) : Tail(queue)[i] = queue[i + 1]
    BY <1>1, <1>4, HeadTailProperties
  <2>2. \A i \in 1..(Len(queue) - 1) : i + 1 \in 1..Len(queue) /\ i <= i + 1
    BY <1>1
  <2> QED BY <1>1, <1>4, <2>1, <2>2
<1> QED BY <1>2, <1>3, <1>4, QueueMoves

LEMMA QueueFitsNext ==
  ASSUME SamplesInv, QueueFits, [Next]_vars
  PROVE  QueueFits'
<1>1. Len(queue) \in Nat /\ MaxQueueSize \in Nat
  BY AgeTypes, MaxQueueSizeAssumption
<1>2. CASE Puts
  <2>1. PICK item : PutSample(item)
    BY <1>2 DEF Puts, QueueTakesNone, QueueTakes
  <2> QED BY <2>1, PutMoves DEF QueueFits
<1>3. CASE ~Puts
  <2>1. Len(queue') <= Len(queue) /\ Len(queue) <= MaxQueueSize
    BY <1>3, PlacesDecrease DEF QueueFits
  <2>2. CASE queue' = queue \/ queue' = <<>>
    BY <1>1, <2>1, <2>2 DEF QueueFits
  <2>3. CASE queue # <<>> /\ queue' = Tail(queue)
    <3>1. Len(queue') \in Nat
      BY <2>3, AgeTypes, HeadTailProperties
    <3> QED BY <1>1, <2>1, <3>1 DEF QueueFits
  <2> QED BY <1>3, <2>2, <2>3, QueueMoves
<1> QED BY <1>2, <1>3

LEMMA BatchGoneNext ==
  ASSUME SInv, BatchGone, [Next]_vars
  PROVE  BatchGone'
<1>1. trainer \in {"final", "finalWait", "ended"} => stopping
  BY DEF SInv, Validated
<1>2. CASE TrainNext
  BY <1>1, <1>2 DEF TrainNext, CollectWaits, CollectTakes, CollectStops, Trains, CallsPause, TransferBegins, TransferEnds,
      TrainerGoes, Logs, Finishes, FinishesSync, trainVars, BatchGone
<1>3. CASE UNCHANGED trainVars
  BY <1>3 DEF trainVars, BatchGone
<1> QED BY <1>2, <1>3 DEF Next, Others, RunnerEnds, Terminated, vars

\* A sample that a task has is not in the queue or a batch.
LEMMA NotInTask ==
  ASSUME SamplesInv, NEW s \in InTask
  PROVE  s \notin SamplesOf(queue) /\ s \notin SamplesOf(batch) /\ s \in Samples /\ s \in Held
<1>1. TypeOK /\ PlacesAre /\ fed \in Nat /\ s \in Samples /\ s \in Nat
  BY Known, Numbers DEF InTask
<1>2. OnePlace(s) /\ place[s] = PlaceOf(s)
  BY <1>1 DEF PlacesAre
<1>3. /\ Occurrences(s, pendingQueue) \in Nat /\ Occurrences(s, cancelQueue) \in Nat
      /\ InSet(s, {hand}) \in {0, 1} /\ InSet(s, InTask) = 1
  BY <1>1, CopyTypes DEF InSet
<1>4. Made(s) = 1 /\ Occurrences(s, queue) = 0 /\ Occurrences(s, batch) = 0 /\ Occurrences(s, pendingQueue) = 0
  BY <1>1, <1>2, <1>3 DEF Made, OnePlace
<1>5. s <= fed
  BY <1>1, <1>2, <1>4 DEF OnePlace
<1>6. /\ Occurrences(s, queue) > 0 <=> s \in SamplesOf(queue)
      /\ Occurrences(s, batch) > 0 <=> s \in SamplesOf(batch)
      /\ Occurrences(s, pendingQueue) > 0 <=> s \in SamplesOf(pendingQueue)
  BY <1>1, InSamplesOf DEF TypeOK, RollTypeOK, MQTypeOK, TrainTypeOK
<1>7. place[s] = "rollout"
  BY <1>1, <1>2, <1>4, <1>5 DEF PlaceOf
<1> QED BY <1>1, <1>4, <1>6, <1>7 DEF Held

\* So what is in the queue or a batch keeps its stamp.
LEMMA StampStays ==
  ASSUME SamplesInv, [Next]_vars, NEW s \in SamplesOf(queue) \cup SamplesOf(batch)
  PROVE  s \in Samples /\ stamp'[s] = stamp[s]
<1>1. stamp \in [Samples -> Nat] /\ TypeOK /\ s \in Samples
  BY AgeTypes, Known DEF SamplesOf
<1>2. stamp'[s] = stamp[s]
  <2>1. ASSUME NEW t \in Samples, Stamps(t) PROVE stamp'[s] = stamp[s]
    <3>1. t \in InTask
      BY <2>1 DEF Stamps, TaskSends, TaskAt, InTask
    <3>2. s # t
      BY <3>1, NotInTask
    <3> QED BY <1>1, <2>1, <3>2 DEF Stamps, TaskSends
  <2> QED BY <1>1, <2>1, StampMoves
<1> QED BY <1>1, <1>2

\* Fetching a sample consumes it; training on a batch and making a version only count it elsewhere.
LEMMA ConsumedMoves ==
  ASSUME SamplesInv, SInv, [Next]_vars, ~stopping'
  PROVE  /\ ~stopping
         /\ \/ CollectTakes /\ Consumed' = Consumed + 1
            \/ ~CollectTakes /\ Consumed' = Consumed /\ batch' \in {batch, <<>>}
<1>1. /\ batch \in Seq(Samples) /\ Len(batch) \in Nat /\ localStep \in 1..TriggerSyncStep /\ trainerVersion \in Nat
      /\ (trainer = "train" => Len(batch) = RequiredSamples) /\ RequiredSamples \in Nat /\ SamplesPerVersion \in Nat
  BY AgeTypes, Sizes
<1>2. /\ Versions(trainerVersion) \in Nat /\ Versions(trainerVersion + 1) = Versions(trainerVersion) + SamplesPerVersion
      /\ Steps(localStep) \in Nat /\ Steps(1) = 0 /\ Steps(localStep + 1) = Steps(localStep) + RequiredSamples
      /\ localStep >= TriggerSyncStep => Steps(localStep) + RequiredSamples = SamplesPerVersion
  BY <1>1, VersionLaws, StepLaws
<1>3. CASE UNCHANGED <<batch, localStep, trainerVersion, stopping>>
  <2>1. ~CollectTakes
    <3>1. ASSUME CollectTakes PROVE FALSE
      <4>1. batch' = Append(batch, Head(queue)) /\ Head(queue) \in Samples
        <5>1. queue # <<>> /\ Head(queue) # None /\ queue \in Seq(Items)
          BY <3>1, AgeTypes DEF CollectTakes, GetSampleReturns
        <5> QED BY <3>1, <5>1, HeadTailProperties DEF CollectTakes, Items
      <4>2. Len(Append(batch, Head(queue))) = Len(batch) + 1
        BY <1>1, <4>1, AppendProperties
      <4> QED BY <1>1, <1>3, <4>1, <4>2
    <3> QED BY <3>1
  <2> QED BY <1>3, <2>1 DEF Consumed
<1>4. CASE CollectTakes
  <2>1. Head(queue) \in Samples
    <3>1. queue # <<>> /\ Head(queue) # None /\ queue \in Seq(Items)
      BY <1>4, AgeTypes DEF CollectTakes, GetSampleReturns
    <3> QED BY <3>1, HeadTailProperties DEF Items
  <2>2. Len(Append(batch, Head(queue))) = Len(batch) + 1
    BY <1>1, <2>1, AppendProperties
  <2>3. batch' = Append(batch, Head(queue)) /\ UNCHANGED <<localStep, trainerVersion, stopping>>
    BY <1>4 DEF CollectTakes
  <2>4. Consumed' = Versions(trainerVersion) + Steps(localStep) + Len(batch')
    BY <2>3 DEF Consumed
  <2> QED BY <1>1, <1>2, <1>4, <2>2, <2>3, <2>4 DEF Consumed
<1>5. CASE Trains
  <2>1. trainer = "train" /\ batch' = <<>> /\ Len(<<>>) = 0 /\ stopping' = stopping
    BY <1>5 DEF Trains
  <2>2. CASE localStep' = localStep + 1 /\ trainerVersion' = trainerVersion
    BY <1>1, <1>2, <2>1, <2>2 DEF Consumed, CollectTakes
  <2>3. CASE localStep >= TriggerSyncStep /\ localStep' = 1 /\ trainerVersion' = trainerVersion + 1
    <3>1. Consumed' = Versions(trainerVersion + 1) + Steps(1) + 0
      BY <2>1, <2>3 DEF Consumed
    <3> QED BY <1>1, <1>2, <2>1, <2>3, <3>1 DEF Consumed, CollectTakes
  <2> QED BY <1>5, <2>2, <2>3 DEF Trains, NewVersion
<1>6. CASE CollectStops
  BY <1>6 DEF CollectStops
<1>7. CASE Finishes
  BY <1>7 DEF Finishes, SInv, Validated
<1>8. CASE CollectWaits \/ CallsPause \/ TransferBegins \/ TransferEnds \/ Logs \/ FinishesSync
  BY <1>3, <1>8 DEF CollectWaits, CallsPause, TransferBegins, TransferEnds, TrainerGoes, Logs, FinishesSync, trainVars
<1>9. CASE UNCHANGED trainVars
  BY <1>3, <1>9 DEF trainVars
<1> QED BY <1>4, <1>5, <1>6, <1>7, <1>8, <1>9 DEF Next, TrainNext, Others, RunnerEnds, Terminated, vars

LEMMA QueueAgesNext ==
  ASSUME SamplesInv, SInv, AgeInv, [Next]_vars
  PROVE  QueueAges'
<1>1. SUFFICES ASSUME ~stopping', NEW i \in 1..Len(queue'), queue'[i] \in Samples
               PROVE  Consumed' + i <= Window(stamp'[queue'[i]])
  BY DEF QueueAges
<1>2. /\ queue \in Seq(Items) /\ Len(queue) \in Nat /\ Consumed \in Nat /\ version \in Nat
      /\ \A s \in Samples : Window(stamp[s]) \in Nat /\ stamp[s] \in Nat
  BY AgeTypes
<1>3. ~stopping /\ (Consumed' = Consumed \/ (CollectTakes /\ Consumed' = Consumed + 1))
  BY <1>1, ConsumedMoves
<1>4. ASSUME NEW j \in 1..Len(queue), i <= j, queue'[i] = queue[j], Consumed' = Consumed
      PROVE  Consumed' + i <= Window(stamp'[queue'[i]])
  <2>1. queue[j] \in SamplesOf(queue)
    BY <1>1, <1>4 DEF SamplesOf
  <2>2. Window(stamp'[queue[j]]) = Window(stamp[queue[j]]) /\ queue[j] \in Samples
    BY <2>1, StampStays
  <2>3. Consumed + j <= Window(stamp[queue[j]])
    BY <1>3, <2>2 DEF AgeInv, QueueAges
  <2>4. Window(stamp'[queue'[i]]) = Window(stamp'[queue[j]])
    BY <1>4 DEF Window
  <2>5. Window(stamp[queue[j]]) \in Nat
    BY <1>2, <2>2
  <2> QED BY <1>1, <1>2, <1>4, <2>2, <2>3, <2>4, <2>5
<1>5. CASE CollectTakes
  <2>1. queue # <<>> /\ queue' = Tail(queue) /\ stamp' = stamp /\ Consumed' = Consumed + 1
    BY <1>1, <1>5, ConsumedMoves DEF CollectTakes, GetSampleReturns, rollVars, taskVars
  <2>2. Len(Tail(queue)) = Len(queue) - 1 /\ \A k \in 1..Len(Tail(queue)) : Tail(queue)[k] = queue[k + 1]
    BY <1>2, <2>1, HeadTailProperties
  <2>3. i + 1 \in 1..Len(queue) /\ queue'[i] = queue[i + 1]
    BY <1>1, <1>2, <2>1, <2>2
  <2>4. Consumed + (i + 1) <= Window(stamp[queue[i + 1]])
    BY <1>1, <1>3, <2>3 DEF AgeInv, QueueAges
  <2>5. Window(stamp'[queue'[i]]) = Window(stamp[queue[i + 1]]) /\ Window(stamp[queue[i + 1]]) \in Nat
    BY <1>1, <1>2, <2>1, <2>3 DEF Window
  <2> QED BY <1>1, <1>2, <2>1, <2>4, <2>5
<1>6. CASE Puts
  <2>1. Consumed' = Consumed
    BY <1>3, <1>6 DEF Puts, Others, trainVars, Consumed
  <2>2. PICK item : PutSample(item) /\ (item = None \/ (item \in Samples /\ task[item] = "putting" /\ stamp' = stamp))
    BY <1>6 DEF Puts, QueueTakesNone, QueueTakes, TaskOutside, MainOnly, taskVars
  <2>3. /\ Len(queue') \in Nat \ {0} /\ Len(queue') <= MaxQueueSize /\ queue'[Len(queue')] = item
        /\ \A k \in 1..(Len(queue') - 1) : \E j \in 1..Len(queue) : k <= j /\ queue'[k] = queue[j]
    BY <2>2, PutMoves DEF AgeInv
  <2>4. CASE i # Len(queue')
    <3>1. i \in 1..(Len(queue') - 1)
      BY <1>1, <2>3, <2>4
    <3> QED BY <1>4, <2>1, <2>3, <3>1
  <2>5. CASE i = Len(queue')
    <3>1. item \in Samples /\ task[item] = "putting" /\ stamp' = stamp
      BY <1>1, <2>2, <2>3, <2>5, NoneAssumption
    <3>2. stamp[item] \in Nat /\ stamp[item] <= version /\ version <= stamp[item] + 1
          /\ (version = stamp[item] + 1 => sync \notin Early)
      BY <1>2, <3>1 DEF AgeInv, StampedLate
    <3>3. Consumed <= Versions(version + IF sync \in Early THEN 2 ELSE 1)
      BY <1>3, ConsumedBounded DEF AgeInv
    <3>4. Consumed <= Versions(stamp[item] + 2)
      <4>1. CASE version = stamp[item]
        <5>1. version + 1 \in Nat /\ version + 2 \in Nat /\ version + 1 <= version + 2
          BY <1>2
        <5>2. Versions(version + 1) <= Versions(version + 2) /\ Versions(version + 1) \in Nat
              /\ Versions(version + 2) \in Nat
          BY <5>1, VersionLaws
        <5> QED BY <1>2, <3>3, <4>1, <5>2
      <4>2. CASE version = stamp[item] + 1
        <5>1. version + 1 = stamp[item] + 2
          BY <3>2, <4>2
        <5> QED BY <3>2, <3>3, <4>2, <5>1
      <4> QED BY <1>2, <3>2, <4>1, <4>2
    <3>5. Versions(stamp[item] + 2) \in Nat /\ MaxQueueSize \in Nat /\ MaxQueueSize = MaxRequiredSamples
      <4>1. stamp[item] + 2 \in Nat
        BY <3>2
      <4> QED BY <4>1, VersionLaws, Sizes
    <3>6. Window(stamp'[queue'[i]]) = Versions(stamp[item] + 2) + MaxQueueSize
      BY <2>3, <2>5, <3>1, <3>5 DEF Window
    <3> QED BY <1>1, <1>2, <2>1, <2>3, <2>5, <3>4, <3>5, <3>6
  <2> QED BY <2>4, <2>5
<1>7. CASE ~Puts /\ Consumed' = Consumed
  <2>1. PICK j \in 1..Len(queue) : i <= j /\ queue'[i] = queue[j]
    BY <1>1, <1>7, PlacesDecrease
  <2> QED BY <1>4, <1>7, <2>1
<1> QED BY <1>3, <1>5, <1>6, <1>7

LEMMA BatchAgesNext ==
  ASSUME SamplesInv, SamplesInv', SInv, AgeInv, [Next]_vars
  PROVE  BatchAges'
<1>1. SUFFICES ASSUME ~stopping', NEW i \in 1..Len(batch')
               PROVE  Consumed' - Len(batch') + i <= Window(stamp'[batch'[i]])
  BY DEF BatchAges
<1>2. /\ queue \in Seq(Items) /\ Len(queue) \in Nat /\ batch \in Seq(Samples) /\ Len(batch) \in Nat /\ Consumed \in Nat
      /\ \A s \in Samples : Window(stamp[s]) \in Nat
  BY AgeTypes
<1>3. ASSUME NEW j \in 1..Len(batch), batch'[i] = batch[j], ~stopping
      PROVE  /\ Window(stamp'[batch'[i]]) = Window(stamp[batch[j]]) /\ Window(stamp[batch[j]]) \in Nat
             /\ Consumed - Len(batch) + j <= Window(stamp[batch[j]])
  <2>1. batch[j] \in SamplesOf(batch) /\ batch[j] \in Samples
    BY <1>2 DEF SamplesOf
  <2>2. Window(stamp'[batch[j]]) = Window(stamp[batch[j]])
    BY <2>1, StampStays
  <2>3. Window(stamp'[batch'[i]]) = Window(stamp'[batch[j]])
    BY <1>3 DEF Window
  <2> QED BY <1>2, <1>3, <2>1, <2>2, <2>3 DEF AgeInv, BatchAges
<1>4. CASE ~CollectTakes /\ Consumed' = Consumed /\ batch' \in {batch, <<>>} /\ ~stopping
  <2>1. batch' = batch
    BY <1>1, <1>4
  <2> QED BY <1>1, <1>2, <1>3, <1>4, <2>1
<1>5. CASE CollectTakes /\ Consumed' = Consumed + 1 /\ ~stopping
  <2>1. queue # <<>> /\ Head(queue) # None /\ batch' = Append(batch, Head(queue)) /\ stamp' = stamp
    BY <1>5 DEF CollectTakes, GetSampleReturns, rollVars, taskVars
  <2>2. Head(queue) \in Samples /\ Head(queue) = queue[1] /\ 1 \in 1..Len(queue)
    BY <1>2, <2>1, HeadTailProperties, EmptySeq DEF Items
  <2>3. Len(batch') = Len(batch) + 1 /\ batch'[Len(batch) + 1] = Head(queue)
        /\ \A k \in 1..Len(batch) : batch'[k] = batch[k]
    BY <1>2, <2>1, <2>2, AppendProperties
  <2>4. CASE i \in 1..Len(batch)
    <3>1. batch'[i] = batch[i]
      BY <2>3, <2>4
    <3>2. Window(stamp'[batch'[i]]) = Window(stamp[batch[i]]) /\ Window(stamp[batch[i]]) \in Nat /\ Consumed - Len(batch) + i <= Window(stamp[batch[i]])
      BY <1>3, <1>5, <2>4, <3>1
    <3> QED BY <1>1, <1>2, <1>5, <2>3, <3>2
  <2>5. CASE i = Len(batch) + 1
    <3>1. Consumed + 1 <= Window(stamp[queue[1]])
      BY <1>5, <2>2 DEF AgeInv, QueueAges
    <3>2. Window(stamp'[batch'[i]]) = Window(stamp[queue[1]])
      BY <2>1, <2>2, <2>3, <2>5 DEF Window
    <3>3. Window(stamp[queue[1]]) \in Nat
      BY <1>2, <2>2
    <3> QED BY <1>1, <1>2, <1>5, <2>3, <2>5, <3>1, <3>2, <3>3
  <2> QED BY <1>1, <1>2, <2>3, <2>4, <2>5
<1> QED BY <1>1, <1>4, <1>5, ConsumedMoves

LEMMA AgeInvNext == SamplesInv /\ SamplesInv' /\ SInv /\ AgeInv /\ [Next]_vars => AgeInv'
  BY QueueFitsNext, BatchGoneNext, StampedLateNext, QueueAgesNext, BatchAgesNext DEF AgeInv

LEMMA AgeInvInitial == Init => AgeInv
<1> SUFFICES ASSUME Init PROVE AgeInv
  OBVIOUS
<1>1. queue = <<>> /\ batch = <<>> /\ stopping = FALSE /\ task = [s \in Samples |-> "none"] /\ Len(<<>>) = 0
  BY DEF Init, MQInit, RollInit, TrainInit
<1>2. Len(queue) <= MaxQueueSize
  <2>1. MaxQueueSize \in Nat
    BY MaxQueueSizeAssumption
  <2> QED BY <1>1, <2>1
<1> QED BY <1>1, <1>2 DEF AgeInv, QueueFits, BatchGone, StampedLate, QueueAges, BatchAges

\* What that means for a sample in a batch.
LEMMA AgeBounded ==
  ASSUME SamplesInv, AgeInv, ~stopping, NEW s \in SamplesOf(batch)
  PROVE  trainerVersion - stamp[s] <= (MaxRequiredSamples - 1) \div SamplesPerVersion + 2
<1> DEFINE S == SamplesPerVersion
           m == MaxRequiredSamples
           t == trainerVersion
           u == stamp[s]
<1>1. /\ batch \in Seq(Samples) /\ Len(batch) \in Nat /\ t \in Nat /\ localStep \in 1..TriggerSyncStep
      /\ S \in Nat \ {0} /\ m \in Nat \ {0}
  BY AgeTypes, Sizes
<1>2. s \in Samples /\ u \in Nat
  BY AgeTypes DEF SamplesOf
<1>3. PICK i \in 1..Len(batch) : s = batch[i]
  BY DEF SamplesOf
<1>4. Consumed - Len(batch) + i <= Versions(u + 2) + m
  BY <1>3 DEF AgeInv, BatchAges, Window
<1>5. Consumed = Versions(t) + Steps(localStep) + Len(batch) /\ Versions(t) \in Nat /\ Steps(localStep) \in Nat
  BY <1>1, VersionLaws, StepLaws DEF Consumed
<1>6. Versions(t) = t * S /\ Versions(u + 2) = (u + 2) * S
  BY DEF Versions
<1>7. /\ t * S \in Nat /\ (u + 2) * S \in Nat /\ (t - u - 2) * S = t * S - (u + 2) * S
      /\ t - u - 2 \in Int /\ m - 1 \in Nat
  <2> HIDE DEF S, m, t, u
  <2>1. t \in Nat /\ u \in Nat /\ S \in Nat /\ m \in Nat \ {0}
    BY <1>1, <1>2
  <2> QED BY <2>1
<1>8. Versions(t) + 1 <= Versions(u + 2) + m
  <2> DEFINE a == Versions(t)
             b == Versions(u + 2)
             p == Steps(localStep)
             n == Len(batch)
  <2>1. i \in Nat \ {0} /\ a \in Nat /\ p \in Nat /\ n \in Nat /\ m \in Nat /\ b \in Nat
    <3>1. u + 2 \in Nat
      BY <1>2
    <3>2. b \in Nat
      BY <3>1, VersionLaws
    <3>3. i \in Nat \ {0}
      BY <1>1, <1>3
    <3> QED BY <1>1, <1>5, <3>2, <3>3
  <2>2. a + p + n - n + i <= b + m
    BY <1>4, <1>5
  <2> HIDE DEF a, b, p, n, m
  <2>3. a + 1 <= b + m
    BY <2>1, <2>2
  <2> QED BY <2>3 DEF a, b
<1>9. (t - u - 2) * S <= m - 1
  <2> DEFINE a == t * S
             b == (u + 2) * S
  <2>1. a \in Nat /\ b \in Nat /\ m \in Nat /\ a + 1 <= b + m /\ (t - u - 2) * S = a - b
    BY <1>1, <1>6, <1>7, <1>8
  <2> HIDE DEF a, b, m
  <2>2. a - b <= m - 1
    BY <2>1
  <2> QED BY <2>1, <2>2
<1> HIDE DEF S, m, t, u
<1>10. t - u - 2 <= (m - 1) \div S
  BY <1>1, <1>7, <1>9, QuotientBounds
<1>11. (m - 1) \div S \in Int
  BY <1>1, <1>7
<1>12. t - u <= (m - 1) \div S + 2
  BY <1>1, <1>2, <1>10, <1>11
<1> QED BY <1>12 DEF S, m, t, u

-----------------------------------------------------------------------------
(* A staleness threshold of less than one sample: the limit of the samples under way is what the     *)
(* trainer takes for one version.                                                                    *)

NoSlack == MaxRequiredSamples = SamplesPerVersion

\* From a new version until the counter starts anew, what the trainer takes for a version is taken.
Moving == {"updateCall", "updating", "sizing", "sized"}
Waiting == trainer \in {"waitValid", "pause", "transfer"} \/ sync \in Moving
Progress == Steps(localStep) + Len(batch)
Taken == IF Waiting THEN MaxRequiredSamples ELSE Progress

\* A sample that has its stamp and is not trained on yet.
Stamped(s) == task[s] = "putting" \/ s \in SamplesOf(queue) \/ s \in SamplesOf(batch)

\* The counter covers what was taken for this version and what is under way, and stays in the limit.
LimitInv ==
    /\ ~stopping => Taken + Cardinality(Held) <= staleness /\ staleness <= MaxRequiredSamples
    /\ ~stopping /\ processor = "get" => staleness < MaxRequiredSamples
    /\ stopping => Over
    /\ Cardinality(Held) <= MaxRequiredSamples
    /\ ~stopping /\ sync = "sized" => syncSum <= MaxRequiredSamples
    /\ ~stopping /\ sync \in Moving => trainer \in {"log", "collect"} /\ localStep = 1 /\ batch = <<>>

\* No task is left from pause to the new version, so nothing is counted then but what the queue holds.
QuietInv ==
    /\ sync \in Early => Live = {} /\ finishedTasks = 0
    /\ ~stopping /\ sync = "sizing" => syncSum = 0

\* What will be trained on has the trainer's version.
PolicyInv == ~stopping => \A s \in Samples : Stamped(s) => stamp[s] = trainerVersion

FreshInv == LimitInv /\ QuietInv /\ PolicyInv

\* Without staleness there is no slack.
LEMMA WithoutStaleness == StalenessNum = 0 => NoSlack
<1> DEFINE S == SamplesPerVersion
           d == StalenessDen
<1>1. S \in Nat \ {0} /\ d \in Nat \ {0} /\ RequiredSamples \in Nat /\ TriggerSyncStep \in Nat
  BY Sizes, RolloutAssumption
<1>2. ASSUME StalenessNum = 0 PROVE MaxRequiredSamples = (S * d) \div d
  <2>1. \A a, b, c \in Nat : a * (0 + b) * c = (a * c) * b
    OBVIOUS
  <2>2. RequiredSamples * (StalenessNum + d) * TriggerSyncStep = S * d
    BY <1>1, <1>2, <2>1 DEF SamplesPerVersion
  <2> QED BY <2>2 DEF MaxRequiredSamples
<1>3. \A a \in Nat, b \in Nat \ {0} : (a * b) \div b = a
  <2> SUFFICES ASSUME NEW a \in Nat, NEW b \in Nat \ {0} PROVE (a * b) \div b = a
    OBVIOUS
  <2> DEFINE q == (a * b) \div b
             r == (a * b) % b
  <2>1. q \in Int /\ r \in 0..(b - 1) /\ a * b = b * q + r
    <3>1. a * b \in Nat
      OBVIOUS
    <3> QED BY <3>1
  <2> HIDE DEF q, r
  <2>2. b * (a - q) = r
    BY <2>1
  <2>3. a - q = 0
    BY <2>1, <2>2
  <2> QED BY <2>1, <2>3 DEF q
<1> QED BY <1>1, <1>2, <1>3 DEF NoSlack

-----------------------------------------------------------------------------
(* Steps. *)

\* Of the set Moving only these two steps are the ends.
LEMMA MovingSteps ==
  ASSUME [Next]_vars
  PROVE  (sync' \in Moving <=> sync \in Moving) \/ UpdateResets \/ TransferEnds
<1>1. CASE Sync
  BY <1>1 DEF Sync, CallLocks, PauseBegins, PauseGathers, Gathers, PauseEnds, UpdateBegins,
      UpdateEnds, ResumeAsksServers, ResumeEnds, SyncOwns, SyncGoes, Moving
<1>2. CASE SyncEnvironment
  BY <1>2 DEF SyncEnvironment, ServersCancel, ServersResume, QueueSizes, QueueTakesValidate, SyncArrives, SyncOutside,
      Moving
<1>3. CASE RollNext /\ ~Sync /\ ~SyncEnvironment
  <2>1. sync' = sync
    BY <1>3 DEF RollNext, LoopRuns, FeederPuts, FeederEnds, FeederDoes, Processor, TaskSteps, Monitor, Main, MainOnly,
        TaskEnvironment, ServersTake, ServersAnswer, QueueTakes, QueueAnswers, ServersFail, TaskOutside,
        MonitorTimer, QueueTakesNone, syncVars
  <2> QED BY <2>1
<1>4. CASE TrainNext \/ RunnerEnds \/ Terminated \/ UNCHANGED vars
  BY <1>4 DEF TrainNext, CollectWaits, CollectTakes, CollectStops, Trains, CallsPause, TransferBegins,
      Logs, Finishes, FinishesSync, SyncIdle, RunnerEnds, Terminated, vars, rollVars, syncVars, Moving
<1> QED BY <1>1, <1>2, <1>3, <1>4 DEF Next

\* Only a task that ends adds to the finished ones.
LEMMA FinishedMoves ==
  ASSUME [Next]_vars
  PROVE  finishedTasks' \in {finishedTasks, 0} \/ \E s \in Live : TaskEnds(s)
<1>1. CASE FeederPuts \/ FeederEnds \/ Monitor \/ MonitorTimer \/ Main \/ QueueTakesNone
  BY <1>1 DEF FeederPuts, FeederEnds, FeederDoes, Monitor, MonitorTimer, Main, MainOnly, QueueTakesNone, taskVars
<1>2. CASE Processor
  BY <1>2 DEF Processor, ProcessorSeesPause, ProcessorPauses, ProcessorTakesCancelled, ProcessorAsksPending,
      ProcessorGets, ProcessorDrains, ProcessorDrained, ProcessorAwaitsTask, ProcessorFindsNoTask, ProcessorReaps,
      ProcessorSleeps, ProcessorWakes, ProcessorLeavesPause, ProcessorSubmits, ProcessorGoes, taskVars
<1>3. CASE TaskSteps
  BY <1>3 DEF TaskSteps, TaskStarts, TaskSends, TaskEnds, Live
<1>4. CASE Sync
  BY <1>4 DEF Sync, CallLocks, SyncGoes, PauseBegins, PauseGathers, Gathers, PauseEnds, UpdateBegins, UpdateResets,
      UpdateEnds, ResumeAsksServers, ResumeEnds
<1>5. CASE SyncEnvironment
  BY <1>5 DEF SyncEnvironment, ServersCancel, ServersResume, QueueSizes, QueueTakesValidate, SyncArrives, SyncOutside,
      taskVars
<1>6. CASE TaskEnvironment \/ (\E s \in Samples : ServersFail(s))
  BY <1>6 DEF TaskEnvironment, ServersTake, ServersAnswer, QueueTakes, QueueAnswers, ServersFail, TaskOutside
<1>7. CASE TrainNext \/ RunnerEnds \/ Terminated \/ UNCHANGED vars
  BY <1>7 DEF TrainNext, CollectWaits, CollectTakes, CollectStops, Trains, CallsPause, TransferBegins, TransferEnds,
      Logs, Finishes, FinishesSync, RollouterButSync, RunnerEnds, Terminated, vars, rollVars, taskVars
<1> QED BY <1>1, <1>2, <1>3, <1>4, <1>5, <1>6, <1>7 DEF Next, RollNext, LoopRuns

\* If nothing is under way, nothing is anywhere.
LEMMA NothingHeld ==
  ASSUME SamplesInv, Cardinality(Held) = 0
  PROVE  hand \notin Samples /\ InTask = {} /\ Len(cancelQueue) = 0 /\ SamplesOf(queue) = {}
<1> DEFINE A == InTask \cup ({hand} \cap Samples)
<1>1. IsFiniteSet(A) /\ Cardinality(A) \in Nat
  BY Numbers, FS_Subset, FS_CardinalityType DEF InTask
<1>2. queue \in Seq(Items) /\ cancelQueue \in Seq(Samples)
  BY Known DEF TypeOK, MQTypeOK, RollTypeOK
<1>3. IsFiniteSet(SamplesOf(queue)) /\ Cardinality(SamplesOf(queue)) \in Nat /\ Len(cancelQueue) \in Nat
  BY <1>2, HeldInSequence
<1>4. Cardinality(A) + Len(cancelQueue) + Cardinality(SamplesOf(queue)) = 0
  BY HeldIsOutstanding DEF Outstanding
<1>5. Cardinality(A) = 0 /\ Len(cancelQueue) = 0 /\ Cardinality(SamplesOf(queue)) = 0
  <2> HIDE DEF A
  <2> QED BY <1>1, <1>3, <1>4
<1>6. A = {} /\ SamplesOf(queue) = {}
  BY <1>1, <1>3, <1>5, FS_EmptySet
<1> QED BY <1>5, <1>6

\* A sample that is fetched is under way no longer.
LEMMA FetchedLeaves ==
  ASSUME SamplesInv, SamplesInv', [Next]_vars, CollectTakes
  PROVE  Cardinality(Held)' \in Nat /\ Cardinality(Held)' + 1 <= Cardinality(Held)
<1>1. /\ queue \in Seq(Items) /\ batch \in Seq(Samples) /\ fed \in Nat /\ pendingQueue \in Seq(Samples \cup {Done})
      /\ batch' \in Seq(Samples) /\ PlacesAre /\ PlacesAre' /\ TypeOK
  BY Known, KnownNext, AgeTypes, AgeTypesNext DEF TypeOK, RollTypeOK
<1>2. queue # <<>> /\ Head(queue) # None /\ batch' = Append(batch, Head(queue)) /\ UNCHANGED rollVars
  BY DEF CollectTakes, GetSampleReturns
<1>3. PICK x \in Samples : x = Head(queue) /\ x \in SamplesOf(queue) /\ x \in Nat
  <2>1. Head(queue) \in Items /\ Head(queue) = queue[1] /\ 1 \in 1..Len(queue)
    BY <1>1, <1>2, HeadTailProperties, EmptySeq
  <2>2. Head(queue) \in Samples
    BY <1>2, <2>1 DEF Items
  <2> QED BY <2>1, <2>2, Numbers DEF SamplesOf
<1>4. x \in SamplesOf(batch')
  <2>1. Len(batch') = Len(batch) + 1 /\ batch'[Len(batch) + 1] = x /\ Len(batch) \in Nat
    BY <1>1, <1>2, <1>3, AppendProperties
  <2>2. Len(batch) + 1 \in 1..Len(batch')
    BY <2>1
  <2> QED BY <1>3, <2>1, <2>2 DEF SamplesOf
<1>5. x \in Held
  <2>1. Occurrences(x, queue) > 0 /\ (Occurrences(x, pendingQueue) > 0 <=> x \in SamplesOf(pendingQueue))
    BY <1>1, <1>3, InSamplesOf
  <2>2. OnePlace(x) /\ place[x] = PlaceOf(x)
    BY <1>1, <1>3 DEF PlacesAre
  <2>3. ~(x > fed) /\ Made(x) = 0 /\ place[x] = "queue"
    BY <1>1, <1>3, <2>1, <2>2 DEF OnePlace, PlaceOf
  <2>4. Occurrences(x, pendingQueue) = 0
    <3>1. /\ Occurrences(x, pendingQueue) \in Nat /\ Occurrences(x, cancelQueue) \in Nat
          /\ InSet(x, {hand}) \in {0, 1} /\ InSet(x, InTask) \in {0, 1}
      BY <1>1, CopyTypes
    <3> QED BY <2>3, <3>1 DEF Made
  <2> QED BY <1>3, <2>1, <2>3, <2>4 DEF Held
<1>6. x \notin Held'
  <2>1. Occurrences(x, batch') > 0
    BY <1>1, <1>3, <1>4, InSamplesOf
  <2>2. OnePlace(x)' /\ place'[x] = PlaceOf(x)' /\ fed' = fed
    BY <1>1, <1>2, <1>3 DEF PlacesAre, rollVars, feedVars
  <2>3. place'[x] \notin {"rollout", "queue"}
    BY <1>1, <1>3, <2>1, <2>2 DEF OnePlace, PlaceOf
  <2> QED BY <2>3 DEF Held
<1>7. Held' \subseteq Held \ {x}
  <2>1. ~ProcessorGets
    BY <1>2 DEF ProcessorGets, ProcessorAt, rollVars, procVars
  <2> QED BY <1>6, <2>1, HeldSteps
<1>8. Cardinality(Held \ {x}) = Cardinality(Held) - 1 /\ IsFiniteSet(Held \ {x})
  BY <1>5, HeldFinite, FS_RemoveElement
<1>9. IsFiniteSet(Held') /\ Cardinality(Held') <= Cardinality(Held \ {x})
  BY <1>7, <1>8, FS_Subset
<1>10. Cardinality(Held') \in Nat /\ Cardinality(Held) \in Nat
  BY <1>9, HeldFinite, FS_CardinalityType
<1> QED BY <1>8, <1>9, <1>10

\* A sample has its stamp already, or a task that has its answer sets it.
LEMMA StampedFrom ==
  ASSUME SamplesInv, SInv, QueueFits, [Next]_vars, ~stopping', NEW s \in Samples,
         task'[s] = "putting" \/ s \in SamplesOf(queue') \/ s \in SamplesOf(batch')
  PROVE  Stamps(s) \/ (Stamped(s) /\ stamp'[s] = stamp[s])
<1>1. /\ TypeOK /\ queue \in Seq(Items) /\ Len(queue) \in Nat /\ batch \in Seq(Samples) /\ Len(batch) \in Nat
      /\ None \notin Samples
  BY AgeTypes, Known, NoneAssumption
<1>2. CASE task'[s] = "putting"
  <2>1. ASSUME NEW t \in Samples, Stamps(t), t # s PROVE task[s] = "putting" /\ stamp'[s] = stamp[s]
    <3>1. task \in [Samples -> {"none", "created", "requested", "generating", "refused", "answered",
                            "cancelled", "failed", "putting", "put"}] /\ stamp \in [Samples -> Nat]
      BY <1>1 DEF TypeOK, RollTypeOK
    <3> QED BY <1>2, <2>1, <3>1 DEF Stamps, TaskSends, TaskGoes
  <2> QED BY <1>1, <1>2, <2>1, StampMoves DEF Stamped
<1>3. ASSUME s \in SamplesOf(queue) \cup SamplesOf(batch) PROVE Stamped(s) /\ stamp'[s] = stamp[s]
  BY <1>3, StampStays DEF Stamped
<1>4. ASSUME NEW j \in 1..Len(queue), s = queue[j] PROVE Stamped(s) /\ stamp'[s] = stamp[s]
  BY <1>3, <1>4 DEF SamplesOf
<1>5. CASE s \in SamplesOf(queue')
  <2>1. PICK i \in 1..Len(queue') : s = queue'[i]
    BY <1>5 DEF SamplesOf
  <2>2. CASE ~Puts
    BY <1>4, <2>1, <2>2, PlacesDecrease
  <2>3. CASE Puts
    <3>1. PICK item : PutSample(item) /\ (item = None \/ (item \in Samples /\ task[item] = "putting" /\ stamp' = stamp))
      BY <2>3 DEF Puts, QueueTakesNone, QueueTakes, TaskOutside, MainOnly, taskVars
    <3>2. /\ Len(queue') \in Nat \ {0} /\ queue'[Len(queue')] = item
          /\ \A k \in 1..(Len(queue') - 1) : \E j \in 1..Len(queue) : k <= j /\ queue'[k] = queue[j]
      BY <3>1, PutMoves
    <3>3. CASE i = Len(queue')
      BY <1>1, <2>1, <3>1, <3>2, <3>3 DEF Stamped
    <3>4. CASE i # Len(queue')
      <4>1. i \in 1..(Len(queue') - 1)
        BY <3>2, <3>4
      <4> QED BY <1>4, <2>1, <3>2, <4>1
    <3> QED BY <3>3, <3>4
  <2> QED BY <2>2, <2>3
<1>6. CASE s \in SamplesOf(batch')
  <2>1. PICK i \in 1..Len(batch') : s = batch'[i]
    BY <1>6 DEF SamplesOf
  <2>2. CASE batch' \in {batch, <<>>}
    <3>1. batch' = batch
      BY <2>1, <2>2
    <3> QED BY <1>3, <1>6, <3>1
  <2>3. CASE CollectTakes
    <3>1. queue # <<>> /\ batch' = Append(batch, Head(queue)) /\ Head(queue) # None
      BY <2>3 DEF CollectTakes, GetSampleReturns
    <3>2. Head(queue) = queue[1] /\ 1 \in 1..Len(queue) /\ Head(queue) \in Samples
      BY <1>1, <3>1, HeadTailProperties, EmptySeq DEF Items
    <3>3. Len(batch') = Len(batch) + 1 /\ batch'[Len(batch) + 1] = Head(queue)
          /\ \A k \in 1..Len(batch) : batch'[k] = batch[k]
      BY <1>1, <3>1, <3>2, AppendProperties
    <3>4. CASE i = Len(batch) + 1
      BY <1>4, <2>1, <3>2, <3>3, <3>4
    <3>5. CASE i \in 1..Len(batch)
      <4>1. s = batch[i]
        BY <2>1, <3>3, <3>5
      <4>2. s \in SamplesOf(batch)
        BY <3>5, <4>1 DEF SamplesOf
      <4> QED BY <1>3, <4>2
    <3> QED BY <1>1, <2>1, <3>3, <3>4, <3>5
  <2> QED BY <2>2, <2>3, ConsumedMoves
<1> QED BY <1>2, <1>5, <1>6

\* The signal reaches the trainer only when the processor is over, and over it stays.
LEMMA StopsOver ==
  ASSUME EndInv, stopping => Over, [Next]_vars
  PROVE  stopping' => Over'
<1>1. Over => Over'
  <2>1. CASE UNCHANGED procVars
    BY <2>1 DEF procVars, Over
  <2>2. CASE Processor
    BY <2>2 DEF Processor, ProcessorSeesPause, ProcessorPauses, ProcessorTakesCancelled, ProcessorAsksPending,
        ProcessorGets, ProcessorDrains, ProcessorDrained, ProcessorAwaitsTask, ProcessorFindsNoTask, ProcessorReaps,
        ProcessorSleeps, ProcessorWakes, ProcessorLeavesPause, ProcessorSubmits, ProcessorAt, ProcessorOwns,
        ProcessorWaits, Over
  <2> QED BY <2>1, <2>2, ProcMoves
<1>2. CASE stopping' = stopping
  BY <1>1, <1>2
<1>3. CASE CollectStops
  <2>1. queue # <<>> /\ Head(queue) = None /\ UNCHANGED procVars
    BY <1>3 DEF CollectStops, GetSampleReturns, rollVars
  <2>2. queue \in Seq(Items) /\ SignalInv /\ Settled
    BY FateKnown DEF EndInv, FateInv
  <2>3. Signals > 0 /\ Signals \in Nat
    BY <2>1, <2>2, HeadOccurs, FateKnown DEF Signals, EndInv, FateInv
  <2>4. Signalled
    BY <2>2, <2>3 DEF SignalInv
  <2>5. Over
    BY <2>2, <2>4 DEF Settled, Signalled
  <2> QED BY <1>1, <2>5
<1>4. CASE UNCHANGED trainVars
  BY <1>2, <1>4 DEF trainVars
<1>5. CASE CollectWaits \/ CollectTakes \/ Trains \/ CallsPause \/ TransferBegins \/ TransferEnds \/ Logs \/ Finishes
           \/ FinishesSync
  BY <1>2, <1>5 DEF CollectWaits, CollectTakes, Trains, CallsPause, TransferBegins, TransferEnds, TrainerGoes, Logs,
      Finishes, FinishesSync, trainVars
<1> QED BY <1>3, <1>4, <1>5 DEF Next, TrainNext, Others, RunnerEnds, Terminated, vars

\* While it waits, the counter is at the limit and nothing is under way.
LEMMA NothingWhileWaiting ==
  ASSUME SamplesInv, LimitInv, ~stopping, Waiting
  PROVE  Cardinality(Held) = 0 /\ staleness = MaxRequiredSamples
<1> DEFINE h == Cardinality(Held)
           m == MaxRequiredSamples
<1>1. h \in Nat /\ m \in Nat /\ staleness \in Nat
  BY HeldFinite, Sizes, Known DEF TypeOK, RollTypeOK
<1>2. m + h <= staleness /\ staleness <= m
  BY DEF LimitInv, Taken
<1> HIDE DEF h, m
<1>3. h = 0 /\ staleness = m
  BY <1>1, <1>2
<1> QED BY <1>3 DEF h, m

\* What is taken for a version grows with each sample fetched, until the counter starts anew.
LEMMA TakenMoves ==
  ASSUME NoSlack, SamplesInv, SamplesInv', SInv, AgeInv, LimitInv, [Next]_vars, ~stopping'
  PROVE  /\ ~stopping /\ Taken \in Nat
         /\ \/ UpdateResets /\ Waiting /\ Taken' = 0
            \/ ~UpdateResets /\ Taken' = Taken
            \/ ~UpdateResets /\ CollectTakes /\ ~Waiting /\ Taken' = Taken + 1
<1>1. /\ batch \in Seq(Samples) /\ Len(batch) \in Nat /\ localStep \in 1..TriggerSyncStep
      /\ (trainer = "train" => Len(batch) = RequiredSamples) /\ RequiredSamples \in Nat /\ MaxRequiredSamples \in Nat
  BY AgeTypes, Sizes
<1>2. /\ Steps(localStep) \in Nat /\ Steps(1) = 0 /\ Steps(localStep + 1) = Steps(localStep) + RequiredSamples
      /\ (localStep >= TriggerSyncStep => Steps(localStep) + RequiredSamples = MaxRequiredSamples)
  BY <1>1, StepLaws DEF NoSlack
<1> HIDE DEF MaxRequiredSamples
<1>3. ~stopping
  BY ConsumedMoves
<1>4. sync \in Moving => trainer \in {"log", "collect"} /\ localStep = 1 /\ batch = <<>>
  BY <1>3 DEF LimitInv
<1>5. Taken \in Nat
  BY <1>1, <1>2 DEF Taken, Progress
<1>6. CASE UpdateResets
  <2>1. sync = "sized" /\ sync' = "validating"
    BY <1>6 DEF UpdateResets, SyncOwns
  <2>2. UNCHANGED trainVars
    BY <2>1 DEF Next, Others, TrainNext, CollectWaits, CollectTakes, CollectStops, Trains, CallsPause, TransferBegins,
        TransferEnds, Logs, Finishes, FinishesSync, RunnerEnds, Terminated, vars, rollVars, syncVars
  <2>3. Waiting /\ trainer \in {"log", "collect"} /\ localStep = 1 /\ batch = <<>>
    BY <1>4, <2>1 DEF Moving, Waiting
  <2>4. ~Waiting' /\ localStep' = 1 /\ batch' = <<>>
    BY <2>1, <2>2, <2>3 DEF Waiting, Moving, trainVars
  <2>5. Progress' = Steps(1) + Len(<<>>)
    BY <2>4 DEF Progress
  <2>6. Len(<<>>) = 0
    OBVIOUS
  <2>7. Taken' = 0
    BY <1>2, <2>4, <2>5, <2>6 DEF Taken
  <2> QED BY <1>3, <1>5, <1>6, <2>3, <2>7
<1>7. CASE ~UpdateResets /\ UNCHANGED trainVars
  <2>1. Progress' = Progress
    BY <1>7 DEF trainVars, Progress
  <2>2. ~TransferEnds
    BY <1>7 DEF TransferEnds, TrainerGoes, trainVars
  <2>3. Waiting' <=> Waiting
    BY <1>7, <2>2, MovingSteps DEF Waiting, trainVars
  <2> QED BY <1>3, <1>5, <1>7, <2>1, <2>3 DEF Taken
<1>8. CASE CollectTakes
  <2>1. Cardinality(Held) # 0
    BY <1>8, FetchedLeaves, HeldFinite
  <2>2. ~Waiting
    BY <1>3, <2>1, NothingWhileWaiting
  <2>3. ~Waiting' /\ localStep' = localStep /\ sync' = sync
    BY <1>8, <2>2 DEF CollectTakes, rollVars, syncVars, Waiting
  <2>4. Len(batch') = Len(batch) + 1
    <3>1. queue # <<>> /\ Head(queue) # None /\ queue \in Seq(Items) /\ batch' = Append(batch, Head(queue))
      BY <1>8, AgeTypes DEF CollectTakes, GetSampleReturns
    <3>2. Head(queue) \in Samples
      BY <3>1, HeadTailProperties DEF Items
    <3> QED BY <1>1, <3>1, <3>2, AppendProperties
  <2>5. Progress' = Steps(localStep) + Len(batch')
    BY <2>3 DEF Progress
  <2>6. Taken' = Taken + 1
    BY <1>1, <1>2, <2>2, <2>3, <2>4, <2>5 DEF Taken, Progress
  <2>7. ~UpdateResets
    BY <2>3 DEF UpdateResets, SyncOwns
  <2> QED BY <1>3, <1>5, <1>8, <2>2, <2>6, <2>7
<1>9. CASE Trains
  <2>1. trainer = "train" /\ batch' = <<>> /\ Len(<<>>) = 0 /\ sync' = sync /\ ~UpdateResets
    BY <1>9 DEF Trains, rollVars, syncVars, UpdateResets, SyncOwns
  <2>2. ~Waiting /\ sync \notin Moving
    BY <1>4, <2>1 DEF Waiting
  <2>3. Taken = Steps(localStep) + RequiredSamples
    BY <1>1, <2>1, <2>2 DEF Taken, Progress
  <2>4. CASE localStep' = localStep + 1 /\ trainer' = "log"
    <3>1. ~Waiting' /\ Progress' = Steps(localStep + 1) + 0
      BY <2>1, <2>2, <2>4 DEF Waiting, Progress
    <3> QED BY <1>1, <1>2, <1>3, <1>5, <2>1, <2>3, <3>1 DEF Taken
  <2>5. CASE localStep >= TriggerSyncStep /\ trainer' = "waitValid"
    <3>1. Waiting'
      BY <2>5 DEF Waiting
    <3>2. Taken' = MaxRequiredSamples
      BY <3>1 DEF Taken
    <3> QED BY <1>2, <1>3, <1>5, <2>1, <2>3, <2>5, <3>2
  <2> QED BY <1>9, <2>4, <2>5 DEF Trains
<1>10. CASE CallsPause \/ TransferBegins \/ TransferEnds
  <2>1. Waiting /\ Waiting' /\ ~UpdateResets
    BY <1>10 DEF CallsPause, TransferBegins, TransferEnds, TrainerGoes, rollVars, syncVars, Waiting, Moving,
        UpdateResets, SyncOwns
  <2>2. Taken' = Taken
    BY <2>1 DEF Taken
  <2> QED BY <1>3, <1>5, <2>1, <2>2
<1>11. CASE Logs
  <2>1. /\ trainer = "log" /\ trainer' = "collect" /\ UNCHANGED <<sync, batch, localStep>> /\ ~UpdateResets
    BY <1>11 DEF Logs, rollVars, syncVars, UpdateResets, SyncOwns
  <2>2. (Waiting' <=> Waiting) /\ Progress' = Progress
    BY <2>1 DEF Waiting, Progress
  <2> QED BY <1>3, <1>5, <2>1, <2>2 DEF Taken
<1>12. CASE CollectStops \/ Finishes \/ FinishesSync
  BY <1>3, <1>12 DEF CollectStops, Finishes, FinishesSync, SInv, Validated
<1>13. CASE CollectWaits
  BY <1>6, <1>7, <1>13 DEF CollectWaits
<1> QED BY <1>6, <1>7, <1>8, <1>9, <1>10, <1>11, <1>12, <1>13
       DEF Next, TrainNext, Others, RunnerEnds, Terminated, vars

\* The handler's steps and the processor's exclude one another: one of them runs.
LEMMA OneRuns == UpdateResets => ~ProcessorGets /\ ~ProcessorAsksPending
  BY DEF UpdateResets, SyncOwns, Owns, ProcessorGets, ProcessorAsksPending, ProcessorAt, Runs, Proc, Handler

LEMMA LimitNext ==
  ASSUME NoSlack, SamplesInv', EndInv, AgeInv, FreshInv, [Next]_vars
  PROVE  LimitInv'
<1>0. SamplesInv /\ SInv /\ LimitInv /\ QuietInv
  BY DEF EndInv, FateInv, FreshInv
<1> DEFINE h == Cardinality(Held)
           m == MaxRequiredSamples
<1>1. /\ {h, h', m, staleness, staleness', syncSum, Len(queue)} \subseteq Nat
      /\ h' <= h + 1 /\ (~ProcessorGets => h' <= h)
  BY <1>0, HeldFinite, HeldCounted, SumCovers, Known, KnownNext, Numbers DEF TypeOK, RollTypeOK
<1>2. /\ ~stopping => Taken + h <= staleness /\ staleness <= m
      /\ ~stopping /\ processor = "get" => staleness < m
      /\ stopping => Over
      /\ h <= m
      /\ ~stopping /\ sync = "sized" => syncSum <= m
      /\ ~stopping /\ sync \in Moving => trainer \in {"log", "collect"} /\ localStep = 1 /\ batch = <<>>
  BY <1>0 DEF LimitInv
<1>3. CounterSteps
  BY CounterMoves
<1>4. ProcessorGets => processor = "get" /\ staleness' = staleness + 1 /\ processor' = "drain"
  BY DEF ProcessorGets, ProcessorAt
<1>5. UpdateResets => sync = "sized" /\ staleness' = syncSum
  BY DEF UpdateResets, SyncOwns
<1>6. ProcessorAsksPending => staleness < m
  <2>1. ProcessorAsksPending => ~(staleness >= m)
    BY DEF ProcessorAsksPending, ShouldPause
  <2> HIDE DEF h, m
  <2> QED BY <1>1, <2>1
<1>7. CollectTakes => h' + 1 <= h /\ ~ProcessorGets
  <2>1. CollectTakes => ~ProcessorGets
    BY DEF CollectTakes, ProcessorGets, ProcessorAt, rollVars, procVars
  <2> QED BY <1>0, <2>1, FetchedLeaves
<1>8. sync = "sizing" /\ ~stopping => syncSum = 0
  BY <1>0 DEF QuietInv
<1>9. Len(queue) <= m
  BY Sizes DEF AgeInv, QueueFits
<1>10. Waiting /\ ~stopping => h = 0 /\ staleness = m
  BY <1>0, NothingWhileWaiting
<1>11. ~stopping' => /\ ~stopping /\ Taken \in Nat
                     /\ \/ UpdateResets /\ Waiting /\ Taken' = 0
                        \/ ~UpdateResets /\ Taken' = Taken
                        \/ ~UpdateResets /\ CollectTakes /\ ~Waiting /\ Taken' = Taken + 1
  BY <1>0, TakenMoves
<1>12. stopping' => Over'
  BY <1>2, StopsOver
<1> HIDE DEF h, m
<1>13. ASSUME ~stopping' PROVE Taken' + h' <= staleness' /\ staleness' <= m
  <2>0. Taken + h <= staleness /\ staleness <= m /\ ~stopping
    BY <1>2, <1>11, <1>13
  <2>1. CASE ProcessorGets
    <3>1. staleness' = staleness + 1 /\ staleness < m /\ Taken' = Taken /\ h' <= h + 1
      BY <1>1, <1>2, <1>4, <1>7, <1>11, <1>13, <2>0, <2>1, OneRuns
    <3> QED BY <1>1, <1>11, <1>13, <2>0, <3>1
  <2>2. CASE UpdateResets
    <3>1. h = 0 /\ h' <= h /\ Taken' = 0 /\ staleness' = syncSum /\ syncSum <= m
      BY <1>1, <1>2, <1>5, <1>10, <1>11, <1>13, <2>0, <2>2, OneRuns
    <3> QED BY <1>1, <3>1
  <2>3. CASE ~ProcessorGets /\ ~UpdateResets
    <3>1. staleness' = staleness
      BY <1>3, <2>3 DEF CounterSteps
    <3>2. CASE Taken' = Taken
      BY <1>1, <1>11, <1>13, <2>0, <2>3, <3>1, <3>2
    <3>3. CASE CollectTakes /\ Taken' = Taken + 1
      BY <1>1, <1>7, <1>11, <1>13, <2>0, <3>1, <3>3
    <3> QED BY <1>11, <1>13, <2>3, <3>2, <3>3
  <2> QED BY <2>1, <2>2, <2>3
<1>14. ASSUME ~stopping', processor' = "get" PROVE staleness' < m
  <2>1. ~ProcessorGets /\ ~stopping
    BY <1>4, <1>11, <1>14
  <2>2. processor = "get" \/ ProcessorAsksPending
    BY <1>3, <1>14 DEF CounterSteps
  <2>3. staleness < m
    BY <1>2, <1>6, <2>1, <2>2
  <2>4. ~UpdateResets
    <3>1. UpdateResets => staleness = m /\ m \in Nat
      BY <1>1, <1>10, <1>11, <1>14
    <3> QED BY <2>3, <3>1
  <2> QED BY <1>3, <2>1, <2>3, <2>4 DEF CounterSteps
<1>15. h' <= m
  <2>1. CASE ~stopping'
    <3>1. Taken' \in Nat
      BY <1>11, <2>1
    <3> QED BY <1>1, <1>13, <2>1, <3>1
  <2>2. CASE stopping' /\ ProcessorGets
    BY <1>4, <1>12, <2>2 DEF Over
  <2>3. CASE ~ProcessorGets
    BY <1>1, <1>2, <2>3
  <2> QED BY <2>1, <2>2, <2>3
<1>16. ASSUME ~stopping', sync' = "sized" PROVE syncSum' <= m
  <2>1. CASE UNCHANGED <<sync, syncSum>>
    BY <1>2, <1>11, <1>16, <2>1
  <2>2. CASE QueueSizes
    <3>1. sync = "sizing" /\ syncSum' = syncSum + Len(queue)
      BY <2>2 DEF QueueSizes, SumEnded
    <3> QED BY <1>1, <1>8, <1>9, <1>11, <1>16, <3>1
  <2> QED BY <1>3, <1>16, <2>1, <2>2 DEF CounterSteps
<1>17. ASSUME ~stopping', sync' \in Moving PROVE trainer' \in {"log", "collect"} /\ localStep' = 1 /\ batch' = <<>>
  <2>1. CASE TransferEnds
    <3>1. trainer = "transfer" /\ trainer' = "log" /\ localStep' = localStep /\ batch' = batch
      BY <1>11, <1>17, <2>1 DEF TransferEnds, TrainerGoes
    <3> QED BY <1>0, <1>11, <1>17, <3>1 DEF SInv, Saved, AgeInv, BatchGone
  <2>2. CASE ~TransferEnds
    <3>1. sync \in Moving
      <4>1. UpdateResets => sync' \notin Moving
        BY DEF UpdateResets, Moving
      <4> QED BY <1>17, <2>2, <4>1, MovingSteps
    <3>2. Waiting /\ trainer \in {"log", "collect"} /\ localStep = 1 /\ batch = <<>>
      BY <1>2, <1>11, <1>17, <3>1 DEF Waiting
    <3>3. ~CollectTakes
      <4>1. h = 0
        BY <1>10, <1>11, <1>17, <3>2
      <4> QED BY <1>1, <1>7, <4>1
    <3>4. CASE TrainNext
      BY <1>17, <2>2, <3>2, <3>3, <3>4 DEF TrainNext, CollectWaits, CollectStops, Trains, CallsPause, TransferBegins, Logs,
          Finishes, FinishesSync, trainVars
    <3>5. CASE UNCHANGED trainVars
      BY <3>2, <3>5 DEF trainVars
    <3> QED BY <3>4, <3>5 DEF Next, Others, RunnerEnds, Terminated, vars
  <2> QED BY <2>1, <2>2
<1>18. m' = m
  BY DEF m
<1> QED BY <1>12, <1>13, <1>14, <1>15, <1>16, <1>17, <1>18 DEF LimitInv, h, m

LEMMA QuietNext ==
  ASSUME SamplesInv', EndInv, FreshInv, [Next]_vars, ~stopping' => ~stopping
  PROVE  QuietInv'
<1>1. SamplesInv /\ SInv /\ LimitInv /\ QuietInv /\ TypeOK /\ RollInv
  BY Known DEF EndInv, FateInv, FreshInv
<1>2. CASE sync \in Early
  <2>1. Live = {} /\ finishedTasks = 0
    BY <1>1, <1>2 DEF QuietInv
  <2>2. ~ProcessorSubmits
    <3>1. CASE stopping
      BY <1>1, <3>1 DEF LimitInv, Over, ProcessorSubmits, ProcessorOwns
    <3>2. CASE ~stopping
      <4>1. Waiting
        BY <1>1, <1>2 DEF SInv, Handed, InPause, Early, Waiting, Moving
      <4>2. hand \notin Samples
        BY <1>1, <3>2, <4>1, NothingWhileWaiting, NothingHeld
      <4>3. ProcessorSubmits => hand \in Samples
        BY <1>1 DEF RollInv, HandInv, Holding, ProcessorSubmits, ProcessorOwns, TypeOK, RollTypeOK, Items
      <4> QED BY <4>2, <4>3
    <3> QED BY <3>1, <3>2
  <2>3. Live' = {}
    BY <1>1, <2>1, <2>2, LiveShrinks
  <2>4. finishedTasks' = 0
    BY <2>1, FinishedMoves
  <2>5. UpdateBegins /\ ~stopping => syncSum' = 0
    <3>1. UpdateBegins => syncSum' = ActiveTasks + Len(cancelQueue) /\ sync = "updating"
      BY DEF UpdateBegins, SyncOwns, SumBegun
    <3>2. ActiveTasks = 0
      <4>1. Cardinality({}) = 0
        BY FS_EmptySet
      <4> QED BY <2>1, <4>1 DEF ActiveTasks
    <3>3. UpdateBegins /\ ~stopping => Len(cancelQueue) = 0
      BY <1>1, <3>1, NothingWhileWaiting, NothingHeld DEF Waiting, Moving
    <3> QED BY <3>1, <3>2, <3>3
  <2>6. sync' = "sizing" => UpdateBegins
    BY <1>2, CounterMoves DEF CounterSteps, Early
  <2> QED BY <2>3, <2>4, <2>5, <2>6 DEF QuietInv
<1>3. CASE sync \notin Early
  <2>1. sync' \in Early => Gathers /\ Gathered /\ task' = task
    BY <1>1, <1>3, EarlyMoves
  <2>2. sync' \in Early => Live' = {} /\ finishedTasks' = 0
    BY <2>1 DEF Gathers, Gathered, Live
  <2>3. ~stopping' /\ sync' = "sizing" => syncSum' = 0
    <3>1. ~UpdateBegins
      BY <1>3 DEF UpdateBegins, SyncOwns, Early
    <3>2. sync' = "sizing" => UNCHANGED <<sync, syncSum>>
      BY <3>1, CounterMoves DEF CounterSteps
    <3> QED BY <1>1, <3>2 DEF QuietInv
  <2> QED BY <2>2, <2>3 DEF QuietInv
<1> QED BY <1>2, <1>3

\* A sample is stamped with the trainer's version, which changes only when none is stamped.
LEMMA PolicyNext ==
  ASSUME NoSlack, SamplesInv', SamplesInv, SInv, AgeInv, FreshInv, [Next]_vars
  PROVE  PolicyInv'
<1>1. SUFFICES ASSUME ~stopping', NEW s \in Samples,
                      task'[s] = "putting" \/ s \in SamplesOf(queue') \/ s \in SamplesOf(batch')
               PROVE  stamp'[s] = trainerVersion'
  BY DEF PolicyInv, Stamped, SamplesOf
<1>2. LimitInv /\ PolicyInv /\ TypeOK /\ ~stopping
  BY <1>1, Known, ConsumedMoves DEF FreshInv
<1>3. Stamps(s) \/ (Stamped(s) /\ stamp'[s] = stamp[s])
  BY <1>1, StampedFrom DEF AgeInv
<1>4. CASE trainerVersion' = trainerVersion
  <2>1. CASE Stamped(s) /\ stamp'[s] = stamp[s]
    BY <1>2, <1>4, <2>1 DEF PolicyInv
  <2>2. CASE Stamps(s)
    <3>1. s \in Held
      <4>1. s \in InTask
        BY <2>2 DEF Stamps, TaskSends, TaskAt, InTask
      <4> QED BY <4>1, NotInTask
    <3>2. Cardinality(Held) # 0
      BY <3>1, HeldFinite, FS_EmptySet
    <3>3. ~Waiting
      BY <1>2, <3>2, NothingWhileWaiting
    <3>4. version = trainerVersion
      BY <3>3 DEF Waiting, Moving, SInv, SyncTypes, Handed, Asked
    <3>5. stamp'[s] = version
      BY <1>2, <2>2 DEF Stamps, TaskSends, TypeOK, RollTypeOK
    <3> QED BY <1>4, <3>4, <3>5
  <2> QED BY <1>3, <2>1, <2>2
<1>5. CASE Trains /\ trainer' = "waitValid"
  <2>1. batch' = <<>> /\ UNCHANGED <<queue, task, stamp>> /\ trainer = "train" /\ localStep >= TriggerSyncStep
    BY <1>5 DEF Trains, mqVars, rollVars, taskVars
  <2>2. Cardinality(Held) = 0
    <3> DEFINE h == Cardinality(Held)
               m == MaxRequiredSamples
    <3>1. h \in Nat /\ m \in Nat /\ staleness \in Nat /\ Taken + h <= staleness /\ staleness <= m
      BY <1>2, HeldFinite, Sizes DEF TypeOK, RollTypeOK, LimitInv
    <3>2. Taken = m
      <4>1. ~Waiting
        BY <1>2, <2>1 DEF Waiting, LimitInv
      <4>2. Len(batch) = RequiredSamples /\ localStep \in 1..TriggerSyncStep
        BY <2>1, AgeTypes
      <4> QED BY <2>1, <4>1, <4>2, StepLaws DEF Taken, Progress, NoSlack
    <3> HIDE DEF h, m
    <3>3. h = 0
      BY <3>1, <3>2
    <3> QED BY <3>3 DEF h
  <2>3. InTask = {} /\ SamplesOf(queue) = {}
    BY <2>2, NothingHeld
  <2>4. s \in SamplesOf(batch')
    BY <1>1, <2>1, <2>3 DEF InTask
  <2> QED BY <2>1, <2>4 DEF SamplesOf
<1>6. CASE trainerVersion' # trainerVersion
  <2>1. ~UNCHANGED trainVars
    BY <1>6 DEF trainVars
  <2>2. CASE Trains
    BY <1>5, <1>6, <2>2 DEF Trains
  <2>3. CASE Finishes
    BY <1>2, <2>3 DEF Finishes, SInv, Validated
  <2>4. CASE CollectWaits \/ CollectTakes \/ CollectStops \/ CallsPause \/ TransferBegins \/ TransferEnds \/ Logs
             \/ FinishesSync
    BY <1>6, <2>4 DEF CollectWaits, CollectTakes, CollectStops, CallsPause, TransferBegins, TransferEnds, TrainerGoes,
        Logs, FinishesSync, trainVars
  <2> QED BY <2>1, <2>2, <2>3, <2>4 DEF Next, TrainNext, Others, RunnerEnds, Terminated, vars
<1> QED BY <1>4, <1>6

LEMMA FreshInvNext == NoSlack /\ EndInv /\ SamplesInv' /\ AgeInv /\ FreshInv /\ [Next]_vars => FreshInv'
<1> SUFFICES ASSUME NoSlack, EndInv, SamplesInv', AgeInv, FreshInv, [Next]_vars PROVE FreshInv'
  OBVIOUS
<1>1. SamplesInv /\ SInv
  BY DEF EndInv, FateInv
<1>2. ~stopping' => ~stopping
  BY <1>1, ConsumedMoves
<1> QED BY <1>1, <1>2, LimitNext, QuietNext, PolicyNext DEF FreshInv

LEMMA FreshInvInitial == Init => FreshInv
<1> SUFFICES ASSUME Init PROVE FreshInv
  OBVIOUS
<1>1. /\ queue = <<>> /\ batch = <<>> /\ stopping = FALSE /\ task = [s \in Samples |-> "none"] /\ Len(<<>>) = 0
      /\ trainer = "collect" /\ sync = "none" /\ localStep = 1 /\ staleness = 0 /\ processor = "top"
  BY DEF Init, MQInit, RollInit, TrainInit
<1>2. MaxRequiredSamples \in Nat /\ Steps(1) = 0
  <2>1. 1 \in 1..TriggerSyncStep
    BY Sizes
  <2> QED BY <2>1, Sizes, StepLaws
<1>3. Cardinality(Held) = 0
  <2>1. Held = {}
    BY PlaceInitial DEF Held
  <2> QED BY <2>1, FS_EmptySet
<1> HIDE DEF MaxRequiredSamples
<1>4. LimitInv
  BY <1>1, <1>2, <1>3 DEF LimitInv, Taken, Waiting, Progress, Moving
<1>5. QuietInv /\ PolicyInv
  BY <1>1 DEF QuietInv, PolicyInv, Stamped, SamplesOf, Early
<1> QED BY <1>4, <1>5 DEF FreshInv

-----------------------------------------------------------------------------
(* The theorems. *)

LEMMA EndInvariance == Spec => [](EndInv /\ AgeInv)
<1>1. Spec => []SamplesInv
  BY SamplesInvariance
<1>2. Spec => []EndInv
  BY <1>1, EndInvInitial, EndInvNext, PTL DEF Spec
<1>3. EndInv => SamplesInv /\ SInv
  BY DEF EndInv, FateInv
<1> QED BY <1>1, <1>2, <1>3, AgeInvInitial, AgeInvNext, PTL DEF Spec

LEMMA FreshInvariance == ASSUME NoSlack PROVE Spec => []FreshInv
<1>1. EndInv /\ SamplesInv' /\ AgeInv /\ FreshInv /\ [Next]_vars => FreshInv'
  BY FreshInvNext
<1>2. Spec => []SamplesInv
  BY SamplesInvariance
<1> QED BY <1>1, <1>2, EndInvariance, FreshInvInitial, PTL DEF Spec

\* A sample in a batch that will be trained on is at most K + 2 versions old, with K the number of whole
\* versions among the MaxRequiredSamples - 1 samples that can wait before it, for every size, limit and
\* staleness threshold (set_max_required_samples, fully_async_rollouter.py:175-189; the stamp, 500-511; the
\* trainer's count of stale samples, fully_async_trainer.py:445-450).  With a threshold of less than one
\* sample it has the trainer's own version.
THEOREM LagIsBounded == Spec => []VersionLag
<1>1. CASE NoSlack
  <2>1. SamplesInv /\ FreshInv => VersionLag
    <3> SUFFICES ASSUME SamplesInv, FreshInv, ~stopping, NEW s \in SamplesOf(batch)
                 PROVE  trainerVersion - stamp[s] <= 0
      BY <1>1 DEF VersionLag, NoSlack
    <3>1. s \in Samples /\ Stamped(s)
      BY DEF SamplesOf, Stamped
    <3>2. stamp[s] = trainerVersion /\ trainerVersion \in Nat
      BY <3>1, AgeTypes DEF FreshInv, PolicyInv
    <3> QED BY <3>2
  <2>2. Spec => []FreshInv
    BY <1>1, FreshInvariance
  <2> QED BY <2>1, <2>2, SamplesInvariance, PTL
<1>2. CASE ~NoSlack
  <2>1. EndInv /\ AgeInv => VersionLag
    <3> SUFFICES ASSUME EndInv, AgeInv, ~stopping, NEW s \in SamplesOf(batch)
                 PROVE  trainerVersion - stamp[s] <= (MaxRequiredSamples - 1) \div SamplesPerVersion + 2
      BY <1>2 DEF VersionLag, NoSlack
    <3>1. SamplesInv
      BY DEF EndInv, FateInv
    <3> QED BY <3>1, AgeBounded
  <2> QED BY <2>1, EndInvariance, PTL
<1> QED BY <1>1, <1>2

\* With a threshold of less than one sample no task is left while the weights move: pause has waited for
\* them all, and neither the monitor nor the processor starts one before update_param_version
\* (README.md:228-229; pause, fully_async_rollouter.py:670).
THEOREM NoTaskWhileWeightsMove == ASSUME NoSlack PROVE Spec => []QuietTransfer
<1>1. EndInv /\ FreshInv => QuietTransfer
  <2> SUFFICES ASSUME EndInv, FreshInv, trainer = "transfer" PROVE Live = {}
    BY DEF QuietTransfer
  <2>1. sync = "paused"
    BY DEF EndInv, FateInv, SInv, Handed
  <2> QED BY <2>1 DEF FreshInv, QuietInv, Early
<1> QED BY <1>1, EndInvariance, FreshInvariance, PTL

\* With a threshold of less than one sample never more samples are under way than one version takes: the
\* counter is compared before every new sample (_should_pause_generation, fully_async_rollouter.py:659) and
\* starts anew only when the trainer has taken all of a version (216; README.md:135-138).
THEOREM LimitIsKept == ASSUME NoSlack PROVE Spec => []FreshnessBound
<1>1. SamplesInv /\ FreshInv => FreshnessBound
  <2> SUFFICES ASSUME SamplesInv, FreshInv PROVE Outstanding <= MaxRequiredSamples
    BY DEF FreshnessBound
  <2>1. Outstanding = Cardinality(Held)
    BY HeldIsOutstanding
  <2> QED BY <2>1 DEF FreshInv, LimitInv
<1> QED BY <1>1, SamplesInvariance, FreshInvariance, PTL

-----------------------------------------------------------------------------
(* Every sample is trained on. *)

\* The samples of a run without staleness: no sample is interrupted, none raises, and the processor does not.
Undisturbed == NoSlack /\ QueueHoldsMore /\ PartialRollout = FALSE /\ MaxFailures = 0

\* No sample is interrupted.
Uncut ==
    /\ cancelQueue = <<>> /\ serversPaused = FALSE /\ sync \notin {"cancelling", "cancelled"}
    /\ \A s \in Samples : task[s] \notin {"refused", "cancelled"}

\* Done is the last that is fed, and the processor takes it when all samples have been taken.
DoneLast ==
    /\ \A i \in 1..Len(pendingQueue) : pendingQueue[i] = Done => i = Len(pendingQueue) /\ feeder = "ended"
    /\ feeder # "feeding" => fed = TotalRolloutSteps
DoneTaken ==
    /\ drainFor = "done" => processor \in Draining \cup {"ended", "crashed"} /\ feeder = "ended" /\ pendingQueue = <<>>
    /\ processor = "ended" => drainFor = "done"

\* Done counts like a sample, so that there is room for the finish signal.
DoneCounts == drainFor = "done" /\ ~stopping => Taken + Cardinality(Held) < staleness

\* Nothing is dropped and nothing cleared, and whole batches are trained on.
NoneLost == droppedSamples = 0 /\ cleared = 0 /\ (stopping => queue = <<>>) /\ (runner = "ended" => stopping)
WholeBatches == \E k \in Nat : Cardinality(trained) = RequiredSamples * k

WholeInv == Uncut /\ DoneLast /\ DoneTaken /\ DoneCounts /\ NoneLost /\ WholeBatches

LEMMA UncutNext ==
  ASSUME PartialRollout = FALSE, TypeOK, Uncut, [Next]_vars
  PROVE  Uncut'
<1>1. /\ task \in [Samples -> {"none", "created", "requested", "generating", "refused", "answered",
                               "cancelled", "failed", "putting", "put"}]
      /\ cancelQueue = <<>> /\ serversPaused = FALSE /\ sync \notin {"cancelling", "cancelled"}
      /\ \A s \in Samples : task[s] \notin {"refused", "cancelled"}
  BY DEF TypeOK, RollTypeOK, Uncut
<1>2. ASSUME NEW s \in Samples, NEW p, p \notin {"refused", "cancelled"}, TaskGoes(s, p)
      PROVE  \A t \in Samples : task'[t] \notin {"refused", "cancelled"}
  BY <1>1, <1>2 DEF TaskGoes
<1>3. CASE FeederPuts \/ FeederEnds \/ Monitor \/ Main \/ MonitorTimer \/ QueueTakesNone
  BY <1>1, <1>3 DEF FeederPuts, FeederEnds, FeederDoes, Monitor, Main, MainOnly, MonitorTimer, QueueTakesNone,
      taskVars, syncVars, Uncut
<1>4. CASE Processor
  <2>1. UNCHANGED <<serversPaused, sync>>
    BY <1>4 DEF Processor, syncVars
  <2>2. CASE ProcessorSubmits
    <3>1. task' = [task EXCEPT ![hand] = "created"] /\ cancelQueue' = cancelQueue
      BY <2>2 DEF ProcessorSubmits
    <3> QED BY <1>1, <2>1, <3>1 DEF Uncut
  <2>3. CASE ~ProcessorSubmits
    <3>1. task' = task /\ cancelQueue' = cancelQueue
      BY <1>1, <1>4, <2>3 DEF Processor, ProcessorSeesPause, ProcessorPauses, ProcessorTakesCancelled,
        ProcessorAsksPending, ProcessorGets, ProcessorDrains, ProcessorDrained, ProcessorAwaitsTask,
        ProcessorFindsNoTask, ProcessorReaps, ProcessorSleeps, ProcessorWakes, ProcessorLeavesPause, ProcessorGoes,
        taskVars
    <3> QED BY <1>1, <2>1, <3>1 DEF Uncut
  <2> QED BY <2>2, <2>3
<1>5. CASE TaskSteps
  <2>1. PICK s \in Samples : TaskStarts(s) \/ TaskSends(s) \/ TaskEnds(s)
    BY <1>5 DEF TaskSteps
  <2>2. UNCHANGED <<serversPaused, sync>>
    BY <1>5 DEF TaskSteps, syncVars
  <2>3. cancelQueue' = cancelQueue
    BY <1>1, <2>1 DEF TaskStarts, TaskSends, TaskEnds, Requeued
  <2>4. \E p : p \notin {"refused", "cancelled"} /\ TaskGoes(s, p)
    BY <2>1 DEF TaskStarts, TaskSends, TaskEnds
  <2> QED BY <1>1, <1>2, <2>2, <2>3, <2>4 DEF Uncut
<1>6. CASE TaskEnvironment \/ \E s \in Samples : ServersFail(s)
  <2>1. PICK s \in Samples : ServersTake(s) \/ ServersAnswer(s) \/ QueueTakes(s) \/ QueueAnswers(s) \/ ServersFail(s)
    BY <1>6 DEF TaskEnvironment
  <2>2. UNCHANGED <<serversPaused, sync, cancelQueue>>
    BY <2>1 DEF ServersTake, ServersAnswer, QueueTakes, QueueAnswers, ServersFail, TaskOutside, syncVars
  <2>3. task' = task \/ \E p : p \notin {"refused", "cancelled"} /\ TaskGoes(s, p)
    BY <1>1, <2>1 DEF ServersTake, ServersAnswer, QueueTakes, QueueAnswers, ServersFail
  <2> QED BY <1>1, <1>2, <2>2, <2>3 DEF Uncut
<1>7. CASE Sync
  <2>1. UNCHANGED <<task, cancelQueue, serversPaused>>
    BY <1>7 DEF Sync
  <2>2. sync' \notin {"cancelling", "cancelled"}
    BY <1>1, <1>7 DEF Sync, CallLocks, SyncGoes, PauseBegins, PauseGathers, Gathers, PauseEnds, UpdateBegins,
        UpdateResets, UpdateEnds, ResumeAsksServers, ResumeEnds
  <2> QED BY <1>1, <2>1, <2>2 DEF Uncut
<1>8. CASE SyncEnvironment
  BY <1>1, <1>8 DEF SyncEnvironment, ServersCancel, ServersResume, QueueSizes, QueueTakesValidate, SyncArrives,
      SyncOutside, taskVars, Uncut
<1>9. CASE TrainNext \/ RunnerEnds \/ Terminated \/ UNCHANGED vars
  <2>1. UNCHANGED <<task, cancelQueue, serversPaused>> /\ (sync' = sync \/ sync' \in {"pauseCall", "updateCall"})
    BY <1>9 DEF TrainNext, CollectWaits, CollectTakes, CollectStops, Trains, CallsPause, TransferBegins, TransferEnds,
        Logs, Finishes, FinishesSync, RollouterButSync, RunnerEnds, Terminated, vars, rollVars, taskVars, syncVars
  <2> QED BY <1>1, <2>1 DEF Uncut
<1> QED BY <1>3, <1>4, <1>5, <1>6, <1>7, <1>8, <1>9 DEF Next, RollNext, LoopRuns

\* The feeder and what it has fed: it puts a sample or Done, or the processor takes the first.
LEMMA PendingMoves ==
  ASSUME [Next]_vars
  PROVE  UNCHANGED feedVars \/ FeederPuts \/ FeederEnds
         \/ (ProcessorGets /\ UNCHANGED <<fed, feeder>> /\ pendingQueue' = Tail(pendingQueue))
<1>1. CASE Processor
  BY <1>1 DEF Processor, ProcessorSeesPause, ProcessorPauses, ProcessorTakesCancelled, ProcessorAsksPending,
      ProcessorGets, ProcessorDrains, ProcessorDrained, ProcessorAwaitsTask, ProcessorFindsNoTask, ProcessorReaps,
      ProcessorSleeps, ProcessorWakes, ProcessorLeavesPause, ProcessorSubmits, ProcessorGoes
<1>2. CASE TaskSteps \/ Monitor \/ MonitorTimer \/ Main \/ QueueTakesNone \/ Sync
  BY <1>2 DEF TaskSteps, Monitor, MonitorTimer, Main, MainOnly, QueueTakesNone, Sync
<1>3. CASE SyncEnvironment \/ TaskEnvironment \/ (\E s \in Samples : ServersFail(s))
  BY <1>3 DEF SyncEnvironment, ServersCancel, ServersResume, QueueSizes, QueueTakesValidate, SyncArrives, SyncOutside,
      TaskEnvironment, ServersTake, ServersAnswer, QueueTakes, QueueAnswers, ServersFail, TaskOutside
<1>4. CASE TrainNext \/ RunnerEnds \/ Terminated \/ UNCHANGED vars
  BY <1>4 DEF TrainNext, CollectWaits, CollectTakes, CollectStops, Trains, CallsPause, TransferBegins, TransferEnds,
      Logs, Finishes, FinishesSync, RollouterButSync, RunnerEnds, Terminated, vars, rollVars
<1> QED BY <1>1, <1>2, <1>3, <1>4 DEF Next, RollNext, LoopRuns

LEMMA DoneLastNext ==
  ASSUME SamplesInv, SamplesInv', DoneLast, [Next]_vars
  PROVE  DoneLast'
<1>1. /\ pendingQueue \in Seq(Samples \cup {Done}) /\ Len(pendingQueue) \in Nat /\ fed \in Nat
      /\ fed <= TotalRolloutSteps /\ fed' <= TotalRolloutSteps /\ fed' \in Nat
      /\ TotalRolloutSteps \in Nat /\ Done \notin Samples /\ Samples = 1..TotalRolloutSteps
      /\ feeder \in {"feeding", "closing", "ended"}
  BY Known, KnownNext, Numbers DEF TypeOK, RollTypeOK
<1>2. CASE UNCHANGED feedVars
  BY <1>2 DEF feedVars, DoneLast
<1>3. CASE FeederPuts
  <2>1. /\ fed' = fed + 1 /\ feeder = "feeding" /\ feeder' = (IF fed' >= TotalRolloutSteps THEN "closing" ELSE "feeding")
        /\ pendingQueue' = Append(pendingQueue, fed + 1)
    BY <1>3 DEF FeederPuts, FeederDoes
  <2>2. fed + 1 \in Samples
    BY <1>1, <2>1
  <2>3. /\ Len(pendingQueue') = Len(pendingQueue) + 1 /\ pendingQueue'[Len(pendingQueue) + 1] = fed + 1
        /\ \A i \in 1..Len(pendingQueue) : pendingQueue'[i] = pendingQueue[i]
    BY <1>1, <2>1, <2>2, AppendProperties
  <2>4. \A i \in 1..Len(pendingQueue') : pendingQueue'[i] # Done
    <3> SUFFICES ASSUME NEW i \in 1..Len(pendingQueue') PROVE pendingQueue'[i] # Done
      OBVIOUS
    <3>1. CASE i = Len(pendingQueue) + 1
      BY <1>1, <2>2, <2>3, <3>1
    <3>2. CASE i \in 1..Len(pendingQueue)
      BY <2>1, <2>3, <3>2 DEF DoneLast
    <3> QED BY <1>1, <2>3, <3>1, <3>2
  <2>5. feeder' # "feeding" => fed' = TotalRolloutSteps
    BY <1>1, <2>1
  <2> QED BY <2>4, <2>5 DEF DoneLast
<1>4. CASE FeederEnds
  <2>1. /\ UNCHANGED fed /\ feeder = "closing" /\ feeder' = "ended" /\ pendingQueue' = Append(pendingQueue, Done)
    BY <1>4 DEF FeederEnds, FeederDoes
  <2>2. /\ Len(pendingQueue') = Len(pendingQueue) + 1
        /\ \A i \in 1..Len(pendingQueue) : pendingQueue'[i] = pendingQueue[i]
    <3>1. Done \in Samples \cup {Done}
      OBVIOUS
    <3> QED BY <1>1, <2>1, <3>1, AppendProperties
  <2>3. ASSUME NEW i \in 1..Len(pendingQueue'), pendingQueue'[i] = Done PROVE i = Len(pendingQueue')
    <3>1. i \notin 1..Len(pendingQueue)
      BY <2>1, <2>2, <2>3 DEF DoneLast
    <3> QED BY <1>1, <2>2, <2>3, <3>1
  <2> QED BY <2>1, <2>3 DEF DoneLast
<1>5. CASE ProcessorGets /\ UNCHANGED <<fed, feeder>> /\ pendingQueue' = Tail(pendingQueue)
  <2>1. pendingQueue # <<>>
    BY <1>5, Known, GetsSomething DEF ProcessorGets, RollInv, TypeOK
  <2>2. /\ Len(pendingQueue') = Len(pendingQueue) - 1
        /\ \A i \in 1..Len(pendingQueue') : pendingQueue'[i] = pendingQueue[i + 1]
    BY <1>1, <1>5, <2>1, HeadTailProperties
  <2>3. ASSUME NEW i \in 1..Len(pendingQueue'), pendingQueue'[i] = Done
        PROVE  i = Len(pendingQueue') /\ feeder' = "ended"
    <3>1. i + 1 \in 1..Len(pendingQueue) /\ pendingQueue[i + 1] = Done
      BY <1>1, <2>2, <2>3
    <3>2. i + 1 = Len(pendingQueue) /\ feeder = "ended"
      BY <3>1 DEF DoneLast
    <3> QED BY <1>1, <1>5, <2>2, <2>3, <3>2
  <2> QED BY <1>5, <2>3 DEF DoneLast
<1> QED BY <1>2, <1>3, <1>4, <1>5, PendingMoves

\* When the processor takes Done.
LEMMA TakesDone ==
  ASSUME SamplesInv, DoneLast, ProcessorGets, Head(pendingQueue) = Done
  PROVE  pendingQueue' = <<>> /\ feeder = "ended"
<1>1. pendingQueue # <<>> /\ pendingQueue \in Seq(Samples \cup {Done}) /\ pendingQueue' = Tail(pendingQueue)
  BY Known, GetsSomething DEF ProcessorGets, RollInv, TypeOK, RollTypeOK
<1>2. 1 \in 1..Len(pendingQueue) /\ pendingQueue[1] = Done /\ Len(pendingQueue) \in Nat
  BY <1>1, EmptySeq, HeadTailProperties
<1>3. 1 = Len(pendingQueue) /\ feeder = "ended"
  BY <1>2 DEF DoneLast
<1>4. Tail(pendingQueue) \in Seq(Samples \cup {Done}) /\ Len(Tail(pendingQueue)) = 0
  BY <1>1, <1>3, HeadTailProperties
<1> QED BY <1>1, <1>3, <1>4, EmptySeq

LEMMA DoneTakenNext ==
  ASSUME SamplesInv, DoneLast, DoneTaken, [Next]_vars
  PROVE  DoneTaken' /\ (drainFor' = "done" => drainFor = "done" \/ ProcessorGets)
<1>1. CASE UNCHANGED procVars
  <2>1. ~ProcessorGets
    BY <1>1 DEF procVars, ProcessorGets, ProcessorAt
  <2>2. drainFor = "done" => UNCHANGED feedVars
    BY <2>1, PendingMoves DEF DoneTaken, FeederPuts, FeederEnds
  <2> QED BY <1>1, <2>2 DEF procVars, feedVars, DoneTaken
<1>2. CASE ProcessorGets
  <2>1. processor' = "drain" /\ feeder' = feeder /\ (drainFor' = "done" => Head(pendingQueue) = Done)
    BY <1>2 DEF ProcessorGets
  <2>2. drainFor' = "done" => pendingQueue' = <<>> /\ feeder' = "ended"
    BY <1>2, <2>1, TakesDone
  <2> QED BY <1>2, <2>1, <2>2 DEF DoneTaken, Draining
<1>3. CASE Processor /\ ~ProcessorGets
  <2>1. UNCHANGED feedVars
    BY <1>3, PendingMoves DEF Processor, ProcessorSeesPause, ProcessorPauses, ProcessorTakesCancelled, ProcessorAsksPending,
      ProcessorDrains, ProcessorDrained, ProcessorAwaitsTask, ProcessorFindsNoTask, ProcessorReaps,
      ProcessorSleeps, ProcessorWakes, ProcessorLeavesPause, ProcessorSubmits, ProcessorGoes
  <2>2. drainFor' = "done" => drainFor = "done"
    BY <1>3 DEF Processor, ProcessorSeesPause, ProcessorPauses, ProcessorTakesCancelled, ProcessorAsksPending,
      ProcessorDrains, ProcessorDrained, ProcessorAwaitsTask, ProcessorFindsNoTask, ProcessorReaps,
      ProcessorSleeps, ProcessorWakes, ProcessorLeavesPause, ProcessorSubmits, ProcessorGoes
  <2>3. /\ drainFor = "done" => processor' \in Draining \cup {"ended", "crashed"}
        /\ processor' = "ended" => drainFor' = "done"
    BY <1>3 DEF Processor, ProcessorSeesPause, ProcessorPauses, ProcessorTakesCancelled, ProcessorAsksPending,
      ProcessorDrains, ProcessorDrained, ProcessorAwaitsTask, ProcessorFindsNoTask, ProcessorReaps, ProcessorCrashes,
      ProcessorSleeps, ProcessorWakes, ProcessorLeavesPause, ProcessorSubmits, ProcessorGoes, ProcessorAt,
      ProcessorOwns, ProcessorWaits, DoneTaken, Draining
  <2> QED BY <2>1, <2>2, <2>3 DEF DoneTaken, feedVars
<1> QED BY <1>1, <1>2, <1>3, ProcMoves

\* Done is not a sample: nothing more is held when the processor takes it.
LEMMA DoneNotHeld ==
  ASSUME SamplesInv, SamplesInv', ProcessorGets, Head(pendingQueue) = Done, [Next]_vars
  PROVE  Cardinality(Held)' <= Cardinality(Held)
<1>1. Held' \subseteq Held
  BY HeldSteps, Numbers DEF Held
<1>2. IsFiniteSet(Held)
  BY HeldFinite
<1> QED BY <1>1, <1>2, FS_Subset

LEMMA DoneCountsNext ==
  ASSUME NoSlack, EndInv, SamplesInv', AgeInv, LimitInv, DoneLast, DoneTaken, DoneCounts, [Next]_vars
  PROVE  DoneCounts'
<1> DEFINE h == Cardinality(Held)
           g == Cardinality(Held)'
           m == MaxRequiredSamples
<1>1. SamplesInv /\ SInv
  BY DEF EndInv, FateInv
<1>2. h \in Nat /\ g \in Nat /\ m \in Nat /\ staleness \in Nat
  BY <1>1, HeldFinite, HeldCounted, Sizes, Known DEF TypeOK, RollTypeOK
<1> SUFFICES ASSUME drainFor' = "done", ~stopping' PROVE Taken' + g < staleness'
  BY DEF DoneCounts
<1>3. /\ ~stopping /\ Taken \in Nat
      /\ \/ UpdateResets /\ Waiting /\ Taken' = 0
         \/ ~UpdateResets /\ Taken' = Taken
         \/ ~UpdateResets /\ CollectTakes /\ ~Waiting /\ Taken' = Taken + 1
  BY <1>1, TakenMoves
<1>4. Taken + h <= staleness
  BY <1>3 DEF LimitInv
<1>5. CASE ProcessorGets
  <2>1. ~UpdateResets /\ ~CollectTakes
    BY <1>5, OneRuns DEF ProcessorGets, ProcessorAt, CollectTakes, rollVars, procVars
  <2>2. Taken' = Taken /\ staleness' = staleness + 1
    BY <1>3, <1>5, <2>1 DEF ProcessorGets
  <2>3. Head(pendingQueue) = Done
    BY <1>5 DEF ProcessorGets
  <2>4. g <= h
    BY <1>1, <1>5, <2>3, DoneNotHeld
  <2> HIDE DEF h, g, m
  <2> QED BY <1>2, <1>3, <1>4, <2>2, <2>4
<1>6. CASE ~ProcessorGets
  <2>1. drainFor = "done"
    BY <1>1, <1>6, DoneTakenNext
  <2>2. Taken + h < staleness
    BY <1>3, <2>1 DEF DoneCounts
  <2>3. ~Waiting
    <3> SUFFICES ASSUME Waiting PROVE FALSE
      OBVIOUS
    <3>1. h = 0 /\ staleness = m /\ Taken = m
      BY <1>1, <1>3, NothingWhileWaiting DEF Taken
    <3> HIDE DEF h, m
    <3> QED BY <1>2, <2>2, <3>1
  <2>4. ~UpdateResets
    BY <1>3, <2>3
  <2>5. staleness' = staleness
    BY <1>6, <2>4, CounterMoves DEF CounterSteps
  <2>6. g <= h
    BY <1>1, <1>6, HeldCounted
  <2>7. CASE CollectTakes
    <3>1. g + 1 <= h
      BY <1>1, <2>7, FetchedLeaves
    <3> HIDE DEF h, g, m
    <3> QED BY <1>2, <1>3, <2>2, <2>4, <2>5, <3>1
  <2>8. CASE ~CollectTakes
    <3>1. Taken' = Taken
      BY <1>3, <2>4, <2>8
    <3> HIDE DEF h, g, m
    <3> QED BY <1>2, <1>3, <2>2, <2>5, <2>6, <3>1
  <2> QED BY <2>7, <2>8
<1> QED BY <1>5, <1>6

LEMMA FailsNot == ASSUME MaxFailures = 0, SamplesInv PROVE failures = 0 /\ \A s \in Samples : ~ServersFail(s)
<1>1. failures \in 0..0
  BY Known DEF TypeOK, RollTypeOK
<1>2. failures = 0
  BY <1>1
<1> QED BY <1>2 DEF ServersFail

\* A put finds room in the message queue, and the trainer has not stopped.
LEMMA PutHasRoom ==
  ASSUME failures = 0, EndInv, LimitInv, CrashesOnlyOnFailure, DoneTaken, DoneCounts, Puts
  PROVE  ~stopping /\ Len(queue) < MaxQueueSize
<1> DEFINE h == Cardinality(Held)
           m == MaxRequiredSamples
           A == InTask \cup ({hand} \cap Samples)
           C == SamplesOf(queue)
<1>1. /\ SamplesInv /\ SignalInv /\ Settled /\ queue \in Seq(Items) /\ Len(queue) \in Nat /\ Signals \in Nat
      /\ None \notin Samples /\ stopping \in BOOLEAN
  BY FateKnown, LenProperties DEF EndInv, FateInv
<1>2. h \in Nat /\ m \in Nat /\ staleness \in Nat /\ m = MaxQueueSize
  BY <1>1, HeldFinite, Sizes, Known DEF TypeOK, RollTypeOK
<1>3. ~Signalled
  <2>1. CASE QueueTakesNone
    BY <2>1 DEF QueueTakesNone, Signalled
  <2>2. ASSUME NEW s \in Samples, QueueTakes(s) PROVE ~Signalled
    <3>1. s \in Live
      BY <2>2 DEF QueueTakes, Live
    <3> QED BY <1>1, <3>1 DEF Settled, Signalled
  <2> QED BY <2>1, <2>2 DEF Puts
<1>4. ~stopping /\ Signals = 0
  BY <1>1, <1>3 DEF SignalInv
<1>5. \A i \in 1..Len(queue) : queue[i] \in Samples
  <2>1. \A i \in 1..Len(queue) : queue[i] # None /\ queue[i] \in Items
    BY <1>1, <1>4, OccursOrNot DEF Signals
  <2> QED BY <2>1 DEF Items
<1>6. Cardinality(C) = Len(queue)
  <2>1. queue \in Seq(Samples)
    <3>1. queue = [i \in 1..Len(queue) |-> queue[i]]
      BY <1>1
    <3> QED BY <1>1, <1>5, <3>1
  <2>2. \A s \in Samples : Occurrences(s, queue) <= 1
    <3>1. \A s \in Samples : Occurrences(s, queue) \in {0, 1}
      BY <1>1, Known DEF PlacesAre, OnePlace
    <3> QED BY <3>1
  <2>3. Cardinality({queue[i] : i \in 1..Len(queue)}) = Len(queue)
    BY <2>1, <2>2, Distinct
  <2>4. C = {queue[i] : i \in 1..Len(queue)}
    BY <1>5 DEF SamplesOf
  <2> QED BY <2>3, <2>4
<1>7. IsFiniteSet(A) /\ Cardinality(A) \in Nat /\ Len(cancelQueue) \in Nat
  <2>1. IsFiniteSet(A)
    BY Numbers, FS_Subset DEF InTask
  <2>2. cancelQueue \in Seq(Samples)
    BY <1>1, Known DEF TypeOK, RollTypeOK
  <2> QED BY <2>1, <2>2, FS_CardinalityType, LenProperties
<1>8. Cardinality(A) + Len(cancelQueue) + Cardinality(C) = h
  BY <1>1, HeldIsOutstanding DEF Outstanding
<1>9. CASE QueueTakesNone
  <2>1. processor = "ended"
    <3>1. Over
      BY <1>1, <1>9 DEF QueueTakesNone, Settled
    <3>2. processor # "crashed"
      BY DEF CrashesOnlyOnFailure
    <3> QED BY <3>1, <3>2 DEF Over
  <2>2. Taken + h < staleness /\ staleness <= m
    BY <1>4, <2>1 DEF DoneTaken, DoneCounts, LimitInv
  <2>3. Taken \in Nat
    <3>1. Steps(localStep) \in Nat /\ Len(batch) \in Nat
      BY <1>1, AgeTypes, StepLaws
    <3> HIDE DEF MaxRequiredSamples
    <3> QED BY <1>2, <3>1 DEF Taken, Progress
  <2> HIDE DEF h, m, A, C
  <2> QED BY <1>1, <1>2, <1>4, <1>6, <1>7, <1>8, <2>2, <2>3
<1>10. ASSUME NEW s \in Samples, QueueTakes(s)
       PROVE  Len(queue) < MaxQueueSize
  <2>1. A # {}
    BY <1>10 DEF QueueTakes, InTask
  <2>2. Cardinality(A) # 0
    BY <1>7, <2>1, FS_EmptySet
  <2>3. h <= m
    BY DEF LimitInv
  <2> HIDE DEF h, m, A, C
  <2> QED BY <1>1, <1>2, <1>6, <1>7, <1>8, <2>2, <2>3
<1> QED BY <1>4, <1>9, <1>10 DEF Puts

LEMMA NoneLostNext ==
  ASSUME MaxFailures = 0, EndInv, SamplesInv', LimitInv, CrashesOnlyOnFailure, DoneTaken, DoneCounts, NoneLost,
         [Next]_vars
  PROVE  NoneLost'
<1>1. /\ SamplesInv /\ SInv /\ SignalLast /\ failures = 0 /\ \A s \in Samples : ~ServersFail(s)
      /\ queue \in Seq(Items) /\ Len(queue) \in Nat /\ stopping \in BOOLEAN
  BY FailsNot, FateKnown, LenProperties DEF EndInv, FateInv
<1>2. RollInv /\ RollInv' /\ ExactlyOnce /\ 1 \in Samples
  <2>1. 1 \in Samples
    BY Numbers
  <2> QED BY <1>1, <2>1, Known, KnownNext
<1>3. runner' = runner \/ RunnerEnds
  BY DEF Next, Others, Terminated, vars
<1>4. CASE Puts
  <2>1. ~stopping /\ Len(queue) < MaxQueueSize
    BY <1>1, <1>4, PutHasRoom
  <2>2. UNCHANGED <<stopping, runner>>
    BY <1>4 DEF Puts, Others, trainVars
  <2>3. UNCHANGED <<droppedSamples, cleared>>
    <3>1. PICK item : PutSample(item)
      BY <1>4 DEF Puts, QueueTakesNone, QueueTakes
    <3>2. ~QueueFull
      <4>1. MaxQueueSize \in Nat
        BY MaxQueueSizeAssumption
      <4> QED BY <1>1, <2>1, <4>1 DEF QueueFull
    <3> QED BY <3>1, <3>2 DEF PutSample, DroppedForRoom
  <2> QED BY <1>1, <2>1, <2>2, <2>3 DEF NoneLost
<1>5. CASE ~Puts
  <2>1. droppedSamples' = 0 /\ cleared' = 0 /\ (runner' = "ended" => stopping')
    <3>1. stopping => stopping'
      BY <1>1, ConsumedMoves
    <3>2. CASE RunnerEnds
      <4>1. trainer = "ended"
        BY <3>2 DEF RunnerEnds
      <4>2. stopping
        BY <1>1, <4>1 DEF SInv, Validated
      <4>3. Len(queue) = 0
        BY <4>2 DEF NoneLost
      <4>4. cleared' = cleared + Len(queue) /\ droppedSamples' = droppedSamples
        BY <1>2, <3>2, CopiesCleared
      <4> QED BY <3>1, <4>2, <4>3, <4>4 DEF NoneLost
    <3>3. CASE Feeds
      <4>1. UNCHANGED <<droppedSamples, cleared>>
        BY <1>2, <3>3, CopiesFed
      <4>2. UNCHANGED <<stopping, runner>>
        BY <3>3 DEF Feeds, Others, trainVars
      <4> QED BY <3>1, <4>1, <4>2 DEF NoneLost
    <3>4. CASE Keeps /\ ~RunnerEnds
      BY <1>2, <1>3, <3>1, <3>4, CopiesKept DEF Counted, NoneLost
    <3> QED BY <1>1, <1>5, <3>2, <3>3, <3>4, Fates DEF Fails
  <2>2. ASSUME stopping' PROVE queue' = <<>>
    <3>1. CASE stopping
      BY <1>5, <3>1, QueueMoves DEF NoneLost
    <3>2. CASE ~stopping
      <4>1. CollectStops
        BY <1>1, <2>2, <3>2 DEF Next, Others, TrainNext, CollectWaits, CollectTakes, Trains, CallsPause, TransferBegins,
            TransferEnds, TrainerGoes, Logs, Finishes, FinishesSync, RunnerEnds, Terminated, vars, trainVars
      <4>2. queue # <<>> /\ Head(queue) = None /\ queue' = Tail(queue)
        BY <4>1 DEF CollectStops, GetSampleReturns
      <4>3. 1 \in 1..Len(queue) /\ queue[1] = None
        BY <1>1, <4>2, EmptySeq, HeadTailProperties
      <4>4. Len(queue) = 1
        <5>1. 1 = Len(queue) \/ failures > 0
          BY <1>1, <4>3 DEF SignalLast
        <5>2. failures = 0
          BY <1>1
        <5> QED BY <5>1, <5>2
      <4>5. Tail(queue) \in Seq(Items) /\ Len(Tail(queue)) = 0
        BY <1>1, <4>2, <4>4, HeadTailProperties
      <4> QED BY <4>2, <4>5, EmptySeq
    <3> QED BY <3>1, <3>2
  <2> QED BY <2>1, <2>2 DEF NoneLost
<1> QED BY <1>4, <1>5

LEMMA WholeBatchesNext ==
  ASSUME SamplesInv, WholeBatches, [Next]_vars
  PROVE  WholeBatches'
<1>1. CASE trained' = trained
  BY <1>1 DEF WholeBatches
<1>2. CASE Trains
  <2> DEFINE B == {batch[i] : i \in 1..Len(batch)}
             c == Cardinality(trained)
             r == RequiredSamples
  <2>1. trained' = trained \cup B /\ trainer = "train"
    BY <1>2 DEF Trains
  <2>2. /\ trained \subseteq Samples /\ batch \in Seq(Samples) /\ Len(batch) = r /\ r \in Nat
        /\ PlacesAre /\ fed \in Nat
    BY <2>1, Known, AgeTypes, Sizes DEF TypeOK, TrainTypeOK
  <2>3. B \subseteq Samples /\ Cardinality(B) = r
    BY <2>2, BatchPlaces DEF Pipeline!In
  <2>4. IsFiniteSet(trained) /\ IsFiniteSet(B) /\ c \in Nat
    BY <2>2, <2>3, Numbers, FS_Subset, FS_CardinalityType
  <2>5. trained \cap B = {}
    <3> SUFFICES ASSUME NEW s \in Samples, s \in trained, s \in B PROVE FALSE
      BY <2>2
    <3>1. OnePlace(s) /\ Occurrences(s, batch) > 0 /\ InSet(s, trained) = 1
      BY <2>2, OccursOrNot DEF PlacesAre, InSet
    <3>2. s \in Nat
      BY Numbers
    <3> QED BY <2>2, <3>1, <3>2 DEF OnePlace
  <2>6. Cardinality(trained \cup B) = c + r
    <3>1. Cardinality(trained \cup B) = Cardinality(trained) + Cardinality(B) - Cardinality(trained \cap B)
      BY <2>4, FS_Union
    <3>2. Cardinality(trained \cap B) = 0
      BY <2>5, FS_EmptySet
    <3>3. Cardinality(trained \cup B) = c + r - 0
      BY <2>3, <3>1, <3>2
    <3> HIDE DEF c, r
    <3> QED BY <2>2, <2>4, <3>3
  <2>7. PICK k \in Nat : c = r * k
    BY DEF WholeBatches
  <2>8. c + r = r * (k + 1) /\ k + 1 \in Nat
    <3> HIDE DEF c, r
    <3> QED BY <2>2, <2>7
  <2>9. Cardinality(trained') = RequiredSamples * (k + 1)
    BY <2>1, <2>6, <2>8
  <2> QED BY <2>8, <2>9 DEF WholeBatches
<1>3. trained' = trained \/ Trains
  BY DEF Next, Others, TrainNext, CollectWaits, CollectTakes, CollectStops, CallsPause, TransferBegins, TransferEnds,
      TrainerGoes, Logs, Finishes, FinishesSync, RunnerEnds, Terminated, vars, trainVars
<1> QED BY <1>1, <1>2, <1>3

LEMMA WholeInvNext ==
  Undisturbed /\ EndInv /\ SamplesInv' /\ AgeInv /\ FreshInv /\ CrashesOnlyOnFailure /\ WholeInv /\ [Next]_vars
    => WholeInv'
<1> SUFFICES ASSUME Undisturbed, EndInv, SamplesInv', AgeInv, FreshInv, CrashesOnlyOnFailure, WholeInv, [Next]_vars
             PROVE  WholeInv'
  OBVIOUS
<1>1. SamplesInv /\ LimitInv /\ TypeOK
  BY Known DEF EndInv, FateInv, FreshInv
<1>2. NoSlack /\ PartialRollout = FALSE /\ MaxFailures = 0
  BY DEF Undisturbed
<1>3. Uncut /\ DoneLast /\ DoneTaken /\ DoneCounts /\ NoneLost /\ WholeBatches
  BY DEF WholeInv
<1> QED BY <1>1, <1>2, <1>3, UncutNext, DoneLastNext, DoneTakenNext, DoneCountsNext, NoneLostNext, WholeBatchesNext
        DEF WholeInv

LEMMA WholeInvInitial == Init => WholeInv
<1> SUFFICES ASSUME Init PROVE WholeInv
  OBVIOUS
<1>1. /\ cancelQueue = <<>> /\ serversPaused = FALSE /\ sync = "none" /\ task = [s \in Samples |-> "none"]
      /\ pendingQueue = <<>> /\ feeder = "feeding" /\ drainFor = "capacity" /\ processor = "top"
      /\ droppedSamples = 0 /\ cleared = 0 /\ stopping = FALSE /\ runner = "waiting" /\ trained = {}
  BY DEF Init, MQInit, RollInit, TrainInit
<1>2. Cardinality(trained) = RequiredSamples * 0
  <2>1. RequiredSamples \in Nat
    BY Sizes
  <2> QED BY <1>1, <2>1, FS_EmptySet
<1>3. WholeBatches
  BY <1>2 DEF WholeBatches
<1> QED BY <1>1, <1>3 DEF WholeInv, Uncut, DoneLast, DoneTaken, DoneCounts, NoneLost

\* The rest of a division.
LEMMA RestOfWhole ==
  ASSUME NEW r \in Nat \ {0}, NEW k \in Nat, NEW b \in Nat, b < r
  PROVE  (r * k + b) % r = b
<1> DEFINE n == r * k + b
           q == n \div r
           p == n % r
<1>1. n \in Nat /\ q \in Int /\ p \in 0..(r - 1) /\ n = r * q + p
  OBVIOUS
<1>2. n = r * k + b
  OBVIOUS
<1> HIDE DEF n, q, p
<1>3. q = k
  <2>1. ASSUME NEW x \in Int, NEW y \in Int, NEW d \in Nat, x = y + 1 + d PROVE r * x >= r * y + r
    <3>1. r * (y + 1 + d) = r * y + r + r * d /\ r * d \in Nat /\ r * y \in Int
      OBVIOUS
    <3> QED BY <2>1, <3>1
  <2>2. r * q \in Int /\ r * k \in Int
    BY <1>1
  <2>3. ~(q > k)
    <3> SUFFICES ASSUME q > k PROVE FALSE
      OBVIOUS
    <3>1. q - k - 1 \in Nat /\ q = k + 1 + (q - k - 1)
      BY <1>1
    <3>2. r * q >= r * k + r
      BY <1>1, <2>1, <3>1
    <3> QED BY <1>1, <1>2, <2>2, <3>2
  <2>4. ~(k > q)
    <3> SUFFICES ASSUME k > q PROVE FALSE
      OBVIOUS
    <3>1. k - q - 1 \in Nat /\ k = q + 1 + (k - q - 1)
      BY <1>1
    <3>2. r * k >= r * q + r
      BY <1>1, <2>1, <3>1
    <3> QED BY <1>1, <1>2, <2>2, <3>2
  <2> QED BY <1>1, <2>3, <2>4
<1>4. p = b
  <2>1. r * k \in Int
    OBVIOUS
  <2> QED BY <1>1, <1>2, <1>3, <2>1
<1> QED BY <1>2, <1>4 DEF p

\* At the end all samples are fed, and none is anywhere but in an incomplete batch or trained on.
LEMMA AllAreSomewhere ==
  ASSUME Undisturbed, EndInv, CrashesOnlyOnFailure, FreshInv, WholeInv, Ended
  PROVE  /\ stopping /\ fed = TotalRolloutSteps
         /\ \A s \in Samples : Occurrences(s, batch) + InSet(s, trained) = 1
<1>1. /\ SamplesInv /\ SInv /\ SignalInv /\ Settled /\ failures = 0 /\ TypeOK /\ RollInv
      /\ Losses = Cardinality(Lost) + SignalsGone
  BY FailsNot, Known DEF EndInv, FateInv, Undisturbed
<1>2. stopping /\ droppedSamples = 0 /\ cleared = 0 /\ queue = <<>> /\ cancelQueue = <<>>
  BY DEF Ended, WholeInv, NoneLost, Uncut
<1>3. processor = "ended" /\ Live = {}
  <2>1. Over
    BY <1>2 DEF FreshInv, LimitInv
  <2> QED BY <1>1, <2>1 DEF CrashesOnlyOnFailure, Over, Settled
<1>4. pendingQueue = <<>> /\ fed = TotalRolloutSteps
  BY <1>3 DEF WholeInv, DoneTaken, DoneLast
<1>5. hand = None
  BY <1>1, <1>3 DEF RollInv, HandInv, Holding, Draining
<1>6. Lost = {}
  <2>1. IsFiniteSet(Lost) /\ Cardinality(Lost) \in Nat
    BY <1>1, FateKnown
  <2>2. SignalsGone = 0
    BY <1>2 DEF SignalsGone
  <2>3. Losses = 0
    BY <1>1, <1>2 DEF Losses
  <2>4. Cardinality(Lost) = 0
    BY <1>1, <2>1, <2>2, <2>3
  <2> QED BY <2>1, <2>4, FS_EmptySet
<1>7. ASSUME NEW s \in Samples PROVE Occurrences(s, batch) + InSet(s, trained) = 1
  <2>1. s \in Nat /\ s <= fed
    BY <1>4, Numbers
  <2>2. Copies(s) = 1
    <3>1. Copies(s) \in {0, 1}
      BY <1>1, CopiesAre DEF CopiesBounded
    <3> QED BY <1>6, <2>1, <3>1 DEF Lost
  <2>3. Occurrences(s, pendingQueue) = 0 /\ Occurrences(s, cancelQueue) = 0 /\ Occurrences(s, queue) = 0
    BY <1>2, <1>4, OccursInNone
  <2>4. s \notin {hand} /\ s \notin InTask
    BY <1>3, <1>5, Numbers DEF InTask, Live
  <2>5. InSet(s, {hand}) = 0 /\ InSet(s, InTask) = 0
    BY <2>4 DEF InSet
  <2>6. Occurrences(s, batch) \in Nat /\ InSet(s, trained) \in {0, 1}
    BY <1>1, CopyTypes
  <2> QED BY <2>2, <2>3, <2>5, <2>6 DEF Copies
<1> QED BY <1>2, <1>4, <1>7

LEMMA AllAreTrained ==
  ASSUME Undisturbed, EndInv, CrashesOnlyOnFailure, FreshInv, WholeInv, Ended
  PROVE  Cardinality(trained) = TotalRolloutSteps - (TotalRolloutSteps % RequiredSamples)
<1> DEFINE B == {batch[i] : i \in 1..Len(batch)}
           c == Cardinality(trained)
           n == Len(batch)
           r == RequiredSamples
           t == TotalRolloutSteps
<1>1. /\ SamplesInv /\ SInv /\ BatchInv /\ batch \in Seq(Samples) /\ n \in Nat /\ trained \subseteq Samples
      /\ r \in Nat \ {0} /\ t \in Nat
  <2>1. SamplesInv /\ SInv
    BY DEF EndInv, FateInv
  <2> QED BY <2>1, AgeTypes, Known, Numbers DEF RollInv, TypeOK, TrainTypeOK
<1>2. stopping /\ \A s \in Samples : Occurrences(s, batch) + InSet(s, trained) = 1
  BY AllAreSomewhere
<1>3. n < r
  BY <1>1, <1>2 DEF SInv, Validated, BatchInv
<1>4. B \subseteq Samples /\ Cardinality(B) = n
  BY <1>1, BatchPlaces DEF Pipeline!In
<1>5. ASSUME NEW s \in Samples PROVE s \in B <=> s \notin trained
  <2>1. s \in B <=> Occurrences(s, batch) > 0
    BY <1>1, OccursOrNot
  <2>2. Occurrences(s, batch) \in Nat /\ InSet(s, trained) = (IF s \in trained THEN 1 ELSE 0)
    BY <1>1, PositionsFinite DEF InSet
  <2> QED BY <1>2, <2>1, <2>2
<1>6. B \cup trained = Samples /\ B \cap trained = {}
  BY <1>1, <1>4, <1>5
<1>7. IsFiniteSet(B) /\ IsFiniteSet(trained) /\ c \in Nat /\ Cardinality(Samples) = t
  <2>1. Cardinality(Samples) = t
    <3>1. Samples = 1..t
      BY Numbers
    <3>2. Cardinality(1..t) = IF 1 > t THEN 0 ELSE t - 1 + 1
      BY <1>1, FS_Interval
    <3> HIDE DEF t
    <3> QED BY <1>1, <3>1, <3>2
  <2> QED BY <1>1, <1>4, <2>1, Numbers, FS_Subset, FS_CardinalityType
<1>8. t = n + c
  <2>1. Cardinality(B \cup trained) = Cardinality(B) + Cardinality(trained) - Cardinality(B \cap trained)
    BY <1>7, FS_Union
  <2>2. Cardinality(B \cap trained) = 0
    BY <1>6, FS_EmptySet
  <2>3. t = n + c - 0
    BY <1>4, <1>6, <1>7, <2>1, <2>2
  <2> HIDE DEF t, n, c
  <2> QED BY <1>1, <1>7, <2>3
<1>9. PICK k \in Nat : c = r * k
  BY DEF WholeInv, WholeBatches
<1>10. t % r = n
  <2>1. (r * k + n) % r = n
    BY <1>1, <1>3, RestOfWhole
  <2>2. t = r * k + n
    <3> HIDE DEF t, n, c, r
    <3> QED BY <1>1, <1>7, <1>8, <1>9
  <2> QED BY <2>1, <2>2
<1>11. c = t - n
  <2> HIDE DEF t, n, c
  <2> QED BY <1>1, <1>7, <1>8
<1> QED BY <1>10, <1>11

\* With a threshold of less than one sample, without partial rollout and without failures, every sample is trained
\* on but those that fill no batch, for every number of samples, servers and size of a batch (README.md:116-117).
THEOREM EverySampleIsTrained == ASSUME Undisturbed PROVE Spec => []EverySampleTrained
<1>1. Spec => []CrashesOnlyOnFailure
  BY ProcessorCrashesOnlyOnFailure DEF Undisturbed
<1>2. Spec => []FreshInv
  BY FreshInvariance DEF Undisturbed
<1>3. EndInv /\ SamplesInv' /\ AgeInv /\ FreshInv /\ CrashesOnlyOnFailure /\ WholeInv /\ [Next]_vars => WholeInv'
  BY WholeInvNext
<1>4. Spec => []WholeInv
  BY <1>1, <1>2, <1>3, SamplesInvariance, EndInvariance, WholeInvInitial, PTL DEF Spec
<1>5. EndInv /\ FreshInv /\ CrashesOnlyOnFailure /\ WholeInv => EverySampleTrained
  BY AllAreTrained DEF EverySampleTrained
<1> QED BY <1>1, <1>2, <1>4, <1>5, EndInvariance, PTL
=============================================================================
