----------------------------- MODULE RolloutProofs -----------------------------
(***************************************************************************)
(* First the synchronizations of the trainer and the rollouter: the         *)
(* versions the three processes hold, the validation results on their way,  *)
(* and the checkpoints due, for any number of samples, steps and            *)
(* frequencies.  Then the samples of the recipe: no step of the feeder, the *)
(* processor, a task, the monitor, the synchronizer, the queue or the       *)
(* trainer copies one.                                                      *)
(***************************************************************************)
EXTENDS FullyAsync, SequenceTheorems, FiniteSetTheorems, FunctionTheorems, TLAPS

(* The synchronizations. *)

\* Where the handler of the synchronizer's calls is: in pause, asked to take the new
\* version, before the validation results are sent, and after that.
InPause == {"pauseCall", "pausing", "cancelling", "cancelled", "gathering", "flushing", "paused"}
Asked == {"updateCall", "updating"}
Unsent == {"sizing", "sized", "validating"}
Sent == {"validated", "resumeCall", "resuming", "serversResuming", "serversResumed", "none"}

Places == {"collect", "train", "waitValid", "pause", "transfer", "log", "final", "finalWait", "ended"}

\* The places from the making of a new version to its checkpoint.
NewInHand == {"waitValid", "pause", "transfer", "log", "finalWait"}

syncState == <<sync, syncVersion, version, mqVersion, valQueue>>
trainState == <<trainer, localStep, trainerVersion, lastCkptVersion, stopping>>

SyncTypes ==
    /\ {version, mqVersion, trainerVersion, lastCkptVersion} \subseteq Nat
    /\ localStep \in Nat \ {0} /\ valQueue \in Seq(Nat)
    /\ sync \in InPause \cup Asked \cup Unsent \cup Sent /\ trainer \in Places

\* Who has the new version, while it goes from the trainer to the queue to the rollouter.
Handed ==
    /\ trainerVersion = mqVersion + (IF trainer \in {"waitValid", "pause"} THEN 1 ELSE 0)
    /\ mqVersion = version + (IF trainer = "transfer" \/ sync \in Asked THEN 1 ELSE 0)
    /\ sync \in Asked => syncVersion = mqVersion
    /\ sync \in InPause <=> trainer \in {"pause", "transfer"}
    /\ trainer = "transfer" => sync = "paused"
    /\ trainer = "ended" => sync = "none"

\* What the trainer has still to read: the results in the queue and those on their way.
Unread == Len(valQueue) + (IF sync \in Asked \cup Unsent THEN 1 ELSE 0)

Validated ==
    /\ Unread <= IF trainer = "log" THEN 2
                 ELSE IF stopping /\ trainer \notin {"final", "finalWait"} THEN 0 ELSE 1
    /\ stopping => trainer \notin {"collect", "train", "log"}
    /\ trainer \in {"final", "finalWait", "ended"} => stopping

LastDue(v) == v - (v % SaveFreq)

Saved ==
    /\ trainer \in {"waitValid", "pause", "transfer", "finalWait", "ended"} => localStep = 1
    /\ SaveFreq > 0 =>
         \/ lastCkptVersion = LastDue(trainerVersion)
         \/ /\ trainer \in NewInHand /\ trainerVersion > 0
            /\ lastCkptVersion = LastDue(trainerVersion - 1)

SInv == SyncTypes /\ Handed /\ Validated /\ Saved

-----------------------------------------------------------------------------
(* Steps. *)

\* What the handler and what it waits for may do: the places it goes through, ...
SyncMoves ==
    {<<"pauseCall", "pausing">>, <<"pausing", "cancelling">>, <<"pausing", "flushing">>,
     <<"pausing", "gathering">>, <<"cancelling", "cancelled">>, <<"cancelled", "flushing">>,
     <<"cancelled", "gathering">>, <<"gathering", "flushing">>, <<"gathering", "gathering">>,
     <<"flushing", "paused">>, <<"updateCall", "updating">>, <<"sizing", "sized">>,
     <<"sized", "validating">>, <<"validated", "resumeCall">>, <<"resumeCall", "resuming">>,
     <<"resuming", "serversResuming">>, <<"resuming", "none">>,
     <<"serversResuming", "serversResumed">>, <<"serversResumed", "none">>}

Moves == <<sync, sync'>> \in SyncMoves /\ UNCHANGED <<syncVersion, version, mqVersion, valQueue>>

\* ... the new version, and the validation results.
TakesVersion ==
    /\ sync = "updating" /\ sync' = "sizing" /\ version' = syncVersion
    /\ UNCHANGED <<syncVersion, mqVersion, valQueue>>
SendsValidation ==
    /\ sync = "validating" /\ sync' = "validated" /\ valQueue' = Append(valQueue, version)
    /\ UNCHANGED <<syncVersion, version, mqVersion>>

\* Nobody but the handler and its calls touches the versions in the rollouter.
LEMMA RollouterSteps ==
  ASSUME RollNext
  PROVE  UNCHANGED syncState \/ Moves \/ TakesVersion \/ SendsValidation
<1> USE DEF syncState
<1>1. CASE FeederPuts \/ FeederEnds
  BY <1>1 DEF FeederPuts, FeederEnds, FeederDoes, mqVars, syncVars
<1>2. CASE Processor
  BY <1>2 DEF Processor, mqVars, syncVars
<1>3. CASE TaskSteps
  BY <1>3 DEF TaskSteps, mqVars, syncVars
<1>4. CASE Monitor \/ MonitorTimer
  BY <1>4 DEF Monitor, MonitorTimer, mqVars, syncVars
<1>5. CASE Main \/ QueueTakesNone
  BY <1>5 DEF Main, MainOnly, MainSends, MainLocks, MainStops, QueueTakesNone, PutSample,
              mqVars, syncVars
<1>6. ASSUME NEW s \in Samples,
             ServersTake(s) \/ ServersAnswer(s) \/ ServersFail(s) \/ QueueTakes(s) \/ QueueAnswers(s)
      PROVE  UNCHANGED syncState
  BY <1>6 DEF ServersTake, ServersAnswer, ServersFail, QueueTakes, QueueAnswers, TaskOutside,
              PutSample, mqVars, syncVars
<1>7. CASE Sync
  <2>1. syncVersion' = syncVersion
    BY <1>7 DEF Sync
  <2>2. CASE CallLocks
    BY <2>1, <2>2 DEF CallLocks, SyncGoes, Moves, SyncMoves, mqVars
  <2>3. CASE PauseBegins
    BY <2>1, <2>3 DEF PauseBegins, SyncOwns, Gathers, Moves, SyncMoves, mqVars
  <2>4. CASE PauseGathers
    BY <2>1, <2>4 DEF PauseGathers, Gathers, Moves, SyncMoves, mqVars
  <2>5. CASE PauseEnds
    BY <2>1, <2>5 DEF PauseEnds, SyncOwns, Moves, SyncMoves, mqVars
  <2>6. CASE UpdateBegins
    BY <2>1, <2>6 DEF UpdateBegins, SyncOwns, VersionTaken, TakesVersion, mqVars
  <2>7. CASE UpdateResets
    BY <2>1, <2>7 DEF UpdateResets, SyncOwns, Moves, SyncMoves, mqVars
  <2>8. CASE UpdateEnds
    BY <2>1, <2>8 DEF UpdateEnds, SyncOwns, SyncGoes, Moves, SyncMoves, mqVars
  <2>9. CASE ResumeAsksServers
    BY <2>1, <2>9 DEF ResumeAsksServers, SyncOwns, SyncGoes, Moves, SyncMoves, mqVars
  <2>10. CASE ResumeEnds
    BY <2>1, <2>10 DEF ResumeEnds, SyncOwns, Moves, SyncMoves, mqVars
  <2> QED
    BY <1>7, <2>2, <2>3, <2>4, <2>5, <2>6, <2>7, <2>8, <2>9, <2>10 DEF Sync
<1>8. CASE SyncEnvironment
  BY <1>8 DEF SyncEnvironment, ServersCancel, ServersResume, QueueSizes, QueueTakesValidate,
              SyncArrives, SyncOutside, PutValidate, Moves, SyncMoves, SendsValidation, mqVars
<1> QED
  BY <1>1, <1>2, <1>3, <1>4, <1>5, <1>6, <1>7, <1>8 DEF RollNext, LoopRuns, TaskEnvironment

\* What the trainer and the main program do to them.
LEMMA StepsOfTheRest ==
  ASSUME (TrainNext /\ UNCHANGED runner) \/ RunnerEnds \/ Terminated \/ UNCHANGED vars
  PROVE  \/ UNCHANGED <<syncState, trainState>>
         \/ /\ trainer = "collect" /\ trainer' \in {"collect", "train"}
            /\ UNCHANGED <<syncState, localStep, trainerVersion, lastCkptVersion, stopping>>
         \/ /\ CollectStops /\ UNCHANGED syncState
         \/ Trains \/ CallsPause \/ TransferBegins \/ TransferEnds
         \/ Logs \/ Finishes \/ FinishesSync
<1>1. CASE CollectWaits
  BY <1>1 DEF CollectWaits, GetSampleWaits, syncState, trainState, rollVars, syncVars, trainVars
<1>2. CASE CollectTakes
  BY <1>2 DEF CollectTakes, GetSampleReturns, syncState, rollVars, syncVars
<1>3. CASE CollectStops
  BY <1>3 DEF CollectStops, GetSampleReturns, syncState, rollVars, syncVars
<1>4. CASE RunnerEnds
  BY <1>4 DEF RunnerEnds, ClearQueue, syncState, trainState, rollVars, syncVars, trainVars
<1>5. CASE Terminated \/ UNCHANGED vars
  BY <1>5 DEF Terminated, vars, syncState, trainState, mqVars, rollVars, syncVars, trainVars
<1> QED
  BY <1>1, <1>2, <1>3, <1>4, <1>5 DEF TrainNext
-----------------------------------------------------------------------------
(* The invariant. *)

\* Between two multiples of save_freq the last one stays the same.
LEMMA LastDueStays ==
  ASSUME NEW d \in Nat, d > 0, NEW v \in Nat, v > 0, v % d # 0
  PROVE  v - (v % d) = (v - 1) - ((v - 1) % d)
<1> DEFINE q == v \div d
           r == v % d
           p == (v - 1) \div d
           t == (v - 1) % d
<1>1. q \in Int /\ r \in 0..(d - 1) /\ v = d * q + r
  OBVIOUS
<1>2. p \in Int /\ t \in 0..(d - 1) /\ v - 1 = d * p + t
  OBVIOUS
<1> HIDE DEF q, r, p, t
<1>3. d * q - d * p = 1 + t - r /\ 1 + t - r < d /\ 1 + t - r > -d
  BY <1>1, <1>2 DEF r
<1>4. d * (q - p) = d * q - d * p
  BY <1>1, <1>2
<1>5. q - p = 0
  BY <1>1, <1>2, <1>3, <1>4
<1> QED
  BY <1>1, <1>2, <1>3, <1>5 DEF r, t

LEMMA SInvInitial == Init => SInv
<1> SUFFICES ASSUME Init PROVE SInv
  OBVIOUS
<1>1. SaveFreq > 0 => LastDue(0) = 0
  BY FrequencyAssumption DEF LastDue
<1>2. valQueue = <<>> /\ Len(valQueue) = 0
  BY DEF Init, MQInit
<1>3. SyncTypes /\ Handed
  BY DEF Init, MQInit, RollInit, TrainInit, SyncTypes, Handed, InPause, Asked, Unsent, Sent, Places
<1>4. Validated /\ Saved
  BY <1>1, <1>2 DEF Init, RollInit, TrainInit, Validated, Saved, Unread, Asked, Unsent
<1> QED BY <1>3, <1>4 DEF SInv

LEMMA SInvNext == SInv /\ [Next]_vars => SInv'
<1> SUFFICES ASSUME SInv, [Next]_vars PROVE SInv'
  OBVIOUS
<1>1. SyncTypes /\ Handed /\ Validated /\ Saved
  BY DEF SInv
<1>2. SaveFreq \in Nat
  BY FrequencyAssumption
<1> USE DEF InPause, Asked, Unsent, Sent
<1>3. CASE UNCHANGED <<syncState, trainState>>
  BY <1>1, <1>3 DEF syncState, trainState, SInv, SyncTypes, Handed, Validated, Unread, Saved, LastDue
<1>4. ASSUME UNCHANGED trainState, UNCHANGED <<version, mqVersion, valQueue, syncVersion>>,
             <<sync, sync'>> \in SyncMoves
      PROVE  SInv'
  <2>1. UNCHANGED <<trainer, localStep, trainerVersion, lastCkptVersion, stopping>>
    BY <1>4 DEF trainState
  <2>2. SyncTypes'
    BY <1>1, <1>4, <2>1 DEF SyncTypes, SyncMoves
  <2>3. Handed'
    BY <1>1, <1>4, <2>1 DEF SyncTypes, Handed, SyncMoves
  <2>4. Unread' = Unread
    BY <1>4 DEF Unread, SyncMoves
  <2>5. Validated' /\ Saved'
    BY <1>1, <2>1, <2>4 DEF Validated, Saved, LastDue
  <2> QED BY <2>2, <2>3, <2>5 DEF SInv
<1>5. CASE TakesVersion /\ UNCHANGED trainState
  <2>1. UNCHANGED <<trainer, localStep, trainerVersion, lastCkptVersion, stopping>>
    BY <1>5 DEF trainState
  <2>2. SyncTypes' /\ Handed'
    BY <1>1, <1>5, <2>1 DEF SyncTypes, Handed, TakesVersion
  <2>3. Unread' = Unread
    BY <1>5 DEF Unread, TakesVersion
  <2> QED BY <1>1, <2>1, <2>2, <2>3 DEF SInv, Validated, Saved, LastDue
<1>6. CASE SendsValidation /\ UNCHANGED trainState
  <2>1. UNCHANGED <<trainer, localStep, trainerVersion, lastCkptVersion, stopping>>
    BY <1>6 DEF trainState
  <2>2. SyncTypes' /\ Handed'
    BY <1>1, <1>6, <2>1 DEF SyncTypes, Handed, SendsValidation
  <2>3. Len(valQueue') = Len(valQueue) + 1
    BY <1>1, <1>6 DEF SyncTypes, SendsValidation
  <2>4. Unread' = Unread
    BY <1>1, <1>6, <2>3 DEF Unread, SendsValidation, SyncTypes
  <2> QED BY <1>1, <2>1, <2>2, <2>4 DEF SInv, Validated, Saved, LastDue
<1>7. ASSUME trainer = "collect", trainer' \in {"collect", "train"},
             UNCHANGED <<syncState, localStep, trainerVersion, lastCkptVersion, stopping>>
      PROVE  SInv'
  BY <1>1, <1>7 DEF syncState, SInv, SyncTypes, Places, Handed, Validated, Unread, Saved, LastDue,
                    NewInHand
<1>8. CASE CollectStops /\ UNCHANGED syncState
  BY <1>1, <1>8 DEF CollectStops, syncState, SInv, SyncTypes, Places, Handed, Validated, Unread,
                    Saved, LastDue, NewInHand
<1>9. CASE Trains
  <2>1. UNCHANGED <<syncState, lastCkptVersion, stopping>> /\ trainer = "train"
    BY <1>9 DEF Trains, syncState, mqVars, rollVars, syncVars
  <2>2. CASE localStep' = localStep + 1 /\ trainer' = "log" /\ UNCHANGED trainerVersion
    BY <1>1, <2>1, <2>2 DEF syncState, SInv, SyncTypes, Places, Handed, Validated, Unread, Saved,
                            LastDue, NewInHand
  <2>3. CASE NewVersion /\ trainer' = "waitValid"
    BY <1>1, <2>1, <2>3 DEF NewVersion, syncState, SInv, SyncTypes, Places, Handed, Validated,
                            Unread, Saved, LastDue, NewInHand
  <2> QED BY <1>9, <2>2, <2>3 DEF Trains
<1>10. CASE CallsPause
  <2>1. UNCHANGED <<version, mqVersion, valQueue, syncVersion, localStep, trainerVersion,
                    lastCkptVersion, stopping>>
    BY <1>10 DEF CallsPause, TrainerGoes, RollouterButSync, mqVars
  <2>2. trainer = "waitValid" /\ trainer' = "pause" /\ sync = "none" /\ sync' = "pauseCall"
    BY <1>10 DEF CallsPause, TrainerGoes, SyncIdle
  <2> QED BY <1>1, <2>1, <2>2 DEF SInv, SyncTypes, Places, Handed, Validated, Unread, Saved,
                                  LastDue, NewInHand
<1>11. CASE TransferBegins
  <2>1. /\ UNCHANGED <<version, valQueue, sync, syncVersion, localStep, trainerVersion,
                       lastCkptVersion, stopping>>
        /\ trainer = "pause" /\ trainer' = "transfer" /\ sync = "paused"
        /\ mqVersion' = trainerVersion
    BY <1>11 DEF TransferBegins, UpdateParamVersion, TrainerGoes, rollVars, syncVars
  <2> QED BY <1>1, <2>1 DEF SInv, SyncTypes, Places, Handed, Validated, Unread, Saved,
                            LastDue, NewInHand
<1>12. CASE TransferEnds
  <2>1. /\ UNCHANGED <<version, mqVersion, valQueue, localStep, trainerVersion, lastCkptVersion,
                       stopping>>
        /\ trainer = "transfer" /\ trainer' = IF stopping THEN "finalWait" ELSE "log"
        /\ sync' = "updateCall" /\ syncVersion' = trainerVersion
    BY <1>12 DEF TransferEnds, TrainerGoes, RollouterButSync, mqVars
  <2>2. sync = "paused"
    BY <1>1, <2>1 DEF Handed
  <2>3. Unread' = Unread + 1 /\ Unread \in Nat
    BY <1>1, <2>1, <2>2 DEF Unread, SyncTypes
  <2> QED BY <1>1, <2>1, <2>2, <2>3 DEF SInv, SyncTypes, Places, Handed, Validated, Saved,
                                        LastDue, NewInHand
\* A result is read if there is one, and a checkpoint is saved if it is due.
<1>13. ASSUME GetValidate
       PROVE  /\ valQueue' \in Seq(Nat) /\ mqVersion' = mqVersion
              /\ Len(valQueue') <= IF Len(valQueue) > 0 THEN Len(valQueue) - 1 ELSE 0
  BY <1>1, <1>13 DEF GetValidate, SyncTypes
<1>14. ASSUME ChecksCheckpoint, trainerVersion' = trainerVersion
       PROVE  /\ lastCkptVersion' \in Nat
              /\ SaveFreq > 0 => lastCkptVersion' = LastDue(trainerVersion)
  <2>1. trainerVersion \in Nat /\ lastCkptVersion \in Nat
    BY <1>1 DEF SyncTypes
  <2>2. CASE CheckpointDue
    BY <1>14, <2>1, <2>2 DEF ChecksCheckpoint, CheckpointDue, LastDue
  <2>3. CASE ~CheckpointDue /\ SaveFreq > 0 /\ trainerVersion % SaveFreq = 0
    BY <1>14, <2>1, <2>3 DEF ChecksCheckpoint, CheckpointDue, LastDue
  <2>4. CASE ~CheckpointDue /\ SaveFreq > 0 /\ trainerVersion % SaveFreq # 0
    <3>1. trainerVersion > 0 => LastDue(trainerVersion - 1) = LastDue(trainerVersion)
      BY <1>2, <2>1, <2>4, LastDueStays DEF LastDue
    <3> QED BY <1>1, <1>14, <2>1, <2>4, <3>1 DEF ChecksCheckpoint, Saved
  <2> QED BY <1>2, <1>14, <2>1, <2>2, <2>3, <2>4 DEF ChecksCheckpoint
<1>15. CASE Logs
  <2>1. /\ UNCHANGED <<sync, syncVersion, version, localStep, trainerVersion, stopping>>
        /\ trainer = "log" /\ trainer' = "collect" /\ GetValidate /\ ChecksCheckpoint
    BY <1>15 DEF Logs, rollVars, syncVars
  <2> QED BY <1>1, <1>13, <1>14, <2>1 DEF SInv, SyncTypes, Places, Handed, Validated, Unread, Saved,
                                          LastDue, NewInHand
<1>16. CASE Finishes
  <2>1. /\ UNCHANGED <<sync, syncVersion, version, stopping>>
        /\ trainer = "final" /\ GetValidate /\ sync = "none"
    BY <1>16 DEF Finishes, SyncIdle, rollVars, syncVars
  <2>2. Unread' = 0 /\ stopping
    BY <1>1, <1>13, <2>1 DEF SyncTypes, Validated, Unread
  <2>3. CASE NewVersion /\ trainer' = "waitValid" /\ UNCHANGED lastCkptVersion
    BY <1>1, <1>13, <2>1, <2>2, <2>3 DEF NewVersion, SInv, SyncTypes, Places, Handed, Validated,
                                         Saved, LastDue, NewInHand
  <2>4. CASE /\ ~NeedsFinalSync /\ ChecksCheckpoint /\ trainer' = "ended"
             /\ UNCHANGED <<localStep, trainerVersion>>
    <3>1. localStep = 1
      BY <1>1, <2>4 DEF NeedsFinalSync, SyncTypes
    <3> QED BY <1>1, <1>13, <1>14, <2>1, <2>2, <2>4, <3>1
            DEF SInv, SyncTypes, Places, Handed, Validated, Saved, LastDue, NewInHand
  <2> QED BY <1>16, <2>3, <2>4 DEF Finishes
<1>17. CASE FinishesSync
  <2>1. /\ UNCHANGED <<sync, syncVersion, version, localStep, trainerVersion, stopping>>
        /\ trainer = "finalWait" /\ trainer' = "ended" /\ sync = "none"
        /\ GetValidate /\ ChecksCheckpoint
    BY <1>17 DEF FinishesSync, SyncIdle, rollVars, syncVars
  <2>2. Unread' = 0 /\ stopping
    BY <1>1, <1>13, <2>1 DEF SyncTypes, Validated, Unread
  <2> QED BY <1>1, <1>13, <1>14, <2>1, <2>2 DEF SInv, SyncTypes, Places, Handed, Validated, Saved,
                                                LastDue, NewInHand
<1>18. CASE RollNext /\ Others
  <2>1. UNCHANGED trainState
    BY <1>18 DEF Others, trainVars, trainState
  <2> QED BY <1>3, <1>4, <1>5, <1>6, <1>18, <2>1, RollouterSteps DEF Moves
<1>19. CASE (TrainNext /\ UNCHANGED runner) \/ RunnerEnds \/ Terminated \/ UNCHANGED vars
  BY <1>3, <1>7, <1>8, <1>9, <1>10, <1>11, <1>12, <1>15, <1>16, <1>17, <1>19, StepsOfTheRest
<1> QED
  BY <1>18, <1>19 DEF Next

LEMMA SInvariance == Spec => []SInv
  BY SInvInitial, SInvNext, PTL DEF Spec

\* The versions of the trainer, the message queue and the rollouter never differ by more
\* than the step that is being handed over (fully_async_trainer.py 462-488, param_sync.py
\* 97-124, fully_async_rollouter.py 210-213), and agree when no synchronization is under way.
THEOREM VersionsStayInStep == Spec => []VersionsInStep
<1>1. SInv => VersionsInStep
  BY DEF SInv, SyncTypes, Handed, VersionsInStep, Asked, InPause
<1> QED BY <1>1, SInvariance, PTL

\* The trainer reads every validation result, and at most two are in the queue
\* (fully_async_trainer.py 279-292, 478-494): each synchronization sends one, the trainer waits for it
\* before the next, and asks for one after every step.
THEOREM ValidationsAreRead == Spec => []ValidationsRead
<1>1. SInv => ValidationsRead
  <2> SUFFICES ASSUME SInv PROVE ValidationsRead
    OBVIOUS
  <2>1. valQueue \in Seq(Nat) /\ Len(valQueue) \in Nat
    BY DEF SInv, SyncTypes
  <2>2. Len(valQueue) <= 2 /\ (trainer = "ended" => Len(valQueue) = 0)
    BY <2>1 DEF SInv, Validated, Unread
  <2> QED BY <2>1, <2>2, EmptySeq DEF ValidationsRead
<1> QED BY <1>1, SInvariance, PTL

\* When the trainer ends, the rollouter has its last weights, no step is left out of them, and the
\* last multiple of save_freq is saved (fully_async_trainer.py 282-319), for every frequency.
THEOREM TrainerEndsSynchronized == Spec => []EndsSynchronized
<1>1. SInv => EndsSynchronized
  BY DEF SInv, SyncTypes, Handed, Saved, EndsSynchronized, NewInHand, LastDue, Asked
<1> QED BY <1>1, SInvariance, PTL

-----------------------------------------------------------------------------
(* The samples. *)

Coroutines == LockUsers \cup {Feeder} \cup {TaskOf(s) : s \in Samples}

\* How often c is ready, has asked for the lock, and has the lock.
R(c) == Occurrences(c, ready)
K(c) == Occurrences(c, lockQueue)
F(c) == IF lockQueue # <<>> /\ Head(lockQueue) = c THEN 1 ELSE 0

\* How often c will run: it is ready, or it waits for the lock.
Present(c) == R(c) + K(c) - F(c)

\* Where the processor has asked for the lock.
Locking == {"pausing", "drainLock", "drainWait", "idle", "submit"}

ProcLoop ==
    /\ Present(Proc) <= 1
    /\ K(Proc) = IF processor \in Locking THEN 1 ELSE 0
    /\ processor = "drainWait" => F(Proc) = 1
    /\ processor = "get" /\ R(Proc) > 0 => pendingQueue # <<>>

\* Where the processor holds a sample.
Draining == {"drain", "drainLock", "drainWait"}
Holding == processor \in {"submit", "submitWait"} \/ (processor \in Draining /\ drainFor = "capacity")

HandInv == processor # "crashed" => (hand # None <=> Holding)

Room ==
    /\ ActiveTasks <= MaxConcurrent
    /\ processor \in {"submit", "submitWait"} => ActiveTasks < MaxConcurrent

FeedInv == feeder = "feeding" => fed < TotalRolloutSteps

BatchInv == IF trainer = "train" THEN Len(batch) = RequiredSamples ELSE Len(batch) < RequiredSamples

RollInv == TypeOK /\ ProcLoop /\ HandInv /\ Room /\ FeedInv /\ BatchInv

-----------------------------------------------------------------------------
(* Counting in sequences. *)

Positions(s, q) == {i \in 1..Len(q) : q[i] = s}

LEMMA PositionsFinite ==
  ASSUME NEW E, NEW q \in Seq(E), NEW s
  PROVE  IsFiniteSet(Positions(s, q)) /\ Occurrences(s, q) \in Nat
         /\ Occurrences(s, q) = Cardinality(Positions(s, q))
<1>1. IsFiniteSet(1..Len(q))
  BY FS_Interval
<1>2. IsFiniteSet(Positions(s, q))
  BY <1>1, FS_Subset DEF Positions
<1> QED BY <1>2, FS_CardinalityType DEF Positions, Occurrences

LEMMA OccursOrNot ==
  ASSUME NEW E, NEW q \in Seq(E), NEW s
  PROVE  Occurrences(s, q) > 0 <=> \E i \in 1..Len(q) : q[i] = s
<1>1. Occurrences(s, q) = 0 <=> Positions(s, q) = {}
  BY PositionsFinite, FS_EmptySet
<1>2. Occurrences(s, q) \in Nat
  BY PositionsFinite
<1>3. Positions(s, q) # {} <=> \E i \in 1..Len(q) : q[i] = s
  BY DEF Positions
<1> QED BY <1>1, <1>2, <1>3

LEMMA HeadOccurs ==
  ASSUME NEW E, NEW q \in Seq(E), q # <<>>
  PROVE  Occurrences(Head(q), q) > 0
<1>1. 1 \in 1..Len(q) /\ q[1] = Head(q)
  BY EmptySeq
<1> QED BY <1>1, OccursOrNot

LEMMA OccursInNone ==
  ASSUME NEW s
  PROVE  Occurrences(s, <<>>) = 0
<1>1. {i \in 1..Len(<<>>) : <<>>[i] = s} = {}
  OBVIOUS
<1> QED BY <1>1, FS_EmptySet DEF Occurrences

LEMMA OccursAppended ==
  ASSUME NEW E, NEW q \in Seq(E), NEW e \in E, NEW s
  PROVE  Occurrences(s, Append(q, e)) = Occurrences(s, q) + IF e = s THEN 1 ELSE 0
<1> DEFINE n == Len(q) + 1
<1>1. /\ Append(q, e) \in Seq(E) /\ Len(Append(q, e)) = n /\ Len(q) \in Nat
      /\ Append(q, e)[n] = e /\ \A i \in 1..Len(q) : Append(q, e)[i] = q[i]
  BY AppendProperties, LenProperties
<1>2. n \notin Positions(s, q)
  BY <1>1 DEF Positions
<1>0. /\ IsFiniteSet(Positions(s, q)) /\ Occurrences(s, q) = Cardinality(Positions(s, q))
      /\ Occurrences(s, Append(q, e)) = Cardinality(Positions(s, Append(q, e)))
      /\ Occurrences(s, q) \in Nat
  BY <1>1, PositionsFinite
<1>3. CASE e = s
  <2>1. Positions(s, Append(q, e)) = Positions(s, q) \cup {n}
    BY <1>1, <1>3 DEF Positions
  <2>2. Cardinality(Positions(s, q) \cup {n}) = Cardinality(Positions(s, q)) + 1
    BY <1>0, <1>2, FS_AddElement
  <2> QED BY <1>0, <1>3, <2>1, <2>2
<1>4. CASE e # s
  <2>1. Positions(s, Append(q, e)) = Positions(s, q)
    BY <1>1, <1>4 DEF Positions
  <2> QED BY <1>0, <1>4, <2>1
<1> QED BY <1>3, <1>4

\* A finite set of integers, moved.
LEMMA Moved ==
  ASSUME NEW S \in SUBSET Int, IsFiniteSet(S), NEW k \in Int
  PROVE  IsFiniteSet({i + k : i \in S}) /\ Cardinality({i + k : i \in S}) = Cardinality(S)
<1> DEFINE T == {i + k : i \in S}
           f == [i \in S |-> i + k]
<1>1. f \in Bijection(S, T)
  <2>1. f \in [S -> T]
    OBVIOUS
  <2>2. \A a, b \in S : f[a] = f[b] => a = b
    OBVIOUS
  <2>3. \A t \in T : \E a \in S : f[a] = t
    OBVIOUS
  <2> QED BY <2>1, <2>2, <2>3, Fun_IsBij
<1>2. ExistsBijection(S, T)
  BY <1>1 DEF ExistsBijection
<1> QED BY <1>2, FS_Bijection

LEMMA OccursConcatenated ==
  ASSUME NEW E, NEW q \in Seq(E), NEW p \in Seq(E), NEW s
  PROVE  Occurrences(s, q \o p) = Occurrences(s, q) + Occurrences(s, p)
<1> DEFINE n == Len(q)
           A == Positions(s, q)
           B == Positions(s, p)
           C == {i + n : i \in B}
<1>1. /\ q \o p \in Seq(E) /\ Len(q \o p) = n + Len(p) /\ n \in Nat /\ Len(p) \in Nat
      /\ \A i \in 1..(n + Len(p)) : (q \o p)[i] = IF i <= n THEN q[i] ELSE p[i - n]
  BY ConcatProperties, LenProperties
<1>2. IsFiniteSet(A) /\ IsFiniteSet(B) /\ A \subseteq 1..n /\ B \subseteq 1..Len(p)
  BY PositionsFinite DEF Positions
<1>3. IsFiniteSet(C) /\ Cardinality(C) = Cardinality(B)
  <2>1. B \in SUBSET Int /\ n \in Int
    BY <1>1, <1>2
  <2> HIDE DEF B, n
  <2> QED BY <1>2, <2>1, Moved
<1>4. A \cap C = {}
  BY <1>1, <1>2
<1>5. Positions(s, q \o p) = A \cup C
  <2>1. ASSUME NEW i \in Positions(s, q \o p) PROVE i \in A \cup C
    <3>1. CASE i <= n
      BY <1>1, <3>1 DEF Positions
    <3>2. CASE i > n
      <4>1. i - n \in B /\ i = (i - n) + n
        BY <1>1, <3>2 DEF Positions
      <4> QED BY <4>1
    <3> QED BY <1>1, <3>1, <3>2 DEF Positions
  <2>2. A \subseteq Positions(s, q \o p)
    BY <1>1 DEF Positions
  <2>3. ASSUME NEW i \in B PROVE i + n \in Positions(s, q \o p)
    BY <1>1 DEF Positions
  <2> QED BY <2>1, <2>2, <2>3
<1> HIDE DEF A, B, C
<1>6. Cardinality(A \cup C) = Cardinality(A) + Cardinality(C) - Cardinality(A \cap C)
  BY <1>2, <1>3, FS_Union
<1>7. Cardinality(A \cap C) = 0 /\ Cardinality(A) \in Nat /\ Cardinality(C) \in Nat
  BY <1>2, <1>3, <1>4, FS_EmptySet, FS_CardinalityType
<1>8. Cardinality(A \cup C) = Cardinality(A) + Cardinality(C)
  BY <1>6, <1>7
<1> QED BY <1>1, <1>3, <1>5, <1>8, PositionsFinite DEF A, B

LEMMA OccursOnce ==
  ASSUME NEW e, NEW s
  PROVE  Occurrences(s, <<e>>) = IF e = s THEN 1 ELSE 0
<1>1. <<>> \in Seq({e}) /\ Append(<<>>, e) = <<e>>
  OBVIOUS
<1>2. Occurrences(s, <<e>>) = Occurrences(s, <<>>) + IF e = s THEN 1 ELSE 0
  <2> DEFINE E == {e}
  <2>1. <<>> \in Seq(E) /\ e \in E
    OBVIOUS
  <2> HIDE DEF E
  <2>2. Occurrences(s, Append(<<>>, e)) = Occurrences(s, <<>>) + IF e = s THEN 1 ELSE 0
    BY <2>1, OccursAppended
  <2> QED BY <1>1, <2>2
<1>3. Occurrences(s, <<>>) = 0
  BY OccursInNone
<1> QED BY <1>2, <1>3

LEMMA OccursInTail ==
  ASSUME NEW E, NEW q \in Seq(E), q # <<>>, NEW s
  PROVE  Occurrences(s, Tail(q)) = Occurrences(s, q) - IF Head(q) = s THEN 1 ELSE 0
<1>1. Head(q) \in E /\ Tail(q) \in Seq(E) /\ <<Head(q)>> \in Seq(E)
  BY HeadTailProperties
<1>2. q = <<Head(q)>> \o Tail(q)
  OBVIOUS
<1>3. Occurrences(s, q) = Occurrences(s, <<Head(q)>>) + Occurrences(s, Tail(q))
  BY <1>1, <1>2, OccursConcatenated
<1>4. /\ Occurrences(s, Tail(q)) \in Nat /\ Occurrences(s, q) \in Nat
      /\ Occurrences(s, <<Head(q)>>) = IF Head(q) = s THEN 1 ELSE 0
  BY <1>1, OccursOnce, PositionsFinite
<1> QED BY <1>3, <1>4

-----------------------------------------------------------------------------
(* What the operations of the event loop do to what is counted. *)

LoopTypes == ready \in Seq(Coroutines) /\ lockQueue \in Seq(LockUsers)

LEMMA LockersAreCoroutines ==
  ASSUME LoopTypes
  PROVE  lockQueue \in Seq(Coroutines)
<1>1. LockUsers \subseteq Coroutines
  BY DEF Coroutines
<1> QED BY <1>1, SeqMonotonic DEF LoopTypes

LEMMA Counts ==
  ASSUME LoopTypes, NEW c
  PROVE  /\ R(c) \in Nat /\ K(c) \in Nat /\ F(c) \in {0, 1} /\ F(c) <= K(c) /\ Present(c) \in Nat
         /\ IsReady(c) <=> R(c) > 0
         /\ F(c) = 1 <=> lockQueue # <<>> /\ Head(lockQueue) = c
<1>1. R(c) \in Nat /\ K(c) \in Nat /\ (IsReady(c) <=> R(c) > 0)
  BY PositionsFinite, OccursOrNot DEF LoopTypes, R, K, IsReady
<1>2. F(c) \in {0, 1} /\ (F(c) = 1 <=> lockQueue # <<>> /\ Head(lockQueue) = c)
  BY DEF F
<1>3. F(c) <= K(c)
  <2>1. CASE F(c) = 1
    <3>1. lockQueue # <<>> /\ Head(lockQueue) = c
      BY <1>2, <2>1
    <3>2. 1 \in 1..Len(lockQueue) /\ lockQueue[1] = c
      BY <3>1 DEF LoopTypes
    <3>3. K(c) > 0
      BY <3>2, OccursOrNot DEF LoopTypes, K
    <3> QED BY <1>1, <2>1, <3>3
  <2> QED BY <1>1, <1>2, <2>1
<1> QED BY <1>1, <1>2, <1>3 DEF Present

\* Whether two coroutines are the same, as a number.
Same(c, d) == IF c = d THEN 1 ELSE 0

LEMMA ContinueCounts ==
  ASSUME LoopTypes, NEW w \in Seq(Coroutines), Continue(w), NEW c
  PROVE  ready' \in Seq(Coroutines) /\ R(c)' = R(c) + Occurrences(c, w)
  BY OccursConcatenated DEF LoopTypes, Continue, R

LEMMA SuspendCounts ==
  ASSUME LoopTypes, NEW w \in Seq(Coroutines), NEW d, Runs(d), Suspend(w), NEW c
  PROVE  ready' \in Seq(Coroutines) /\ R(c)' = R(c) + Occurrences(c, w) - Same(c, d)
<1>1. ready \in Seq(Coroutines) /\ ready # <<>> /\ Head(ready) = d
  BY DEF LoopTypes, Runs
<1>2. Tail(ready) \in Seq(Coroutines) /\ ready' = Tail(ready) \o w
  BY <1>1 DEF Suspend
<1>3. Occurrences(c, ready') = Occurrences(c, Tail(ready)) + Occurrences(c, w)
  BY <1>2, OccursConcatenated
<1>4. Occurrences(c, Tail(ready)) = Occurrences(c, ready) - IF Head(ready) = c THEN 1 ELSE 0
  BY <1>1, OccursInTail
<1>5. Occurrences(c, ready) \in Nat /\ Occurrences(c, w) \in Nat
  BY <1>1, PositionsFinite
<1> QED BY <1>1, <1>2, <1>3, <1>4, <1>5 DEF R, Same

LEMMA WakeCounts ==
  ASSUME LoopTypes, NEW d \in Coroutines, Wake(d), NEW c
  PROVE  ready' \in Seq(Coroutines) /\ R(c)' = R(c) + Same(c, d) /\ R(d) = 0
<1>1. ready' = Append(ready, d) /\ ready \in Seq(Coroutines) /\ ~IsReady(d)
  BY DEF Wake, LoopTypes
<1>2. R(c)' = R(c) + IF d = c THEN 1 ELSE 0
  BY <1>1, OccursAppended DEF R
<1>3. R(d) = 0
  BY <1>1, Counts
<1> QED BY <1>1, <1>2, <1>3 DEF Same

LEMMA WakesCounts ==
  ASSUME LoopTypes, NEW d \in Coroutines, NEW asleep \in BOOLEAN, NEW c
  PROVE  /\ Wakes(d, asleep) \in Seq(Coroutines)
         /\ Occurrences(c, Wakes(d, asleep)) = IF asleep /\ R(d) = 0 THEN Same(c, d) ELSE 0
<1>1. IsReady(d) <=> R(d) # 0
  BY Counts
<1>2. CASE asleep /\ R(d) = 0
  BY <1>1, <1>2, OccursOnce DEF Wakes, Same
<1>3. CASE ~(asleep /\ R(d) = 0)
  BY <1>1, <1>3, OccursInNone DEF Wakes, Same
<1> QED BY <1>2, <1>3

\* Who runs counts as ready.
LEMMA RunsIsReady ==
  ASSUME LoopTypes, NEW c, Runs(c)
  PROVE  R(c) > 0
<1>1. ready # <<>> /\ Head(ready) = c /\ ready \in Seq(Coroutines)
  BY DEF LoopTypes, Runs
<1>2. 1 \in 1..Len(ready) /\ ready[1] = c
  BY <1>1
<1> QED BY <1>1, <1>2, OccursOrNot DEF R

LEMMA AcquireCounts ==
  ASSUME LoopTypes, NEW d \in LockUsers, Runs(d), Acquire(d), NEW c
  PROVE  /\ LoopTypes' /\ Present(c)' = Present(c)
         /\ R(c)' = IF lockQueue = <<>> THEN R(c) ELSE R(c) - Same(c, d)
         /\ K(c)' = K(c) + Same(c, d)
         /\ F(c)' = IF lockQueue = <<>> THEN Same(c, d) ELSE F(c)
<1>1. <<>> \in Seq(Coroutines) /\ Occurrences(c, <<>>) = 0
  BY OccursInNone, EmptySeq
<1>2. lockQueue \in Seq(LockUsers) /\ lockQueue' = Append(lockQueue, d)
  BY DEF LoopTypes, Acquire
<1>3. lockQueue' \in Seq(LockUsers) /\ K(c)' = K(c) + Same(c, d)
  BY <1>2, OccursAppended DEF K, Same
<1>4. /\ lockQueue' # <<>>
      /\ Head(lockQueue') = IF lockQueue = <<>> THEN d ELSE Head(lockQueue)
  BY <1>2, HeadTailAppend, AppendProperties
<1>5. F(c)' = IF lockQueue = <<>> THEN Same(c, d) ELSE F(c)
  BY <1>4 DEF F, Same
<1>6. R(c) \in Nat /\ K(c) \in Nat /\ F(c) \in {0, 1}
  BY Counts
<1>7. CASE lockQueue = <<>>
  <2>0. Continue(<<>>)
    BY <1>7 DEF Acquire
  <2>1. ready' \in Seq(Coroutines) /\ R(c)' = R(c) + Occurrences(c, <<>>)
    BY <1>1, <2>0, ContinueCounts
  <2>2. F(c) = 0
    BY <1>7 DEF F
  <2>3. R(c)' = R(c)
    BY <1>1, <1>6, <2>1
  <2> QED BY <1>3, <1>5, <1>6, <1>7, <2>1, <2>2, <2>3 DEF LoopTypes, Present, Same
<1>8. CASE lockQueue # <<>>
  <2>1. Suspend(<<>>)
    BY <1>8 DEF Acquire
  <2>2. ready' \in Seq(Coroutines) /\ R(c)' = R(c) + Occurrences(c, <<>>) - Same(c, d)
    BY <1>1, <2>1, SuspendCounts
  <2>3. Same(c, d) \in {0, 1}
    BY DEF Same
  <2>4. R(c)' = R(c) - Same(c, d)
    BY <1>1, <1>6, <2>2, <2>3
  <2>5. Present(c)' = Present(c)
    BY <1>3, <1>5, <1>6, <1>8, <2>3, <2>4 DEF Present
  <2> QED BY <1>3, <1>5, <1>8, <2>2, <2>4, <2>5 DEF LoopTypes
<1> QED BY <1>7, <1>8

LEMMA NextOwnerCounts ==
  ASSUME LoopTypes, lockQueue # <<>>, lockQueue' = Tail(lockQueue), NEW c
  PROVE  /\ NextOwner \in Seq(Coroutines) /\ Occurrences(c, NextOwner) = F(c)'
         /\ lockQueue' \in Seq(LockUsers) /\ K(c)' = K(c) - F(c)
<1>1. lockQueue \in Seq(LockUsers) /\ lockQueue' \in Seq(LockUsers) /\ Len(lockQueue) \in Nat \ {0}
  BY HeadTailProperties, EmptySeq DEF LoopTypes
<1>2. K(c)' = K(c) - F(c)
  BY <1>1, OccursInTail DEF K, F
<1>3. CASE Len(lockQueue) > 1
  <2>1. NextOwner = SubSeq(lockQueue, 2, 2)
    BY <1>3 DEF NextOwner
  <2>2. lockQueue[2] \in LockUsers
    BY <1>1, <1>3
  <2>3. NextOwner = <<lockQueue[2]>>
    <3>1. Len(NextOwner) = 1 /\ NextOwner[1] = lockQueue[2] /\ NextOwner \in Seq(LockUsers)
      BY <1>1, <1>3, <2>1, <2>2, SubSeqProperties
    <3> QED BY <2>2, <3>1, SeqEqual
  <2>4. lockQueue' # <<>> /\ Head(lockQueue') = lockQueue[2]
    <3>1. Len(lockQueue') = Len(lockQueue) - 1 /\ Tail(lockQueue)[1] = lockQueue[2]
      BY <1>1, <1>3, HeadTailProperties
    <3>2. Len(lockQueue') > 0
      BY <1>1, <1>3, <3>1
    <3>4. lockQueue' # <<>>
      BY <3>2
    <3>3. Head(lockQueue') = lockQueue'[1]
      BY <1>1, <3>2
    <3> QED BY <3>1, <3>3, <3>4
  <2>5. F(c)' = IF lockQueue[2] = c THEN 1 ELSE 0
    BY <2>4 DEF F
  <2>6. lockQueue[2] \in Coroutines
    BY <2>2 DEF Coroutines
  <2>7. Occurrences(c, NextOwner) = F(c)'
    BY <2>3, <2>5, OccursOnce
  <2>8. NextOwner \in Seq(Coroutines)
    BY <2>3, <2>6
  <2> QED BY <1>1, <1>2, <2>7, <2>8
<1>4. CASE Len(lockQueue) = 1
  <2>1. NextOwner = <<>>
    BY <1>1, <1>4, SubSeqEmpty DEF NextOwner
  <2>2. lockQueue' = <<>>
    <3>1. Len(lockQueue') = 0
      BY <1>1, <1>4, HeadTailProperties
    <3> QED BY <1>1, <3>1, EmptySeq
  <2> QED BY <1>1, <1>2, <2>1, <2>2, OccursInNone DEF F
<1>5. Len(lockQueue) > 1 \/ Len(lockQueue) = 1
  <2> DEFINE n == Len(lockQueue)
  <2>1. n \in Nat \ {0}
    BY <1>1
  <2> HIDE DEF n
  <2>2. n > 1 \/ n = 1
    BY <2>1
  <2> QED BY <2>2 DEF n
<1> QED BY <1>3, <1>4, <1>5

LEMMA ReleaseContinueCounts ==
  ASSUME LoopTypes, NEW d, Owns(d), NEW w \in Seq(Coroutines), ReleaseContinue(w), NEW c
  PROVE  /\ LoopTypes' /\ Present(c)' = Present(c) + Occurrences(c, w)
         /\ K(c)' = K(c) - F(c) /\ R(c)' = R(c) + Occurrences(c, w) + F(c)'
<1>1. lockQueue # <<>> /\ lockQueue' = Tail(lockQueue) /\ Continue(w \o NextOwner)
  BY DEF Owns, ReleaseContinue
<1>2. /\ NextOwner \in Seq(Coroutines) /\ Occurrences(c, NextOwner) = F(c)'
      /\ lockQueue' \in Seq(LockUsers) /\ K(c)' = K(c) - F(c)
  BY <1>1, NextOwnerCounts
<1>3. /\ w \o NextOwner \in Seq(Coroutines)
      /\ Occurrences(c, w \o NextOwner) = Occurrences(c, w) + F(c)'
  BY <1>2, OccursConcatenated
<1>4. ready' \in Seq(Coroutines) /\ R(c)' = R(c) + Occurrences(c, w \o NextOwner)
  BY <1>1, <1>3, ContinueCounts
<1>5. /\ R(c) \in Nat /\ K(c) \in Nat /\ F(c) \in {0, 1} /\ Occurrences(c, w) \in Nat
      /\ F(c)' \in {0, 1}
  <2>1. Occurrences(c, w) \in Nat
    BY PositionsFinite
  <2> QED BY <2>1, Counts DEF F
<1>6. R(c)' = R(c) + Occurrences(c, w) + F(c)'
  BY <1>3, <1>4, <1>5
<1>7. Present(c)' = Present(c) + Occurrences(c, w)
  BY <1>2, <1>5, <1>6 DEF Present
<1> QED BY <1>2, <1>4, <1>6, <1>7 DEF LoopTypes

LEMMA ReleaseSuspendCounts ==
  ASSUME LoopTypes, NEW d, Owns(d), NEW w \in Seq(Coroutines), ReleaseSuspend(w), NEW c
  PROVE  /\ LoopTypes' /\ Present(c)' = Present(c) + Occurrences(c, w) - Same(c, d)
         /\ K(c)' = K(c) - F(c) /\ R(c)' = R(c) + Occurrences(c, w) + F(c)' - Same(c, d)
<1>1. lockQueue # <<>> /\ lockQueue' = Tail(lockQueue) /\ Suspend(w \o NextOwner) /\ Runs(d)
  BY DEF Owns, ReleaseSuspend
<1>2. /\ NextOwner \in Seq(Coroutines) /\ Occurrences(c, NextOwner) = F(c)'
      /\ lockQueue' \in Seq(LockUsers) /\ K(c)' = K(c) - F(c)
  BY <1>1, NextOwnerCounts
<1>3. /\ w \o NextOwner \in Seq(Coroutines)
      /\ Occurrences(c, w \o NextOwner) = Occurrences(c, w) + F(c)'
  BY <1>2, OccursConcatenated
<1>4. ready' \in Seq(Coroutines) /\ R(c)' = R(c) + Occurrences(c, w \o NextOwner) - Same(c, d)
  BY <1>1, <1>3, SuspendCounts
<1>5. /\ R(c) \in Int /\ K(c) \in Int /\ F(c) \in Int /\ Occurrences(c, w) \in Int
      /\ F(c)' \in Int /\ Same(c, d) \in Int
  <2>1. Occurrences(c, w) \in Nat
    BY PositionsFinite
  <2>2. R(c) \in Nat /\ K(c) \in Nat
    BY Counts
  <2> QED BY <2>1, <2>2 DEF F, Same
<1>6. R(c)' = R(c) + Occurrences(c, w) + F(c)' - Same(c, d)
  BY <1>3, <1>4, <1>5
<1>7. Present(c)' = Present(c) + Occurrences(c, w) - Same(c, d)
  BY <1>2, <1>5, <1>6 DEF Present
<1> QED BY <1>2, <1>4, <1>6, <1>7 DEF LoopTypes

-----------------------------------------------------------------------------
(* The processor runs once at a time. *)

LEMMA Names ==
  /\ Proc # Feeder /\ Proc # Mon /\ Proc # MainRoutine /\ Proc # Handler /\ \A s : Proc # TaskOf(s)
  /\ {Proc, Mon, MainRoutine, Handler} \subseteq LockUsers
  /\ {Proc, Mon, MainRoutine, Handler, Feeder} \subseteq Coroutines
  /\ \A s \in Samples : TaskOf(s) \in Coroutines
  BY DEF Proc, Feeder, Mon, MainRoutine, Handler, TaskOf, LockUsers, Coroutines

LEMMA LoopTyped == RollTypeOK => LoopTypes
  BY DEF RollTypeOK, LoopTypes, Coroutines

\* A step of another coroutine that neither wakes the processor nor takes the lock from it.
Calm ==
    /\ LoopTypes' /\ K(Proc)' = K(Proc) /\ (F(Proc) = 1 => F(Proc)' = 1)
    /\ Present(Proc)' = Present(Proc)

LEMMA OthersAcquire ==
  ASSUME LoopTypes, NEW d \in LockUsers, d # Proc, Runs(d), Acquire(d)
  PROVE  Calm
<1>1. Same(Proc, d) = 0
  BY DEF Same
<1>2. F(Proc) = 1 => lockQueue # <<>>
  BY DEF F
<1>3. K(Proc) \in Nat
  BY Counts
<1> QED BY <1>1, <1>2, <1>3, AcquireCounts DEF Calm

LEMMA OthersRelease ==
  ASSUME LoopTypes, NEW d, d # Proc, Owns(d), ReleaseSuspend(<<>>) \/ ReleaseContinue(<<>>)
  PROVE  Calm
<1>1. Same(Proc, d) = 0
  BY DEF Same
<1>2. F(Proc) = 0
  BY DEF F, Owns
<1>3. K(Proc) \in Nat /\ Present(Proc) \in Nat
  BY Counts
<1>4. <<>> \in Seq(Coroutines) /\ Occurrences(Proc, <<>>) = 0
  BY OccursInNone, EmptySeq
<1>5. CASE ReleaseSuspend(<<>>)
  <2>1. LoopTypes' /\ K(Proc)' = K(Proc) - F(Proc)
    BY <1>4, <1>5, ReleaseSuspendCounts
  <2>2. Present(Proc)' = Present(Proc) + Occurrences(Proc, <<>>) - Same(Proc, d)
    BY <1>4, <1>5, ReleaseSuspendCounts
  <2> QED BY <1>1, <1>2, <1>3, <1>4, <2>1, <2>2 DEF Calm
<1>6. CASE ReleaseContinue(<<>>)
  <2>1. LoopTypes' /\ K(Proc)' = K(Proc) - F(Proc)
    BY <1>4, <1>6, ReleaseContinueCounts
  <2>2. Present(Proc)' = Present(Proc) + Occurrences(Proc, <<>>)
    BY <1>4, <1>6, ReleaseContinueCounts
  <2> QED BY <1>2, <1>3, <1>4, <2>1, <2>2 DEF Calm
<1> QED BY <1>5, <1>6

\* A step that leaves the lock alone changes what is counted as it changes what is ready.
LEMMA LockAlone ==
  ASSUME LoopTypes, ready' \in Seq(Coroutines), lockQueue' = lockQueue, NEW c
  PROVE  LoopTypes' /\ K(c)' = K(c) /\ F(c)' = F(c) /\ Present(c)' = Present(c) + (R(c)' - R(c))
<1>1. R(c) \in Nat /\ K(c) \in Nat /\ F(c) \in {0, 1}
  BY Counts
<1>2. R(c)' \in Nat
  BY PositionsFinite DEF R
<1>3. K(c)' = K(c) /\ F(c)' = F(c)
  BY DEF K, F
<1> QED BY <1>1, <1>2, <1>3 DEF LoopTypes, Present

LEMMA OthersWake ==
  ASSUME LoopTypes, NEW d \in Coroutines, d # Proc, Wake(d), lockQueue' = lockQueue
  PROVE  Calm
<1>1. Same(Proc, d) = 0 /\ R(Proc) \in Nat /\ Present(Proc) \in Nat
  BY Counts DEF Same
<1>2. ready' \in Seq(Coroutines) /\ R(Proc)' = R(Proc) + Same(Proc, d)
  BY WakeCounts
<1>3. LoopTypes' /\ K(Proc)' = K(Proc) /\ F(Proc)' = F(Proc)
      /\ Present(Proc)' = Present(Proc) + (R(Proc)' - R(Proc))
  BY <1>2, LockAlone
<1> QED BY <1>1, <1>2, <1>3 DEF Calm

LEMMA OthersSuspend ==
  ASSUME LoopTypes, NEW d, d # Proc, Runs(d), Suspend(<<>>), lockQueue' = lockQueue
  PROVE  Calm
<1>1. Same(Proc, d) = 0 /\ R(Proc) \in Nat /\ Present(Proc) \in Nat
  BY Counts DEF Same
<1>2. <<>> \in Seq(Coroutines) /\ Occurrences(Proc, <<>>) = 0
  BY OccursInNone, EmptySeq
<1>3. ready' \in Seq(Coroutines) /\ R(Proc)' = R(Proc) + Occurrences(Proc, <<>>) - Same(Proc, d)
  BY <1>2, SuspendCounts
<1>4. LoopTypes' /\ K(Proc)' = K(Proc) /\ F(Proc)' = F(Proc)
      /\ Present(Proc)' = Present(Proc) + (R(Proc)' - R(Proc))
  BY <1>3, LockAlone
<1> QED BY <1>1, <1>2, <1>3, <1>4 DEF Calm

LEMMA CalmKeeps ==
  ASSUME LoopTypes, ProcLoop, Calm, UNCHANGED <<processor, pendingQueue>>
  PROVE  LoopTypes' /\ ProcLoop'
<1>1. LoopTypes' /\ K(Proc)' = K(Proc) /\ Present(Proc)' = Present(Proc)
      /\ (F(Proc) = 1 => F(Proc)' = 1)
  BY DEF Calm
<1>2. ASSUME processor = "get" PROVE R(Proc)' = R(Proc)
  <2>1. K(Proc) = 0 /\ K(Proc)' = 0
    BY <1>1, <1>2 DEF ProcLoop, Locking
  <2>2. F(Proc) = 0 /\ R(Proc) \in Nat
    BY <2>1, Counts
  <2>3. F(Proc)' = 0 /\ R(Proc)' \in Nat
    <3>1. ready' \in Seq(Coroutines) /\ lockQueue' \in Seq(LockUsers)
      BY <1>1 DEF LoopTypes
    <3>2. lockQueue' # <<>> => Occurrences(Head(lockQueue'), lockQueue') > 0
      BY <3>1, HeadOccurs
    <3> QED BY <2>1, <3>1, <3>2, PositionsFinite DEF F, K, R
  <2> QED BY <1>1, <2>1, <2>2, <2>3 DEF Present
<1> QED BY <1>1, <1>2 DEF ProcLoop

\* The processor is woken where it does not wait for the lock.
LEMMA WokenKeeps ==
  ASSUME LoopTypes, ProcLoop, LoopTypes', NEW n \in {0, 1}, UNCHANGED processor,
         n = 1 => processor \notin Locking \/ processor = "drainWait",
         n = 1 => R(Proc) = 0,
         processor = "get" => IF n = 1 THEN pendingQueue' # <<>>
                              ELSE pendingQueue' = pendingQueue \/ pendingQueue' # <<>>,
         K(Proc)' = K(Proc) /\ (F(Proc) = 1 => F(Proc)' = 1),
         Present(Proc)' = Present(Proc) + n
  PROVE  ProcLoop'
<1>1. /\ R(Proc) \in Nat /\ K(Proc) \in Nat /\ F(Proc) \in {0, 1} /\ Present(Proc) \in Nat
      /\ F(Proc) <= K(Proc) /\ Present(Proc) = R(Proc) + K(Proc) - F(Proc)
  BY Counts DEF Present
<1>2. Present(Proc)' = R(Proc)' + K(Proc)' - F(Proc)'
  BY DEF Present
<1>3. R(Proc)' \in Nat /\ F(Proc)' \in {0, 1}
  BY PositionsFinite DEF LoopTypes, R, F
<1>4. Present(Proc)' <= 1
  BY <1>1 DEF ProcLoop
<1>5. ASSUME processor = "get", R(Proc)' > 0 PROVE pendingQueue' # <<>>
  <2>1. K(Proc) = 0 /\ K(Proc)' = 0
    BY <1>5 DEF ProcLoop, Locking
  <2>2. F(Proc) = 0 /\ F(Proc)' = 0
    <3>1. lockQueue' \in Seq(LockUsers) /\ (lockQueue' # <<>> => Occurrences(Head(lockQueue'), lockQueue') > 0)
      BY HeadOccurs DEF LoopTypes
    <3> QED BY <1>1, <2>1, <3>1 DEF F, K
  <2>3. R(Proc)' = R(Proc) + n
    BY <1>1, <1>2, <1>3, <2>1, <2>2
  <2>4. n = 0 => R(Proc) > 0
    BY <1>1, <1>5, <2>3
  <2> QED BY <1>5, <2>4 DEF ProcLoop
<1> QED BY <1>4, <1>5 DEF ProcLoop

LEMMA FeederLoop ==
  ASSUME RollTypeOK, ProcLoop, FeedInv, FeederPuts \/ FeederEnds
  PROVE  LoopTypes' /\ ProcLoop'
<1> DEFINE woken == Wakes(Proc, processor = "get")
           n == IF processor = "get" /\ R(Proc) = 0 THEN 1 ELSE 0
<1>1. LoopTypes
  BY LoopTyped
<1>2. PICK item \in Samples \cup {Done} : FeederDoes(item)
  <2>1. CASE FeederPuts
    <3>1. fed \in Nat /\ fed < TotalRolloutSteps /\ TotalRolloutSteps \in Nat
      BY <2>1, RolloutAssumption DEF FeederPuts, FeedInv, RollTypeOK
    <3>2. fed + 1 \in Samples
      BY <3>1, SamplesAssumption
    <3> QED BY <2>1, <3>2 DEF FeederPuts
  <2>2. CASE FeederEnds
    BY <2>2 DEF FeederEnds
  <2> QED BY <2>1, <2>2
<1>3. Runs(Feeder) /\ lockQueue' = lockQueue /\ processor' = processor
      /\ pendingQueue' = Append(pendingQueue, item) /\ (Continue(woken) \/ Suspend(woken))
  BY <1>2 DEF FeederDoes, procVars
<1>4. woken \in Seq(Coroutines) /\ Occurrences(Proc, woken) = n
  BY <1>1, Names, WakesCounts DEF Same
<1>5. R(Proc) \in Nat /\ Same(Proc, Feeder) = 0
  BY <1>1, Counts, Names DEF Same
<1> HIDE DEF woken
<1>6. ready' \in Seq(Coroutines) /\ R(Proc)' = R(Proc) + n
  <2>1. CASE Continue(woken)
    BY <1>1, <1>4, <2>1, ContinueCounts
  <2>2. CASE Suspend(woken)
    <3>1. ready' \in Seq(Coroutines) /\ R(Proc)' = R(Proc) + Occurrences(Proc, woken) - Same(Proc, Feeder)
      BY <1>1, <1>3, <1>4, <2>2, SuspendCounts
    <3> QED BY <1>4, <1>5, <3>1
  <2> QED BY <1>3, <2>1, <2>2
<1>7. LoopTypes' /\ K(Proc)' = K(Proc) /\ F(Proc)' = F(Proc)
      /\ Present(Proc)' = Present(Proc) + (R(Proc)' - R(Proc))
  BY <1>1, <1>3, <1>6, LockAlone
<1>8. pendingQueue' # <<>>
  <2>1. pendingQueue \in Seq(Samples \cup {Done})
    BY DEF RollTypeOK
  <2> QED BY <1>3, <2>1, AppendProperties
<1>9. n \in {0, 1} /\ Present(Proc)' = Present(Proc) + n
  BY <1>5, <1>6, <1>7
<1>10. (n = 1 => processor \notin Locking) /\ (n = 1 => R(Proc) = 0)
  BY DEF Locking
<1> HIDE DEF n
<1> QED BY <1>1, <1>3, <1>7, <1>8, <1>9, <1>10, WokenKeeps

\* Who has the lock gives it up, and notifies the processor.
LEMMA OthersNotify ==
  ASSUME LoopTypes, ProcLoop, NEW d, d # Proc, Owns(d),
         ReleaseSuspend(Notified) \/ ReleaseContinue(Notified),
         UNCHANGED <<processor, pendingQueue>>
  PROVE  LoopTypes' /\ ProcLoop'
<1> DEFINE n == IF ProcessorWaits /\ R(Proc) = 0 THEN 1 ELSE 0
<1>1. Notified \in Seq(Coroutines) /\ Occurrences(Proc, Notified) = n
  <2>1. ProcessorWaits \in BOOLEAN
    BY DEF ProcessorWaits
  <2> QED BY <2>1, Names, WakesCounts DEF Notified, Same
<1>2. Same(Proc, d) = 0
  BY DEF Same
<1>3. F(Proc) = 0
  BY DEF F, Owns
<1>4. K(Proc) \in Nat /\ Present(Proc) \in Nat /\ n \in {0, 1}
  BY Counts
<1>5. LoopTypes' /\ K(Proc)' = K(Proc) - F(Proc)
      /\ Present(Proc)' = Present(Proc) + Occurrences(Proc, Notified)
  <2>1. CASE ReleaseSuspend(Notified)
    <3>1. LoopTypes' /\ K(Proc)' = K(Proc) - F(Proc)
      BY <1>1, <2>1, ReleaseSuspendCounts
    <3>2. Present(Proc)' = Present(Proc) + Occurrences(Proc, Notified) - Same(Proc, d)
      BY <1>1, <2>1, ReleaseSuspendCounts
    <3> QED BY <1>1, <1>2, <1>4, <3>1, <3>2
  <2>2. CASE ReleaseContinue(Notified)
    <3>1. LoopTypes' /\ K(Proc)' = K(Proc) - F(Proc)
      BY <1>1, <2>2, ReleaseContinueCounts
    <3>2. Present(Proc)' = Present(Proc) + Occurrences(Proc, Notified)
      BY <1>1, <2>2, ReleaseContinueCounts
    <3> QED BY <3>1, <3>2
  <2> QED BY <2>1, <2>2
<1>6. (n = 1 => processor \notin Locking /\ processor # "get") /\ (n = 1 => R(Proc) = 0)
  BY DEF Locking, ProcessorWaits
<1>7. K(Proc)' = K(Proc) /\ (F(Proc) = 1 => F(Proc)' = 1) /\ Present(Proc)' = Present(Proc) + n
  BY <1>1, <1>3, <1>4, <1>5
<1> HIDE DEF n
<1> QED BY <1>4, <1>5, <1>6, <1>7, WokenKeeps

\* A task that is over wakes who waits for it.
LEMMA TaskEndsLoop ==
  ASSUME LoopTypes, ProcLoop, NEW s \in Samples, TaskEnds(s),
         UNCHANGED <<lockQueue, processor, pendingQueue>>
  PROVE  LoopTypes' /\ ProcLoop'
<1> DEFINE wp == Wakes(Proc, processor = "drainWait")
           wh == Wakes(Handler, sync = "gathering" /\ Live = {s})
           n == IF processor = "drainWait" /\ R(Proc) = 0 THEN 1 ELSE 0
<1>1. wp \in Seq(Coroutines) /\ Occurrences(Proc, wp) = n
  BY Names, WakesCounts DEF Same
<1>2. wh \in Seq(Coroutines) /\ Occurrences(Proc, wh) = 0
  <2>1. Same(Proc, Handler) = 0
    BY Names DEF Same
  <2> QED BY <2>1, Names, WakesCounts
<1>3. wp \o wh \in Seq(Coroutines) /\ Occurrences(Proc, wp \o wh) = n
  <2>1. wp \o wh \in Seq(Coroutines)
    BY <1>1, <1>2
  <2>2. Occurrences(Proc, wp \o wh) = Occurrences(Proc, wp) + Occurrences(Proc, wh)
    BY <1>1, <1>2, OccursConcatenated
  <2> QED BY <1>1, <1>2, <2>1, <2>2
<1>4. Suspend(wp \o wh) /\ Runs(TaskOf(s))
  BY DEF TaskEnds
<1> HIDE DEF wp, wh
<1>5. Same(Proc, TaskOf(s)) = 0 /\ R(Proc) \in Nat /\ Present(Proc) \in Nat
  BY Names, Counts DEF Same
<1>6. ready' \in Seq(Coroutines) /\ R(Proc)' = R(Proc) + n
  <2>1. ready' \in Seq(Coroutines)
        /\ R(Proc)' = R(Proc) + Occurrences(Proc, wp \o wh) - Same(Proc, TaskOf(s))
    BY <1>3, <1>4, SuspendCounts
  <2> QED BY <1>3, <1>5, <2>1
<1>7. LoopTypes' /\ K(Proc)' = K(Proc) /\ F(Proc)' = F(Proc)
      /\ Present(Proc)' = Present(Proc) + (R(Proc)' - R(Proc))
  BY <1>6, LockAlone
<1>8. n \in {0, 1} /\ Present(Proc)' = Present(Proc) + n
  BY <1>5, <1>6, <1>7
<1>9. (n = 1 => processor = "drainWait") /\ (n = 1 => R(Proc) = 0)
  OBVIOUS
<1> HIDE DEF n
<1> QED BY <1>7, <1>8, <1>9, WokenKeeps

\* The steps of every other coroutine, and of what is outside the loop.
OtherSteps ==
    \/ TaskSteps \/ Monitor \/ Main \/ Sync \/ TaskEnvironment \/ (\E s \in Samples : ServersFail(s))
    \/ MonitorTimer \/ QueueTakesNone \/ SyncEnvironment

LEMMA OthersLoop ==
  ASSUME RollTypeOK, ProcLoop, OtherSteps
  PROVE  LoopTypes' /\ ProcLoop'
<1>1. LoopTypes
  BY LoopTyped
<1>2. UNCHANGED <<processor, pendingQueue>>
  BY DEF OtherSteps, TaskSteps, Monitor, Main, MainOnly, Sync, TaskEnvironment, ServersTake, ServersAnswer,
         ServersFail, QueueTakes, QueueAnswers, TaskOutside, MonitorTimer, QueueTakesNone, SyncEnvironment,
         ServersCancel, ServersResume, QueueSizes, QueueTakesValidate, SyncArrives, SyncOutside, feedVars, procVars
<1>3. ASSUME Calm PROVE LoopTypes' /\ ProcLoop'
  BY <1>1, <1>2, <1>3, CalmKeeps
<1>4. ASSUME UNCHANGED loopVars PROVE LoopTypes' /\ ProcLoop'
  BY <1>1, <1>2, <1>4 DEF loopVars, LoopTypes, ProcLoop, Present, R, K, F
<1>5. CASE TaskSteps
  <2>1. PICK s \in Samples : TaskStarts(s) \/ TaskSends(s) \/ TaskEnds(s)
    BY <1>5 DEF TaskSteps
  <2>2. lockQueue' = lockQueue
    BY <1>5 DEF TaskSteps
  <2>3. CASE TaskStarts(s) \/ TaskSends(s)
    <3>1. Runs(TaskOf(s)) /\ Suspend(<<>>) /\ TaskOf(s) # Proc
      BY <2>3, Names DEF TaskStarts, TaskSends, TaskAt
    <3>2. Calm
      BY <1>1, <2>2, <3>1, OthersSuspend
    <3> QED BY <1>3, <3>2
  <2>4. CASE TaskEnds(s)
    BY <1>1, <1>2, <2>2, <2>4, TaskEndsLoop
  <2> QED BY <2>1, <2>3, <2>4
<1>6. CASE Monitor
  <2>1. CASE MonitorStarts
    <3>1. Runs(Mon) /\ Acquire(Mon) /\ Mon \in LockUsers /\ Mon # Proc
      BY <2>1, Names DEF MonitorStarts
    <3> QED BY <1>1, <1>3, <3>1, OthersAcquire
  <2>2. CASE MonitorChecks
    <3>1. Owns(Mon) /\ ReleaseSuspend(<<>>) /\ Mon # Proc
      BY <2>2, Names DEF MonitorChecks
    <3> QED BY <1>1, <1>3, <3>1, OthersRelease
  <2>3. CASE MonitorWakes
    <3>1. CASE UNCHANGED loopVars
      BY <1>4, <3>1
    <3>2. CASE Acquire(Mon)
      <4>1. Runs(Mon) /\ Mon \in LockUsers /\ Mon # Proc
        BY <2>3, Names DEF MonitorWakes
      <4> QED BY <1>1, <1>3, <3>2, <4>1, OthersAcquire
    <3> QED BY <2>3, <3>1, <3>2 DEF MonitorWakes
  <2>4. CASE MonitorUnpauses
    <3>1. Owns(Mon) /\ ReleaseContinue(Notified) /\ Mon # Proc
      BY <2>4, Names DEF MonitorUnpauses
    <3> QED BY <1>1, <1>2, <3>1, OthersNotify
  <2> QED BY <1>6, <2>1, <2>2, <2>3, <2>4 DEF Monitor
<1>7. CASE Main
  <2>1. CASE MainSends
    <3>1. Runs(MainRoutine) /\ Suspend(<<>>) /\ lockQueue' = lockQueue /\ MainRoutine # Proc
      BY <2>1, Names DEF MainSends
    <3> QED BY <1>1, <1>3, <3>1, OthersSuspend
  <2>2. CASE MainLocks
    <3>1. Runs(MainRoutine) /\ Acquire(MainRoutine) /\ MainRoutine \in LockUsers /\ MainRoutine # Proc
      BY <2>2, Names DEF MainLocks
    <3> QED BY <1>1, <1>3, <3>1, OthersAcquire
  <2>3. CASE MainStops
    <3>1. Owns(MainRoutine) /\ ReleaseSuspend(<<>>) /\ MainRoutine # Proc
      BY <2>3, Names DEF MainStops
    <3> QED BY <1>1, <1>3, <3>1, OthersRelease
  <2> QED BY <1>7, <2>1, <2>2, <2>3 DEF Main
<1>8. CASE Sync
  <2>0. Handler # Proc /\ Handler \in LockUsers
    BY Names
  <2>1. CASE CallLocks
    <3>1. Runs(Handler) /\ Acquire(Handler)
      BY <2>1 DEF CallLocks
    <3> QED BY <1>1, <1>3, <2>0, <3>1, OthersAcquire
  <2>2. CASE PauseBegins \/ PauseGathers \/ UpdateBegins \/ UpdateResets \/ ResumeAsksServers
    <3>1. Runs(Handler) /\ Suspend(<<>>) /\ lockQueue' = lockQueue
      BY <2>2 DEF PauseBegins, PauseGathers, Gathers, UpdateBegins, UpdateResets, ResumeAsksServers,
                  SyncOwns, Owns
    <3> QED BY <1>1, <1>3, <2>0, <3>1, OthersSuspend
  <2>3. CASE PauseEnds \/ UpdateEnds
    <3>1. Owns(Handler) /\ ReleaseSuspend(<<>>)
      BY <2>3 DEF PauseEnds, UpdateEnds, SyncOwns
    <3> QED BY <1>1, <1>3, <2>0, <3>1, OthersRelease
  <2>4. CASE ResumeEnds
    <3>1. Owns(Handler) /\ ReleaseSuspend(Notified)
      BY <2>4 DEF ResumeEnds, SyncOwns
    <3> QED BY <1>1, <1>2, <2>0, <3>1, OthersNotify
  <2> QED BY <1>8, <2>1, <2>2, <2>3, <2>4 DEF Sync
<1>9. CASE TaskEnvironment \/ \E s \in Samples : ServersFail(s)
  <2>1. PICK s \in Samples : ServersTake(s) \/ ServersAnswer(s) \/ QueueTakes(s) \/ QueueAnswers(s)
                             \/ ServersFail(s)
    BY <1>9 DEF TaskEnvironment
  <2>2. CASE ServersTake(s) \/ QueueTakes(s)
    BY <1>4, <2>2 DEF ServersTake, QueueTakes, TaskOutside, loopVars
  <2>3. CASE ServersAnswer(s) \/ QueueAnswers(s) \/ ServersFail(s)
    <3>1. Wake(TaskOf(s)) /\ lockQueue' = lockQueue /\ TaskOf(s) \in Coroutines /\ TaskOf(s) # Proc
      BY <2>3, Names DEF ServersAnswer, QueueAnswers, ServersFail, TaskOutside
    <3> QED BY <1>1, <1>3, <3>1, OthersWake
  <2> QED BY <2>1, <2>2, <2>3
<1>10. CASE MonitorTimer
  <2>1. Wake(Mon) /\ lockQueue' = lockQueue /\ Mon \in Coroutines /\ Mon # Proc
    BY <1>10, Names DEF MonitorTimer
  <2> QED BY <1>1, <1>3, <2>1, OthersWake
<1>11. CASE QueueTakesNone
  <2>1. Wake(MainRoutine) /\ lockQueue' = lockQueue /\ MainRoutine \in Coroutines /\ MainRoutine # Proc
    BY <1>11, Names DEF QueueTakesNone
  <2> QED BY <1>1, <1>3, <2>1, OthersWake
<1>12. CASE SyncEnvironment
  <2>1. CASE SyncArrives
    <3>1. Wake(Handler) /\ lockQueue' = lockQueue /\ Handler \in Coroutines /\ Handler # Proc
      BY <2>1, Names DEF SyncArrives, SyncOutside
    <3> QED BY <1>1, <1>3, <3>1, OthersWake
  <2>2. CASE ~SyncArrives
    BY <1>4, <1>12, <2>2 DEF SyncEnvironment, ServersCancel, ServersResume, QueueSizes,
                             QueueTakesValidate, SyncOutside, loopVars
  <2> QED BY <2>1, <2>2
<1> QED BY <1>5, <1>6, <1>7, <1>8, <1>9, <1>10, <1>11, <1>12 DEF OtherSteps

LEMMA ProcRuns ==
  ASSUME LoopTypes, ProcLoop, Runs(Proc)
  PROVE  /\ R(Proc) = 1 /\ Present(Proc) = 1 /\ K(Proc) = F(Proc)
         /\ processor \in Locking => K(Proc) = 1 /\ F(Proc) = 1
         /\ processor \notin Locking => K(Proc) = 0 /\ F(Proc) = 0
<1>1. /\ R(Proc) \in Nat /\ K(Proc) \in Nat /\ F(Proc) \in {0, 1} /\ F(Proc) <= K(Proc)
      /\ Present(Proc) = R(Proc) + K(Proc) - F(Proc)
  BY Counts DEF Present
<1>2. R(Proc) > 0
  BY RunsIsReady
<1> QED BY <1>1, <1>2 DEF ProcLoop

LEMMA ProcessorLoop ==
  ASSUME RollTypeOK, ProcLoop, HandInv, Processor
  PROVE  LoopTypes' /\ ProcLoop'
<1>1. LoopTypes /\ Proc \in LockUsers /\ Proc \in Coroutines /\ Same(Proc, Proc) = 1
  BY LoopTyped, Names DEF Same
<1>2. <<>> \in Seq(Coroutines) /\ Occurrences(Proc, <<>>) = 0
  BY OccursInNone, EmptySeq
<1>3. <<MainRoutine>> \in Seq(Coroutines) /\ Occurrences(Proc, <<MainRoutine>>) = 0
  BY Names, OccursOnce
<1>4. LoopTypes' => R(Proc)' \in Nat /\ K(Proc)' \in Nat /\ F(Proc)' \in {0, 1}
                    /\ Present(Proc)' = R(Proc)' + K(Proc)' - F(Proc)'
  BY PositionsFinite DEF LoopTypes, R, K, F, Present
\* It asks for the lock.
<1>5. ASSUME Runs(Proc), processor \notin Locking, Acquire(Proc),
             processor' \in Locking, processor' # "drainWait"
      PROVE  LoopTypes' /\ ProcLoop'
  <2>1. LoopTypes' /\ Present(Proc)' = Present(Proc) /\ K(Proc)' = K(Proc) + Same(Proc, Proc)
    BY <1>1, <1>5, AcquireCounts
  <2> QED BY <1>1, <1>5, <2>1, ProcRuns DEF ProcLoop, Locking
\* It gives up the lock, and goes on or suspends.
<1>6. ASSUME Owns(Proc), NEW w \in Seq(Coroutines), Occurrences(Proc, w) = 0,
             ReleaseContinue(w) \/ ReleaseSuspend(w), processor \in Locking,
             processor' \notin Locking, processor' # "get"
      PROVE  LoopTypes' /\ ProcLoop'
  <2>1. Runs(Proc)
    BY <1>6 DEF Owns
  <2>2. Present(Proc) = 1 /\ K(Proc) = 1 /\ F(Proc) = 1
    BY <1>1, <1>6, <2>1, ProcRuns
  <2>3. CASE ReleaseContinue(w)
    <3>1. LoopTypes' /\ Present(Proc)' = Present(Proc) + Occurrences(Proc, w)
          /\ K(Proc)' = K(Proc) - F(Proc)
      BY <1>1, <1>6, <2>3, ReleaseContinueCounts
    <3> QED BY <1>6, <2>2, <3>1 DEF ProcLoop, Locking
  <2>4. CASE ReleaseSuspend(w)
    <3>1. LoopTypes' /\ Present(Proc)' = Present(Proc) + Occurrences(Proc, w) - Same(Proc, Proc)
          /\ K(Proc)' = K(Proc) - F(Proc)
      BY <1>1, <1>6, <2>4, ReleaseSuspendCounts
    <3> QED BY <1>1, <1>6, <2>2, <3>1 DEF ProcLoop, Locking
  <2> QED BY <1>6, <2>3, <2>4
\* It leaves the lock alone.
<1>7. ASSUME Runs(Proc), lockQueue' = lockQueue, NEW n \in {0, 1},
             ready' \in Seq(Coroutines), R(Proc)' = n,
             (processor \in Locking) <=> (processor' \in Locking),
             processor' = "get" /\ n = 1 => pendingQueue' # <<>>
      PROVE  LoopTypes' /\ ProcLoop'
  <2>1. LoopTypes' /\ K(Proc)' = K(Proc) /\ F(Proc)' = F(Proc)
    BY <1>1, <1>7, LockAlone
  <2>2. processor \in Locking => K(Proc) = 1 /\ F(Proc) = 1
    BY <1>1, <1>7, ProcRuns
  <2>3. processor \notin Locking => K(Proc) = 0 /\ F(Proc) = 0
    BY <1>1, <1>7, ProcRuns
  <2>4. Present(Proc)' <= 1
    BY <1>4, <1>7, <2>1, <2>2, <2>3
  <2>5. processor' = "get" /\ R(Proc)' > 0 => pendingQueue' # <<>>
    BY <1>7
  <2>6. processor' = "drainWait" => F(Proc)' = 1
    BY <1>7, <2>1, <2>2 DEF Locking
  <2>7. K(Proc)' = IF processor' \in Locking THEN 1 ELSE 0
    BY <1>7, <2>1, <2>2, <2>3
  <2> QED BY <2>1, <2>4, <2>5, <2>6, <2>7 DEF ProcLoop
<1>8. ASSUME NEW w \in Seq(Coroutines), Runs(Proc), Suspend(w)
      PROVE  ready' \in Seq(Coroutines) /\ R(Proc)' = Occurrences(Proc, w)
  <2>1. ready' \in Seq(Coroutines) /\ R(Proc)' = R(Proc) + Occurrences(Proc, w) - Same(Proc, Proc)
    BY <1>1, <1>8, SuspendCounts
  <2>2. R(Proc) = 1 /\ Occurrences(Proc, w) \in Nat
    BY <1>1, <1>8, ProcRuns, PositionsFinite
  <2> QED BY <1>1, <2>1, <2>2
<1>9. ASSUME NEW w \in Seq(Coroutines), Runs(Proc), Continue(w), Occurrences(Proc, w) = 0
      PROVE  ready' \in Seq(Coroutines) /\ R(Proc)' = 1
  <2>1. ready' \in Seq(Coroutines) /\ R(Proc)' = R(Proc) + Occurrences(Proc, w)
    BY <1>1, <1>9, ContinueCounts
  <2> QED BY <1>1, <1>9, <2>1, ProcRuns
<1>10. CASE ProcessorSeesPause
  BY <1>5, <1>10 DEF ProcessorSeesPause, ProcessorAt, ProcessorGoes, Locking
<1>11. CASE ProcessorPauses
  BY <1>2, <1>6, <1>11 DEF ProcessorPauses, ProcessorOwns, Locking
<1>12. CASE ProcessorTakesCancelled
  <2>1. Runs(Proc) /\ UNCHANGED <<ready, lockQueue>> /\ processor = "top" /\ processor' = "drain"
    BY <1>12 DEF ProcessorTakesCancelled, ProcessorAt, loopVars
  <2>2. ready' \in Seq(Coroutines) /\ R(Proc)' = 1
    BY <1>1, <2>1, ProcRuns DEF LoopTypes, R
  <2> QED BY <1>7, <2>1, <2>2 DEF Locking
<1>13. CASE ProcessorAsksPending
  <2>1. Runs(Proc) /\ lockQueue' = lockQueue /\ processor = "top" /\ processor' = "get"
        /\ pendingQueue' = pendingQueue
    BY <1>13 DEF ProcessorAsksPending, ProcessorAt, ProcessorGoes, feedVars
  <2>2. CASE pendingQueue = <<>>
    <3>1. Suspend(<<>>)
      BY <1>13, <2>2 DEF ProcessorAsksPending
    <3>2. ready' \in Seq(Coroutines) /\ R(Proc)' = 0
      BY <1>2, <1>8, <2>1, <3>1
    <3> QED BY <1>7, <2>1, <3>2 DEF Locking
  <2>3. CASE pendingQueue # <<>>
    <3>1. Continue(<<>>)
      BY <1>13, <2>3 DEF ProcessorAsksPending
    <3>2. ready' \in Seq(Coroutines) /\ R(Proc)' = 1
      BY <1>2, <1>9, <2>1, <3>1
    <3> QED BY <1>7, <2>1, <2>3, <3>2 DEF Locking
  <2> QED BY <2>2, <2>3
<1>14. CASE ProcessorGets
  <2>1. Runs(Proc) /\ lockQueue' = lockQueue /\ processor = "get" /\ processor' = "drain"
        /\ Continue(Wakes(Feeder, feeder # "ended"))
    BY <1>14 DEF ProcessorGets, ProcessorAt
  <2>2. Wakes(Feeder, feeder # "ended") \in Seq(Coroutines)
        /\ Occurrences(Proc, Wakes(Feeder, feeder # "ended")) = 0
    <3>1. Same(Proc, Feeder) = 0 /\ Feeder \in Coroutines
      BY Names DEF Same
    <3> QED BY <1>1, <3>1, WakesCounts
  <2>3. ready' \in Seq(Coroutines) /\ R(Proc)' = 1
    BY <1>9, <2>1, <2>2
  <2> QED BY <1>7, <2>1, <2>3 DEF Locking
<1>15. CASE ProcessorDrains
  BY <1>5, <1>15 DEF ProcessorDrains, ProcessorAt, ProcessorGoes, Locking
<1>16. CASE ProcessorDrained
  <2>1. Runs(Proc) /\ processor = "drain"
    BY <1>16 DEF ProcessorDrained, ProcessorAt
  <2>2. CASE Acquire(Proc) /\ processor' \in {"idle", "submit"}
    BY <1>5, <2>1, <2>2 DEF Locking
  <2>3. CASE Suspend(<<MainRoutine>>) /\ processor' = "ended" /\ lockQueue' = lockQueue
    <3>1. ready' \in Seq(Coroutines) /\ R(Proc)' = 0
      BY <1>3, <1>8, <2>1, <2>3
    <3> QED BY <1>7, <2>1, <2>3, <3>1 DEF Locking
  <2> QED BY <1>16, <2>2, <2>3 DEF ProcessorDrained, ProcessorGoes
<1>17. CASE ProcessorAwaitsTask
  <2>1. Runs(Proc) /\ lockQueue' = lockQueue /\ processor = "drainLock" /\ processor' = "drainWait"
        /\ (Suspend(<<Proc>>) \/ Suspend(<<>>))
    BY <1>17 DEF ProcessorAwaitsTask, ProcessorOwns, ProcessorGoes, Owns
  <2>2. <<Proc>> \in Seq(Coroutines) /\ Occurrences(Proc, <<Proc>>) = 1
    BY <1>1, OccursOnce
  <2>3. CASE Suspend(<<Proc>>)
    <3>1. ready' \in Seq(Coroutines) /\ R(Proc)' = 1
      BY <1>8, <2>1, <2>2, <2>3
    <3> QED BY <1>7, <2>1, <3>1 DEF Locking
  <2>4. CASE Suspend(<<>>)
    <3>1. ready' \in Seq(Coroutines) /\ R(Proc)' = 0
      BY <1>2, <1>8, <2>1, <2>4
    <3> QED BY <1>7, <2>1, <3>1 DEF Locking
  <2> QED BY <2>1, <2>3, <2>4
<1>18. CASE ProcessorFindsNoTask \/ ProcessorReaps
  BY <1>2, <1>3, <1>6, <1>18
     DEF ProcessorFindsNoTask, ProcessorReaps, ProcessorCrashes, ProcessorOwns, Locking
<1>19. CASE ProcessorSleeps \/ ProcessorLeavesPause
  BY <1>2, <1>6, <1>19 DEF ProcessorSleeps, ProcessorLeavesPause, ProcessorOwns, ProcessorGoes, Locking
<1>20. CASE ProcessorWakes
  BY <1>5, <1>20 DEF ProcessorWakes, ProcessorWaits, ProcessorGoes, Locking
<1>21. CASE ProcessorSubmits
  <2>1. hand \in Samples
    BY <1>21 DEF ProcessorSubmits, ProcessorOwns, HandInv, Holding, RollTypeOK, Items
  <2>2. <<TaskOf(hand)>> \in Seq(Coroutines) /\ Occurrences(Proc, <<TaskOf(hand)>>) = 0
    BY <2>1, Names, OccursOnce
  <2>3. Owns(Proc) /\ ReleaseContinue(<<TaskOf(hand)>>) /\ processor = "submit" /\ processor' = "top"
    BY <1>21 DEF ProcessorSubmits, ProcessorOwns
  <2> QED BY <1>6, <2>2, <2>3 DEF Locking
<1> QED BY <1>10, <1>11, <1>12, <1>13, <1>14, <1>15, <1>16, <1>17, <1>18, <1>19, <1>20, <1>21
        DEF Processor

-----------------------------------------------------------------------------
(* Types. *)

LEMMA Numbers ==
  /\ MaxRequiredSamples \in Nat \ {0} /\ MaxConcurrent \in Nat \ {0} /\ MaxConcurrent <= MaxRequiredSamples
  /\ TotalRolloutSteps \in Nat \ {0} /\ RequiredSamples \in Nat \ {0} /\ TriggerSyncStep \in Nat \ {0}
  /\ PendingSize \in Nat \ {0, 1} /\ MaxFailures \in Nat /\ None \notin Samples /\ Done \notin Samples
  /\ Samples = 1..TotalRolloutSteps /\ IsFiniteSet(Samples)
<1>1. MaxRequiredSamples \in Nat \ {0}
  BY MaxQueueSizeAssumption, QueueSizeAssumption
<1>2. ServerSlots \in Nat \ {0} /\ TotalRolloutSteps \in Nat \ {0}
  BY RolloutAssumption
<1>3. MaxConcurrent \in Nat \ {0} /\ MaxConcurrent <= MaxRequiredSamples
  <2> HIDE DEF MaxRequiredSamples
  <2> QED BY <1>1, <1>2 DEF MaxConcurrent
<1>4. IsFiniteSet(1..TotalRolloutSteps)
  BY FS_Interval, <1>2
<1> QED BY <1>1, <1>2, <1>3, <1>4, RolloutAssumption, SamplesAssumption, NoneAssumption

LEMMA ActiveCounts ==
  ASSUME RollTypeOK
  PROVE  IsFiniteSet(Live) /\ Cardinality(Live) \in Nat /\ ActiveTasks \in Nat
         /\ ActiveTasks = Cardinality(Live) + finishedTasks /\ finishedTasks \in Nat
<1>1. IsFiniteSet(Live)
  BY Numbers, FS_Subset DEF Live
<1>2. Cardinality(Live) \in Nat
  BY <1>1, FS_CardinalityType
<1>3. finishedTasks \in Nat
  BY Numbers DEF RollTypeOK
<1> QED BY <1>1, <1>2, <1>3 DEF ActiveTasks

\* A task that goes on, begins, ends.
LEMMA TaskGoesOn ==
  ASSUME RollTypeOK, NEW s \in Samples, task[s] # "none", NEW place, place # "none", TaskGoes(s, place)
  PROVE  Live' = Live
  BY DEF RollTypeOK, Live, TaskGoes

LEMMA TaskBegins ==
  ASSUME RollTypeOK, NEW s \in Samples, TaskGoes(s, "created"), finishedTasks' = finishedTasks
  PROVE  ActiveTasks' <= ActiveTasks + 1
<1>1. Live' = Live \cup {s}
  BY DEF RollTypeOK, Live, TaskGoes
<1>2. IsFiniteSet(Live) /\ Cardinality(Live) \in Nat /\ finishedTasks \in Nat
  BY ActiveCounts
<1> HIDE DEF Live
<1>3. Cardinality(Live \cup {s}) <= Cardinality(Live) + 1 /\ Cardinality(Live \cup {s}) \in Nat
  <2>1. IsFiniteSet(Live \cup {s})
        /\ Cardinality(Live \cup {s}) = IF s \in Live THEN Cardinality(Live) ELSE Cardinality(Live) + 1
    BY <1>2, FS_AddElement
  <2> QED BY <1>2, <2>1
<1> QED BY <1>1, <1>2, <1>3 DEF ActiveTasks

LEMMA TaskOver ==
  ASSUME RollTypeOK, NEW s \in Samples, task[s] # "none", TaskGoes(s, "none"),
         finishedTasks' = finishedTasks + 1
  PROVE  ActiveTasks' = ActiveTasks /\ finishedTasks' <= ActiveTasks
<1>1. Live' = Live \ {s} /\ s \in Live
  BY DEF RollTypeOK, Live, TaskGoes
<1>2. IsFiniteSet(Live) /\ Cardinality(Live) \in Nat /\ finishedTasks \in Nat
  BY ActiveCounts
<1>3. Cardinality(Live \ {s}) = Cardinality(Live) - 1 /\ Cardinality(Live \ {s}) \in Nat
  BY <1>1, <1>2, FS_RemoveElement, FS_CardinalityType
<1> HIDE DEF Live
<1> QED BY <1>1, <1>2, <1>3 DEF ActiveTasks

TaskTypes ==
    /\ cancelQueue \in Seq(Samples) /\ stamp \in [Samples -> Nat] /\ failures \in 0..MaxFailures
    /\ task \in [Samples -> {"none", "created", "requested", "generating", "refused", "answered",
                             "cancelled", "failed", "putting", "put"}]
    /\ finishedTasks \in 0..MaxConcurrent /\ failedTasks \in 0..finishedTasks

LEMMA TasksTyped ==
  ASSUME RollTypeOK, Room, HandInv, RollNext
  PROVE  TaskTypes' /\ Room'
<1>1. /\ ActiveTasks \in Nat /\ ActiveTasks = Cardinality(Live) + finishedTasks /\ Cardinality(Live) \in Nat
      /\ MaxConcurrent \in Nat /\ MaxFailures \in Nat /\ finishedTasks \in Nat
  BY ActiveCounts, Numbers
<1>2. TaskTypes
  BY DEF RollTypeOK, TaskTypes
\* Nothing of the tasks changes, and the processor does not go to a submission.
<1>3. ASSUME UNCHANGED <<taskVars, cancelQueue>>,
             processor' \in {"submit", "submitWait"} => ActiveTasks < MaxConcurrent
      PROVE  TaskTypes' /\ Room'
  BY <1>2, <1>3 DEF taskVars, TaskTypes, Room, ActiveTasks, Live
<1>4. ASSUME UNCHANGED <<taskVars, cancelQueue, processor>>
      PROVE  TaskTypes' /\ Room'
  BY <1>3, <1>4 DEF Room
<1>5. CASE Processor
  <2>1. CASE ProcessorDrained
    <3>1. UNCHANGED <<taskVars, cancelQueue>>
      BY <2>1 DEF ProcessorDrained, ProcessorGoes
    <3>2. processor' \in {"submit", "submitWait"} => ActiveTasks < MaxConcurrent
      BY <1>1, <2>1 DEF ProcessorDrained, ProcessorGoes, MustDrain
    <3> QED BY <1>3, <3>1, <3>2
  <2>2. CASE ProcessorTakesCancelled
    <3>1. UNCHANGED taskVars /\ processor' = "drain" /\ cancelQueue' = Tail(cancelQueue) /\ cancelQueue # <<>>
      BY <2>2 DEF ProcessorTakesCancelled
    <3>2. cancelQueue' \in Seq(Samples)
      BY <1>2, <3>1, HeadTailProperties DEF TaskTypes
    <3> QED BY <1>2, <3>1, <3>2 DEF taskVars, TaskTypes, Room, ActiveTasks, Live
  <2>3. CASE ProcessorReaps
    <3>1. UNCHANGED <<task, stamp, failures, cancelQueue>> /\ finishedTasks' = 0 /\ failedTasks' = 0
          /\ processor' \in {"drain", "crashed"}
      BY <2>3 DEF ProcessorReaps, ProcessorCrashes
    <3>2. Live' = Live
      BY <3>1 DEF Live
    <3>3. ActiveTasks' <= MaxConcurrent
      BY <1>1, <3>1, <3>2 DEF ActiveTasks, Room
    <3> QED BY <1>1, <1>2, <3>1, <3>3 DEF TaskTypes, Room
  <2>4. CASE ProcessorSubmits
    <3>1. hand \in Samples
      BY <2>4 DEF ProcessorSubmits, ProcessorOwns, HandInv, Holding, RollTypeOK, Items
    <3>2. UNCHANGED <<stamp, failures, finishedTasks, failedTasks, cancelQueue>>
          /\ processor = "submit" /\ processor' = "top" /\ TaskGoes(hand, "created")
      BY <2>4 DEF ProcessorSubmits, ProcessorOwns, TaskGoes
    <3>3. ActiveTasks' <= ActiveTasks + 1
      BY <3>1, <3>2, TaskBegins
    <3>4. ActiveTasks < MaxConcurrent
      BY <3>2 DEF Room
    <3>5. ActiveTasks' \in Nat
      <4>1. Live' \subseteq Samples
        BY DEF Live
      <4>2. Cardinality(Live') \in Nat
        BY <4>1, Numbers, FS_Subset, FS_CardinalityType
      <4> QED BY <1>1, <3>2, <4>2 DEF ActiveTasks, Live
    <3>6. ActiveTasks' <= MaxConcurrent
      BY <1>1, <3>3, <3>4, <3>5
    <3>7. TaskTypes'
      BY <1>2, <3>1, <3>2 DEF TaskTypes, TaskGoes
    <3> QED BY <3>2, <3>6, <3>7 DEF Room
  <2>5. CASE ProcessorSleeps \/ ProcessorWakes
    BY <1>3, <2>5 DEF ProcessorSleeps, ProcessorWakes, ProcessorWaits, ProcessorGoes, Room
  <2>6. CASE ProcessorSeesPause \/ ProcessorAsksPending \/ ProcessorGets \/ ProcessorDrains
             \/ ProcessorAwaitsTask \/ ProcessorLeavesPause \/ ProcessorPauses \/ ProcessorFindsNoTask
    BY <1>3, <2>6 DEF ProcessorSeesPause, ProcessorAsksPending, ProcessorGets, ProcessorDrains,
                      ProcessorAwaitsTask, ProcessorLeavesPause, ProcessorPauses, ProcessorFindsNoTask,
                      ProcessorCrashes, ProcessorGoes
  <2> QED BY <1>5, <2>1, <2>2, <2>3, <2>4, <2>5, <2>6 DEF Processor
<1>6. CASE TaskSteps
  <2>1. PICK s \in Samples : TaskStarts(s) \/ TaskSends(s) \/ TaskEnds(s)
    BY <1>6 DEF TaskSteps
  <2>2. processor' = processor /\ version' = version /\ version \in Nat
    BY <1>6 DEF TaskSteps, procVars, RollTypeOK
  <2>3. CASE TaskStarts(s) \/ TaskSends(s)
    <3>1. /\ UNCHANGED <<finishedTasks, failedTasks, failures, cancelQueue>>
          /\ (stamp' = stamp \/ stamp' = [stamp EXCEPT ![s] = version])
          /\ task[s] # "none" /\ (TaskGoes(s, "requested") \/ TaskGoes(s, "putting"))
      BY <2>3 DEF TaskStarts, TaskSends, TaskAt
    <3>2. Live' = Live
      BY <3>1, TaskGoesOn
    <3>3. TaskTypes'
      BY <1>2, <2>2, <3>1 DEF TaskTypes, TaskGoes
    <3> QED BY <2>2, <3>1, <3>2, <3>3 DEF Room, ActiveTasks
  <2>4. CASE TaskEnds(s)
    <3>1. /\ UNCHANGED <<failures, stamp>> /\ TaskGoes(s, "none") /\ task[s] # "none"
          /\ finishedTasks' = finishedTasks + 1
          /\ failedTasks' \in {failedTasks, failedTasks + 1}
          /\ (cancelQueue' = cancelQueue \/ cancelQueue' = Append(cancelQueue, s))
      BY <1>1, <1>2, <2>4 DEF TaskEnds, Requeued, TaskTypes
    <3>2. ActiveTasks' = ActiveTasks /\ finishedTasks' <= ActiveTasks
      BY <3>1, TaskOver
    <3>3. task' \in [Samples -> {"none", "created", "requested", "generating", "refused", "answered",
                                 "cancelled", "failed", "putting", "put"}]
      BY <1>2, <3>1 DEF TaskTypes, TaskGoes
    <3>4. cancelQueue' \in Seq(Samples)
      <4>1. cancelQueue \in Seq(Samples) /\ Append(cancelQueue, s) \in Seq(Samples)
        BY <1>2, AppendProperties DEF TaskTypes
      <4> QED BY <3>1, <4>1
    <3>5. finishedTasks' \in 0..MaxConcurrent /\ failedTasks' \in 0..finishedTasks'
      BY <1>1, <1>2, <3>1, <3>2 DEF TaskTypes, Room
    <3>6. TaskTypes'
      BY <1>2, <3>1, <3>3, <3>4, <3>5 DEF TaskTypes
    <3> QED BY <2>2, <3>2, <3>6 DEF Room
  <2> QED BY <2>1, <2>3, <2>4
<1>7. CASE TaskEnvironment \/ \E s \in Samples : ServersFail(s)
  <2>1. PICK s \in Samples : ServersTake(s) \/ ServersAnswer(s) \/ QueueTakes(s) \/ QueueAnswers(s)
                             \/ ServersFail(s)
    BY <1>7 DEF TaskEnvironment
  <2>2. UNCHANGED <<processor, stamp, finishedTasks, failedTasks, cancelQueue>>
    BY <2>1 DEF ServersTake, ServersAnswer, QueueTakes, QueueAnswers, ServersFail, TaskOutside, procVars
  <2>3. failures' \in 0..MaxFailures
    BY <1>1, <1>2, <2>1 DEF ServersTake, ServersAnswer, QueueTakes, QueueAnswers, ServersFail, TaskTypes
  <2>4. CASE QueueAnswers(s)
    BY <1>4, <2>2, <2>4 DEF QueueAnswers, taskVars
  <2>5. CASE ~QueueAnswers(s)
    <3>1. task[s] # "none" /\ \E place \in {"refused", "generating", "answered", "cancelled", "failed", "put"} :
                                 TaskGoes(s, place)
      BY <2>1, <2>5 DEF ServersTake, ServersAnswer, QueueTakes, ServersFail
    <3>2. Live' = Live
      BY <3>1, TaskGoesOn
    <3>3. TaskTypes'
      BY <1>2, <2>2, <2>3, <3>1 DEF TaskTypes, TaskGoes
    <3> QED BY <2>2, <3>2, <3>3 DEF Room, ActiveTasks
  <2> QED BY <2>4, <2>5
<1>8. CASE Sync
  <2>1. UNCHANGED <<processor, task, stamp, failures, cancelQueue>>
    BY <1>8 DEF Sync, procVars
  <2>2. \/ UNCHANGED <<finishedTasks, failedTasks>>
        \/ finishedTasks' = 0 /\ failedTasks' = 0
    BY <1>8 DEF Sync, CallLocks, PauseBegins, PauseGathers, Gathers, PauseEnds, UpdateBegins, UpdateResets,
                UpdateEnds, ResumeAsksServers, ResumeEnds, SyncGoes
  <2>3. Live' = Live
    BY <2>1 DEF Live
  <2> HIDE DEF Live
  <2>4. ActiveTasks' <= ActiveTasks
    BY <1>1, <2>2, <2>3 DEF ActiveTasks
  <2>5. ActiveTasks' \in Nat
    BY <1>1, <2>2, <2>3 DEF ActiveTasks
  <2>6. TaskTypes'
    BY <1>1, <1>2, <2>1, <2>2 DEF TaskTypes
  <2> QED BY <1>1, <2>1, <2>4, <2>5, <2>6 DEF Room
<1>9. CASE FeederPuts \/ FeederEnds \/ Monitor \/ Main \/ MonitorTimer \/ QueueTakesNone \/ SyncEnvironment
  BY <1>4, <1>9 DEF FeederPuts, FeederEnds, FeederDoes, Monitor, Main, MainOnly, MonitorTimer, QueueTakesNone,
                    SyncEnvironment, ServersCancel, ServersResume, QueueSizes, QueueTakesValidate, SyncArrives,
                    SyncOutside, procVars
<1> QED BY <1>5, <1>6, <1>7, <1>8, <1>9 DEF RollNext, LoopRuns

FeedTypes ==
    /\ pendingQueue \in Seq(Samples \cup {Done})
    /\ fed \in 0..TotalRolloutSteps /\ feeder \in {"feeding", "closing", "ended"}

ProcTypes ==
    /\ processor \in {"top", "pausing", "get", "drain", "drainLock", "drainWait",
                      "idle", "idleWait", "submit", "submitWait", "ended", "crashed"}
    /\ drainFor \in {"pause", "capacity", "done"} /\ hand \in Items /\ everReaped \in BOOLEAN

LEMMA FeederTyped ==
  ASSUME RollTypeOK, FeedInv, FeederPuts \/ FeederEnds
  PROVE  FeedTypes' /\ FeedInv'
<1>1. /\ fed \in Nat /\ fed <= TotalRolloutSteps /\ TotalRolloutSteps \in Nat
      /\ pendingQueue \in Seq(Samples \cup {Done})
  BY Numbers DEF RollTypeOK
<1>2. CASE FeederPuts
  <2>1. pendingQueue' = Append(pendingQueue, fed + 1) /\ fed' = fed + 1 /\ fed < TotalRolloutSteps
        /\ feeder' = IF fed' >= TotalRolloutSteps THEN "closing" ELSE "feeding"
    BY <1>2 DEF FeederPuts, FeederDoes, FeedInv
  <2>2. fed + 1 \in Samples
    BY <1>1, <2>1, Numbers
  <2>3. pendingQueue' \in Seq(Samples \cup {Done})
    BY <1>1, <2>1, <2>2, AppendProperties
  <2> QED BY <1>1, <2>1, <2>3 DEF FeedTypes, FeedInv
<1>3. CASE FeederEnds
  <2>1. pendingQueue' = Append(pendingQueue, Done) /\ fed' = fed /\ feeder' = "ended"
    BY <1>3 DEF FeederEnds, FeederDoes
  <2>2. pendingQueue' \in Seq(Samples \cup {Done})
    BY <1>1, <2>1, AppendProperties
  <2> QED BY <1>1, <2>1, <2>2 DEF FeedTypes, FeedInv
<1> QED BY <1>2, <1>3

\* At "get" the processor runs only when there is something to get.
LEMMA GetsSomething ==
  ASSUME RollTypeOK, ProcLoop, ProcessorGets
  PROVE  pendingQueue # <<>> /\ Head(pendingQueue) \in Samples \cup {Done}
         /\ Tail(pendingQueue) \in Seq(Samples \cup {Done})
<1>1. processor = "get" /\ R(Proc) > 0
  BY LoopTyped, RunsIsReady DEF ProcessorGets, ProcessorAt
<1>2. pendingQueue # <<>> /\ pendingQueue \in Seq(Samples \cup {Done})
  BY <1>1 DEF ProcLoop, RollTypeOK
<1> QED BY <1>2, HeadTailProperties

LEMMA ProcessorTyped ==
  ASSUME RollTypeOK, ProcLoop, HandInv, FeedInv, Processor
  PROVE  FeedTypes' /\ FeedInv' /\ ProcTypes' /\ HandInv' /\ paused' \in BOOLEAN /\ staleness' \in Nat
<1>1. FeedTypes /\ ProcTypes /\ paused \in BOOLEAN /\ staleness \in Nat /\ None \notin Samples
  BY Numbers DEF RollTypeOK, FeedTypes, ProcTypes
<1>2. CASE ProcessorGets
  <2>1. Head(pendingQueue) \in Samples \cup {Done} /\ Tail(pendingQueue) \in Seq(Samples \cup {Done})
    BY <1>2, GetsSomething
  <2>2. /\ processor = "get" /\ processor' = "drain" /\ pendingQueue' = Tail(pendingQueue)
        /\ staleness' = staleness + 1
        /\ UNCHANGED <<paused, fed, feeder, everReaped>>
        /\ \/ drainFor' = "done" /\ hand' = hand
           \/ Head(pendingQueue) # Done /\ drainFor' = "capacity" /\ hand' = Head(pendingQueue)
    BY <1>2 DEF ProcessorGets, ProcessorAt
  <2> QED BY <1>1, <2>1, <2>2 DEF FeedTypes, FeedInv, ProcTypes, HandInv, Holding, Draining, Items
<1>3. CASE ProcessorTakesCancelled
  <2>1. cancelQueue # <<>> /\ cancelQueue \in Seq(Samples) /\ hand' = Head(cancelQueue)
    BY <1>3 DEF ProcessorTakesCancelled, RollTypeOK
  <2>2. hand' \in Samples
    BY <2>1, HeadTailProperties
  <2> QED BY <1>1, <1>3, <2>2 DEF ProcessorTakesCancelled, FeedTypes, FeedInv, feedVars, ProcTypes, HandInv,
                                  Holding, Draining, Items
<1>4. CASE ProcessorDrained
  <2>1. UNCHANGED <<feedVars, paused, drainFor, hand, everReaped, staleness>> /\ processor = "drain"
        /\ \/ drainFor = "pause" /\ processor' = "idle"
           \/ drainFor = "capacity" /\ processor' = "submit"
           \/ drainFor = "done" /\ processor' = "ended"
    BY <1>4 DEF ProcessorDrained, ProcessorAt, ProcessorGoes
  <2> QED BY <1>1, <2>1 DEF FeedTypes, FeedInv, feedVars, ProcTypes, HandInv, Holding, Draining
<1>5. CASE ProcessorSeesPause \/ ProcessorAsksPending \/ ProcessorDrains \/ ProcessorAwaitsTask
           \/ ProcessorSleeps \/ ProcessorWakes \/ ProcessorLeavesPause
  BY <1>1, <1>5 DEF ProcessorSeesPause, ProcessorAsksPending, ProcessorDrains, ProcessorAwaitsTask, ProcessorSleeps,
                    ProcessorWakes, ProcessorWaits, ProcessorLeavesPause, ProcessorAt, ProcessorOwns,
                    ProcessorGoes, FeedTypes, FeedInv, feedVars, ProcTypes, HandInv, Holding, Draining
<1>6. CASE ProcessorPauses \/ ProcessorFindsNoTask \/ ProcessorReaps
  BY <1>1, <1>6 DEF ProcessorPauses, ProcessorFindsNoTask, ProcessorReaps, ProcessorCrashes, ProcessorOwns,
                    FeedTypes, FeedInv, feedVars, ProcTypes, HandInv, Holding, Draining
<1>7. CASE ProcessorSubmits
  BY <1>1, <1>7 DEF ProcessorSubmits, ProcessorOwns, FeedTypes, FeedInv, feedVars, ProcTypes, HandInv, Holding,
                    Draining, Items
<1> QED BY <1>2, <1>3, <1>4, <1>5, <1>6, <1>7 DEF Processor

CallTypes ==
    /\ {paused, monitorTrigger, rollRunning, serversPaused} \subseteq BOOLEAN
    /\ {staleness, version, syncVersion, syncSum} \subseteq Nat
    /\ sync \in {"none", "pauseCall", "pausing", "cancelling", "cancelled", "gathering",
                 "flushing", "paused", "updateCall", "updating", "sizing", "sized",
                 "validating", "validated", "resumeCall", "resuming", "serversResuming",
                 "serversResumed"}
    /\ monitor \in {"check", "checking", "sleep", "unpausing", "ended"}
    /\ main \in {"streaming", "sending", "sent", "stopping", "ended"}

LEMMA OthersTyped ==
  ASSUME MQTypeOK, RollTypeOK, OtherSteps
  PROVE  CallTypes' /\ UNCHANGED <<feedVars, procVars>>
<1>1. CallTypes /\ ActiveTasks \in Nat /\ Len(cancelQueue) \in Nat /\ Len(queue) \in Nat
  <2>1. CallTypes
    BY DEF RollTypeOK, CallTypes
  <2>2. ActiveTasks \in Nat
    BY ActiveCounts
  <2>3. cancelQueue \in Seq(Samples) /\ queue \in Seq(Items)
    BY DEF RollTypeOK, MQTypeOK
  <2> QED BY <2>1, <2>2, <2>3, LenProperties
<1>2. CASE TaskSteps
  <2>1. UNCHANGED <<flagVars, staleness, version, syncVars, monitor, main, serversPaused, feedVars, procVars>>
    BY <1>2 DEF TaskSteps
  <2> QED BY <1>1, <2>1 DEF flagVars, syncVars, CallTypes
<1>3. CASE Monitor
  <2>1. monitor' \in {"check", "checking", "sleep", "unpausing", "ended"} /\ paused' \in {paused, FALSE}
    BY <1>3 DEF Monitor, MonitorStarts, MonitorChecks, MonitorWakes, MonitorUnpauses
  <2> QED BY <1>1, <1>3, <2>1 DEF Monitor, syncVars, CallTypes
<1>4. CASE Main
  BY <1>1, <1>4 DEF Main, MainSends, MainLocks, MainStops, MainOnly, syncVars, CallTypes
<1>5. CASE QueueTakesNone \/ MonitorTimer
  BY <1>1, <1>5 DEF QueueTakesNone, MonitorTimer, MainOnly, flagVars, syncVars, CallTypes
<1>6. CASE TaskEnvironment \/ \E s \in Samples : ServersFail(s)
  <2>1. TaskOutside
    BY <1>6 DEF TaskEnvironment, ServersTake, ServersAnswer, ServersFail, QueueTakes, QueueAnswers
  <2> QED BY <1>1, <2>1 DEF TaskOutside, flagVars, syncVars, CallTypes
<1>7. CASE SyncEnvironment
  <2>1. UNCHANGED <<flagVars, staleness, version, syncVersion, monitor, main>>
    BY <1>7 DEF SyncEnvironment, ServersCancel, ServersResume, QueueSizes, QueueTakesValidate, SyncArrives,
                SyncOutside
  <2>2. /\ sync' \in {sync, "cancelled", "serversResumed", "sized", "validated"}
        /\ serversPaused' \in {serversPaused, TRUE, FALSE}
        /\ (syncSum' = syncSum \/ syncSum' = syncSum + Len(queue))
    BY <1>7 DEF SyncEnvironment, ServersCancel, ServersResume, QueueSizes, QueueTakesValidate, SyncArrives,
                SumEnded
  <2>3. syncSum' \in Nat
    BY <1>1, <2>2 DEF CallTypes
  <2>4. UNCHANGED <<feedVars, procVars>>
    BY <1>7 DEF SyncEnvironment, ServersCancel, ServersResume, QueueSizes, QueueTakesValidate, SyncArrives,
                SyncOutside
  <2>5. sync' \in {"none", "pauseCall", "pausing", "cancelling", "cancelled", "gathering",
                   "flushing", "paused", "updateCall", "updating", "sizing", "sized",
                   "validating", "validated", "resumeCall", "resuming", "serversResuming",
                   "serversResumed"}
    BY <1>1, <2>2 DEF CallTypes
  <2> QED BY <1>1, <2>1, <2>2, <2>3, <2>4, <2>5 DEF flagVars, CallTypes
<1>8. CASE Sync
  <2>1. UNCHANGED <<rollRunning, feedVars, procVars, syncVersion, monitor, main, serversPaused>>
    BY <1>8 DEF Sync
  <2>2. CASE CallLocks \/ UpdateEnds \/ ResumeAsksServers
    BY <1>1, <2>1, <2>2 DEF CallLocks, UpdateEnds, ResumeAsksServers, SyncGoes, CallTypes
  <2>3. CASE PauseBegins \/ PauseGathers \/ PauseEnds
    BY <1>1, <2>1, <2>3 DEF PauseBegins, PauseGathers, Gathers, PauseEnds, CallTypes
  <2>4. CASE UpdateBegins
    <3>1. /\ UNCHANGED <<paused, monitorTrigger, staleness>> /\ version' = syncVersion /\ sync' = "sizing"
          /\ syncSum' = ActiveTasks + Len(cancelQueue)
      BY <2>4 DEF UpdateBegins, VersionTaken, SumBegun
    <3>2. syncSum' \in Nat
      BY <1>1, <3>1
    <3> QED BY <1>1, <2>1, <3>1, <3>2 DEF CallTypes
  <2>5. CASE UpdateResets \/ ResumeEnds
    BY <1>1, <2>1, <2>5 DEF UpdateResets, ResumeEnds, CallTypes
  <2> QED BY <1>8, <2>2, <2>3, <2>4, <2>5 DEF Sync
<1>9. UNCHANGED <<feedVars, procVars>>
  BY DEF OtherSteps, TaskSteps, Monitor, Main, MainOnly, Sync, TaskEnvironment, ServersTake, ServersAnswer,
         ServersFail, QueueTakes, QueueAnswers, TaskOutside, MonitorTimer, QueueTakesNone, SyncEnvironment,
         ServersCancel, ServersResume, QueueSizes, QueueTakesValidate, SyncArrives, SyncOutside
<1> QED BY <1>2, <1>3, <1>4, <1>5, <1>6, <1>7, <1>8, <1>9 DEF OtherSteps

\* The operations of the message queue.
LEMMA PutTyped ==
  ASSUME MQTypeOK, NEW item \in Items, PutSample(item)
  PROVE  MQTypeOK'
<1>1. RoomMade \in Seq(Items)
  <2>1. QueueFull => queue # <<>>
    BY MaxQueueSizeAssumption DEF QueueFull, MQTypeOK
  <2> QED BY <2>1, HeadTailProperties DEF RoomMade, MQTypeOK
<1>2. queue' \in Seq(Items)
  <2>1. Append(RoomMade, item) \in Seq(Items)
    BY <1>1, AppendProperties
  <2> QED BY <2>1 DEF PutSample
<1> QED BY <1>2 DEF MQTypeOK, PutSample, DroppedForRoom, NotifyAll

LEMMA QueueTyped ==
  ASSUME MQTypeOK, RollTypeOK, TrainTypeOK, [Next]_vars
  PROVE  MQTypeOK'
<1>1. CASE UNCHANGED mqVars
  BY <1>1 DEF mqVars, mqCounters, MQTypeOK
<1>2. CASE RollNext
  <2>1. CASE LoopRuns \/ MonitorTimer \/ \E s \in Samples : ServersFail(s)
    <3>1. UNCHANGED mqVars
      BY <2>1 DEF LoopRuns, FeederPuts, FeederEnds, FeederDoes, Processor, TaskSteps, Monitor, Main, MainSends,
                  MainLocks, MainStops, Sync, CallLocks, PauseBegins, PauseGathers, Gathers, PauseEnds,
                  UpdateBegins, UpdateResets, UpdateEnds, ResumeAsksServers, ResumeEnds, SyncGoes,
                  MonitorTimer, ServersFail
    <3> QED BY <1>1, <3>1
  <2>2. CASE TaskEnvironment
    <3>1. PICK s \in Samples : ServersTake(s) \/ ServersAnswer(s) \/ QueueTakes(s) \/ QueueAnswers(s)
      BY <2>2 DEF TaskEnvironment
    <3>2. CASE QueueTakes(s)
      BY <3>2, PutTyped DEF QueueTakes, Items
    <3>3. CASE ~QueueTakes(s)
      BY <1>1, <3>1, <3>3 DEF ServersTake, ServersAnswer, QueueAnswers
    <3> QED BY <3>2, <3>3
  <2>3. CASE QueueTakesNone
    BY <2>3, PutTyped DEF QueueTakesNone, Items
  <2>4. CASE SyncEnvironment
    <3>1. CASE QueueTakesValidate
      <4>1. valQueue' = Append(valQueue, version) /\ version \in Nat
            /\ UNCHANGED <<queue, mqCounters, running, mqVersion, getter>>
        BY <3>1 DEF QueueTakesValidate, PutValidate, RollTypeOK
      <4>2. valQueue' \in Seq(Nat)
        BY <4>1, AppendProperties DEF MQTypeOK
      <4> QED BY <4>1, <4>2 DEF mqCounters, MQTypeOK
    <3>2. CASE ~QueueTakesValidate
      BY <1>1, <2>4, <3>2 DEF SyncEnvironment, ServersCancel, ServersResume, QueueSizes, SyncArrives
    <3> QED BY <3>1, <3>2
  <2> QED BY <1>2, <2>1, <2>2, <2>3, <2>4 DEF RollNext
<1>3. CASE TrainNext
  <2>1. CASE CollectWaits
    BY <2>1 DEF CollectWaits, GetSampleWaits, mqCounters, MQTypeOK
  <2>2. CASE CollectTakes \/ CollectStops
    <3>1. GetSampleReturns(Reader) /\ queue # <<>>
      BY <2>2 DEF CollectTakes, CollectStops, GetSampleReturns
    <3>2. Tail(queue) \in Seq(Items)
      BY <3>1, HeadTailProperties DEF MQTypeOK
    <3>3. queue' = Tail(queue) /\ totalConsumed' = totalConsumed + 1
          /\ getter' = [getter EXCEPT ![Reader] = "idle"]
          /\ UNCHANGED <<totalProduced, droppedSamples, cleared, running, mqVersion, valQueue>>
      BY <3>1 DEF GetSampleReturns
    <3>4. getter' \in [Consumers -> {"idle", "waiting", "notified"}]
      BY <3>3 DEF MQTypeOK
    <3>5. totalConsumed' \in Nat
      BY <3>3 DEF MQTypeOK
    <3> QED BY <3>2, <3>3, <3>4, <3>5 DEF MQTypeOK
  <2>3. CASE TransferBegins
    BY <2>3 DEF TransferBegins, UpdateParamVersion, mqCounters, MQTypeOK, TrainTypeOK
  <2>4. CASE Logs \/ Finishes \/ FinishesSync
    <3>1. GetValidate
      BY <2>4 DEF Logs, Finishes, FinishesSync
    <3>2. valQueue' \in Seq(Nat)
      BY <3>1, HeadTailProperties DEF GetValidate, MQTypeOK
    <3> QED BY <3>1, <3>2 DEF GetValidate, mqCounters, MQTypeOK
  <2>5. CASE Trains \/ CallsPause \/ TransferEnds
    BY <1>1, <2>5 DEF Trains, CallsPause, TransferEnds
  <2> QED BY <1>3, <2>1, <2>2, <2>3, <2>4, <2>5 DEF TrainNext
<1>4. CASE RunnerEnds
  <2>1. <<>> \in Seq(Items) /\ Len(queue) \in Nat
    BY DEF MQTypeOK
  <2> QED BY <1>4, <2>1 DEF RunnerEnds, ClearQueue, ClearedCount, MQTypeOK
<1> QED BY <1>1, <1>2, <1>3, <1>4 DEF Next, Terminated, vars

LEMMA TrainerTyped ==
  ASSUME MQTypeOK, TrainTypeOK, BatchInv, runner \in {"waiting", "ended"}, [Next]_vars
  PROVE  TrainTypeOK' /\ BatchInv' /\ runner' \in {"waiting", "ended"}
<1>1. RequiredSamples \in Nat \ {0} /\ TriggerSyncStep \in Nat \ {0}
  BY Numbers
<1>2. /\ batch \in Seq(Samples) /\ Len(batch) \in Nat /\ localStep \in Nat /\ trainerVersion \in Nat
      /\ lastCkptVersion \in Nat
  BY <1>1 DEF TrainTypeOK
<1>3. CASE UNCHANGED trainVars
  BY <1>3 DEF trainVars, TrainTypeOK, BatchInv, Next, RunnerEnds, Others, Terminated, vars
<1>4. CASE TrainNext /\ UNCHANGED runner
  <2>1. CASE CollectTakes
    <3>1. Head(queue) \in Samples
      <4>1. queue # <<>> /\ Head(queue) # None
        BY <2>1 DEF CollectTakes, GetSampleReturns
      <4> QED BY <4>1, HeadTailProperties DEF MQTypeOK, Items
    <3>2. batch' = Append(batch, Head(queue)) /\ batch' \in Seq(Samples) /\ Len(batch') = Len(batch) + 1
      <4>1. Append(batch, Head(queue)) \in Seq(Samples) /\ Len(Append(batch, Head(queue))) = Len(batch) + 1
        BY <1>2, <3>1, AppendProperties
      <4> QED BY <2>1, <4>1 DEF CollectTakes
    <3>3. Len(batch) < RequiredSamples /\ trainer' = IF Len(batch') = RequiredSamples THEN "train" ELSE "collect"
      BY <2>1 DEF CollectTakes, BatchInv
    <3>4. UNCHANGED <<trained, localStep, trainerVersion, lastCkptVersion, stopping>>
      BY <2>1 DEF CollectTakes
    <3> QED BY <1>1, <1>2, <1>4, <3>2, <3>3, <3>4 DEF TrainTypeOK, BatchInv
  <2>2. CASE Trains
    <3>1. {batch[i] : i \in 1..Len(batch)} \subseteq Samples
      BY <1>2
    <3>2. trained' \subseteq Samples
      BY <2>2, <3>1 DEF Trains, TrainTypeOK
    <3>3. batch' = <<>> /\ batch' \in Seq(Samples) /\ Len(batch') = 0
      BY <2>2 DEF Trains
    <3>4. UNCHANGED <<lastCkptVersion, stopping>>
          /\ \/ localStep < TriggerSyncStep /\ localStep' = localStep + 1 /\ trainer' = "log"
                /\ trainerVersion' = trainerVersion
             \/ localStep' = 1 /\ trainerVersion' = trainerVersion + 1 /\ trainer' = "waitValid"
      BY <2>2 DEF Trains, NewVersion
    <3> QED BY <1>1, <1>2, <1>4, <3>2, <3>3, <3>4 DEF TrainTypeOK, BatchInv
  <2>3. CASE CollectWaits
    BY <1>3, <2>3 DEF CollectWaits
  <2>4. CASE CollectStops
    BY <1>4, <2>4 DEF CollectStops, TrainTypeOK, BatchInv
  <2>5. CASE CallsPause \/ TransferBegins \/ TransferEnds
    BY <1>4, <2>5 DEF CallsPause, TransferBegins, TransferEnds, TrainerGoes, TrainTypeOK, BatchInv
  <2>6. CASE Logs \/ FinishesSync
    BY <1>2, <1>4, <2>6 DEF Logs, FinishesSync, ChecksCheckpoint, TrainTypeOK, BatchInv
  <2>7. CASE Finishes
    BY <1>1, <1>2, <1>4, <2>7 DEF Finishes, ChecksCheckpoint, NewVersion, TrainTypeOK, BatchInv
  <2> QED BY <1>4, <2>1, <2>2, <2>3, <2>4, <2>5, <2>6, <2>7 DEF TrainNext
<1> QED BY <1>3, <1>4 DEF Next, RunnerEnds, Others, Terminated, vars

LEMMA RollInvInitial == Init => RollInv
<1> SUFFICES ASSUME Init PROVE RollInv
  OBVIOUS
<1>1. /\ MaxConcurrent \in Nat \ {0} /\ TotalRolloutSteps \in Nat \ {0} /\ RequiredSamples \in Nat \ {0}
      /\ TriggerSyncStep \in Nat \ {0} /\ MaxFailures \in Nat /\ None \notin Samples
  BY Numbers
<1>2. MQTypeOK
  BY DEF Init, MQInit, MQTypeOK
<1>3. ready = <<Mon, Feeder, Proc>> /\ lockQueue = <<>>
  BY DEF Init, RollInit
<1>4. LoopTypes
  <2>1. Mon \in Coroutines /\ Feeder \in Coroutines /\ Proc \in Coroutines
    BY Names
  <2> QED BY <1>3, <2>1 DEF LoopTypes
<1>5. R(Proc) = 1 /\ K(Proc) = 0 /\ F(Proc) = 0
  <2>1. {i \in 1..Len(ready) : ready[i] = Proc} = {3}
    BY <1>3, Names
  <2>2. R(Proc) = 1
    BY <2>1, FS_Singleton DEF R, Occurrences
  <2>3. K(Proc) = 0
    BY <1>3, OccursInNone DEF K
  <2> QED BY <1>3, <2>2, <2>3 DEF F
<1>6. Live = {} /\ Cardinality(Live) = 0
  BY FS_EmptySet DEF Init, RollInit, Live
<1>7. RollTypeOK
  <2>1. ready \in Seq(LockUsers \cup {Feeder} \cup {TaskOf(s) : s \in Samples}) /\ lockQueue \in Seq(LockUsers)
    BY <1>4 DEF LoopTypes, Coroutines
  <2>2. pendingQueue \in Seq(Samples \cup {Done}) /\ cancelQueue \in Seq(Samples)
        /\ fed = 0 /\ feeder = "feeding" /\ hand = None /\ task = [s \in Samples |-> "none"]
        /\ stamp = [s \in Samples |-> 0]
    BY DEF Init, RollInit
  <2>3. /\ finishedTasks = 0 /\ failedTasks = 0 /\ failures = 0 /\ paused = FALSE /\ monitorTrigger = TRUE
        /\ rollRunning = TRUE /\ everReaped = FALSE /\ serversPaused = FALSE
        /\ staleness = 0 /\ version = 0 /\ syncVersion = 0 /\ syncSum = 0
    BY DEF Init, RollInit
  <2>4. processor = "top" /\ drainFor = "capacity" /\ sync = "none" /\ monitor = "check" /\ main = "streaming"
    BY DEF Init, RollInit
  <2>5. FeedTypes
    BY <1>1, <2>2 DEF FeedTypes
  <2>6. ProcTypes
    BY <2>2, <2>3, <2>4 DEF ProcTypes, Items
  <2>7. TaskTypes
    <3>1. task \in [Samples -> {"none", "created", "requested", "generating", "refused", "answered",
                                "cancelled", "failed", "putting", "put"}]
      BY <2>2
    <3>2. stamp \in [Samples -> Nat]
      BY <2>2
    <3>3. failures \in 0..MaxFailures /\ finishedTasks \in 0..MaxConcurrent /\ failedTasks \in 0..finishedTasks
      BY <1>1, <2>3
    <3> QED BY <2>2, <3>1, <3>2, <3>3 DEF TaskTypes
  <2>8. CallTypes
    <3>1. paused \in BOOLEAN /\ monitorTrigger \in BOOLEAN /\ rollRunning \in BOOLEAN /\ serversPaused \in BOOLEAN
      BY <2>3
    <3>2. {staleness, version, syncVersion, syncSum} \subseteq Nat
      BY <2>3
    <3> QED BY <2>4, <3>1, <3>2 DEF CallTypes
  <2> QED BY <2>1, <2>5, <2>6, <2>7, <2>8 DEF FeedTypes, ProcTypes, TaskTypes, CallTypes, RollTypeOK
<1>8. TrainTypeOK /\ runner \in {"waiting", "ended"} /\ BatchInv
  <2>1. batch = <<>> /\ batch \in Seq(Samples) /\ Len(batch) = 0
    BY DEF Init, TrainInit
  <2>2. /\ trainer = "collect" /\ trained = {} /\ localStep = 1 /\ trainerVersion = 0
        /\ lastCkptVersion = 0 /\ stopping = FALSE /\ runner = "waiting"
    BY DEF Init, TrainInit
  <2>3. localStep \in 1..TriggerSyncStep /\ lastCkptVersion \in 0..trainerVersion
    BY <1>1, <2>2
  <2>4. Len(batch) <= RequiredSamples /\ Len(batch) < RequiredSamples
    BY <1>1, <2>1
  <2> QED BY <2>1, <2>2, <2>3, <2>4 DEF TrainTypeOK, BatchInv
<1>9. ProcLoop
  BY <1>5 DEF Init, RollInit, ProcLoop, Present, Locking
<1>10. HandInv /\ Room /\ FeedInv
  BY <1>1, <1>6 DEF Init, RollInit, HandInv, Holding, Draining, Room, ActiveTasks, FeedInv
<1> QED BY <1>2, <1>7, <1>8, <1>9, <1>10 DEF RollInv, TypeOK

LEMMA RollInvNext == RollInv /\ [Next]_vars => RollInv'
<1> SUFFICES ASSUME RollInv, [Next]_vars PROVE RollInv'
  OBVIOUS
<1>1. /\ MQTypeOK /\ RollTypeOK /\ TrainTypeOK /\ runner \in {"waiting", "ended"}
      /\ ProcLoop /\ HandInv /\ Room /\ FeedInv /\ BatchInv /\ LoopTypes
  BY LoopTyped DEF RollInv, TypeOK
<1>2. MQTypeOK'
  BY <1>1, QueueTyped
<1>3. TrainTypeOK' /\ BatchInv' /\ runner' \in {"waiting", "ended"}
  BY <1>1, TrainerTyped
<1>4. FeedTypes /\ ProcTypes /\ TaskTypes /\ CallTypes
  BY <1>1 DEF RollTypeOK, FeedTypes, ProcTypes, TaskTypes, CallTypes
<1>5. ASSUME LoopTypes', FeedTypes', ProcTypes', TaskTypes', CallTypes' PROVE RollTypeOK'
  BY <1>5 DEF LoopTypes, FeedTypes, ProcTypes, TaskTypes, CallTypes, RollTypeOK, Coroutines
<1>6. ASSUME LoopTypes', FeedTypes', ProcTypes', TaskTypes', CallTypes', ProcLoop', HandInv', Room', FeedInv'
      PROVE  RollInv'
  BY <1>2, <1>3, <1>5, <1>6 DEF RollInv, TypeOK
<1>7. CASE FeederPuts \/ FeederEnds
  <2>1. FeedTypes' /\ FeedInv' /\ LoopTypes' /\ ProcLoop'
    BY <1>1, <1>7, FeederTyped, FeederLoop
  <2>2. TaskTypes' /\ Room'
    BY <1>1, <1>7, TasksTyped DEF RollNext, LoopRuns
  <2>3. UNCHANGED <<flagVars, procVars, staleness, version, syncVars, monitor, main, serversPaused>>
    BY <1>7 DEF FeederPuts, FeederEnds, FeederDoes
  <2>4. ProcTypes' /\ CallTypes' /\ HandInv'
    BY <1>1, <1>4, <2>3 DEF flagVars, procVars, syncVars, ProcTypes, CallTypes, HandInv, Holding, Draining
  <2> QED BY <1>6, <2>1, <2>2, <2>4
<1>8. CASE Processor
  <2>1. FeedTypes' /\ FeedInv' /\ ProcTypes' /\ HandInv' /\ paused' \in BOOLEAN /\ staleness' \in Nat
    BY <1>1, <1>8, ProcessorTyped
  <2>2. LoopTypes' /\ ProcLoop'
    BY <1>1, <1>8, ProcessorLoop
  <2>3. TaskTypes' /\ Room'
    BY <1>1, <1>8, TasksTyped DEF RollNext, LoopRuns
  <2>4. UNCHANGED <<monitorTrigger, rollRunning, version, syncVars, monitor, main, serversPaused>>
    BY <1>8 DEF Processor
  <2>5. CallTypes'
    BY <1>4, <2>1, <2>4 DEF syncVars, CallTypes
  <2> QED BY <1>6, <2>1, <2>2, <2>3, <2>5
<1>9. CASE OtherSteps
  <2>1. LoopTypes' /\ ProcLoop'
    BY <1>1, <1>9, OthersLoop
  <2>2. RollNext
    BY <1>9 DEF OtherSteps, RollNext, LoopRuns
  <2>3. TaskTypes' /\ Room'
    BY <1>1, <2>2, TasksTyped
  <2>4. CallTypes' /\ UNCHANGED <<feedVars, procVars>>
    BY <1>1, <1>9, OthersTyped
  <2>5. FeedTypes' /\ ProcTypes' /\ FeedInv' /\ HandInv'
    BY <1>1, <1>4, <2>4 DEF feedVars, procVars, FeedTypes, ProcTypes, FeedInv, HandInv, Holding, Draining
  <2> QED BY <1>6, <2>1, <2>3, <2>4, <2>5
\* The steps of the trainer and of the main program: of the rollouter at most the call changes.
<1>10. CASE (TrainNext /\ UNCHANGED runner) \/ RunnerEnds \/ Terminated \/ UNCHANGED vars
  <2>1. /\ UNCHANGED <<loopVars, flagVars, feedVars, procVars, taskVars, cancelQueue, staleness, version,
                       syncSum, monitor, main, serversPaused>>
        /\ \/ UNCHANGED <<sync, syncVersion>>
           \/ sync' = "pauseCall" /\ syncVersion' = syncVersion
           \/ sync' = "updateCall" /\ syncVersion' = trainerVersion
    <3>1. CASE TrainNext
      BY <3>1 DEF TrainNext, CollectWaits, CollectTakes, CollectStops, Trains, CallsPause, TransferBegins,
                  TransferEnds, Logs, Finishes, FinishesSync, RollouterButSync, rollVars, syncVars
    <3>2. CASE RunnerEnds \/ Terminated \/ UNCHANGED vars
      BY <3>2 DEF RunnerEnds, Terminated, vars, rollVars, syncVars
    <3> QED BY <1>10, <3>1, <3>2
  <2>2. LoopTypes' /\ ProcLoop' /\ FeedTypes' /\ FeedInv' /\ ProcTypes' /\ HandInv'
    BY <1>1, <1>4, <2>1 DEF loopVars, feedVars, procVars, LoopTypes, ProcLoop, Present, R, K, F, FeedTypes,
                            FeedInv, ProcTypes, HandInv, Holding, Draining
  <2>3. TaskTypes' /\ Room'
    BY <1>1, <1>4, <2>1 DEF taskVars, procVars, TaskTypes, Room, ActiveTasks, Live
  <2>4. trainerVersion \in Nat
    BY <1>1 DEF TrainTypeOK
  <2>5. CallTypes'
    BY <1>4, <2>1, <2>4 DEF flagVars, CallTypes
  <2> QED BY <1>6, <2>2, <2>3, <2>5
<1> QED BY <1>7, <1>8, <1>9, <1>10 DEF Next, RollNext, LoopRuns, OtherSteps

LEMMA RollInvariance == Spec => []RollInv
  BY RollInvInitial, RollInvNext, PTL DEF Spec

\* Every variable of the rollouter, the queue, the trainer and the main program keeps its type, for
\* every number of samples, servers and steps: fed never passes total_rollout_steps, a batch never
\* required_samples, and active_tasks never max_concurrent_samples (fully_async_rollouter.py 382-495).
THEOREM TypesHold == Spec => []TypeOK
  BY RollInvariance, PTL DEF RollInv

-----------------------------------------------------------------------------
(* Where the copies of a sample are. *)

\* In the rollouter, and beyond it.
Made(s) == Occurrences(s, pendingQueue) + InSet(s, {hand}) + InSet(s, InTask) + Occurrences(s, cancelQueue)
Out(s) == Occurrences(s, queue) + Occurrences(s, batch) + InSet(s, trained)

\* Whether s is in the hands of a task that has not sent it.
Going == {"created", "requested", "generating", "refused", "answered", "cancelled", "putting"}

LEMMA CopyTypes ==
  ASSUME TypeOK, NEW s \in Samples
  PROVE  /\ Occurrences(s, pendingQueue) \in Nat /\ Occurrences(s, cancelQueue) \in Nat
         /\ Occurrences(s, queue) \in Nat /\ Occurrences(s, batch) \in Nat
         /\ InSet(s, {hand}) = Same(s, hand) /\ InSet(s, {hand}) \in {0, 1}
         /\ InSet(s, InTask) = (IF task[s] \in Going THEN 1 ELSE 0) /\ InSet(s, InTask) \in {0, 1}
         /\ InSet(s, trained) \in {0, 1}
         /\ Made(s) \in Nat /\ Out(s) \in Nat /\ Copies(s) = Made(s) + Out(s)
<1>1. /\ Occurrences(s, pendingQueue) \in Nat /\ Occurrences(s, cancelQueue) \in Nat
      /\ Occurrences(s, queue) \in Nat /\ Occurrences(s, batch) \in Nat
  BY PositionsFinite DEF TypeOK, MQTypeOK, RollTypeOK, TrainTypeOK
<1>2. InSet(s, {hand}) = Same(s, hand) /\ InSet(s, {hand}) \in {0, 1} /\ InSet(s, trained) \in {0, 1}
  BY DEF InSet, Same
<1>3. task[s] \in Going \cup {"none", "put", "failed"}
  BY DEF TypeOK, RollTypeOK, Going
<1>4. s \in InTask <=> task[s] \in Going
  BY <1>3 DEF InTask, Going
<1>5. InSet(s, InTask) = (IF task[s] \in Going THEN 1 ELSE 0) /\ InSet(s, InTask) \in {0, 1}
  BY <1>4 DEF InSet
<1>6. Copies(s) = Occurrences(s, pendingQueue) + InSet(s, {hand}) + InSet(s, InTask) + Occurrences(s, cancelQueue)
                  + Occurrences(s, queue) + Occurrences(s, batch) + InSet(s, trained)
  BY DEF Copies
<1> QED BY <1>1, <1>2, <1>5, <1>6 DEF Made, Out

\* The same after a step.
LEMMA CopyTypesNext ==
  ASSUME TypeOK', NEW s \in Samples
  PROVE  /\ InSet(s, {hand})' = Same(s, hand')
         /\ InSet(s, InTask)' = IF task'[s] \in Going THEN 1 ELSE 0
         /\ Copies(s)' = Made(s)' + Out(s)'
<1>1. /\ Occurrences(s, pendingQueue') \in Nat /\ Occurrences(s, cancelQueue') \in Nat
      /\ Occurrences(s, queue') \in Nat /\ Occurrences(s, batch') \in Nat
  BY PositionsFinite DEF TypeOK, MQTypeOK, RollTypeOK, TrainTypeOK
<1>2. InSet(s, {hand})' = Same(s, hand') /\ InSet(s, {hand})' \in {0, 1} /\ InSet(s, trained)' \in {0, 1}
  BY DEF InSet, Same
<1>3. task'[s] \in Going \cup {"none", "put", "failed"}
  BY DEF TypeOK, RollTypeOK, Going
<1>4. s \in InTask' <=> task'[s] \in Going
  BY <1>3 DEF InTask, Going
<1>5. InSet(s, InTask)' = (IF task'[s] \in Going THEN 1 ELSE 0) /\ InSet(s, InTask)' \in {0, 1}
  BY <1>4 DEF InSet
<1>6. Copies(s)' = Occurrences(s, pendingQueue') + InSet(s, {hand})' + InSet(s, InTask)' + Occurrences(s, cancelQueue')
                   + Occurrences(s, queue') + Occurrences(s, batch') + InSet(s, trained)'
  BY DEF Copies
<1> QED BY <1>1, <1>2, <1>5, <1>6 DEF Made, Out

LEMMA FeederCopies ==
  ASSUME TypeOK, TypeOK', NEW s \in Samples, FeederPuts \/ FeederEnds
  PROVE  Made(s)' = Made(s) + IF FeederPuts THEN Same(s, fed + 1) ELSE 0
<1>1. PICK item : pendingQueue' = Append(pendingQueue, item) /\ item \in Samples \cup {Done}
                  /\ (FeederPuts => item = fed + 1) /\ (~FeederPuts => item = Done)
  <2>1. CASE FeederPuts
    <3>0. fed \in Nat /\ fed' \in 0..TotalRolloutSteps /\ TotalRolloutSteps \in Nat
      BY Numbers DEF TypeOK, RollTypeOK
    <3>1. fed + 1 = fed' /\ fed' \in 1..TotalRolloutSteps
      BY <2>1, <3>0 DEF FeederPuts
    <3> QED BY <2>1, <3>1, Numbers DEF FeederPuts, FeederDoes
  <2>2. CASE ~FeederPuts
    BY <2>2 DEF FeederEnds, FeederDoes
  <2> QED BY <2>1, <2>2
<1>2. Occurrences(s, pendingQueue') = Occurrences(s, pendingQueue) + IF item = s THEN 1 ELSE 0
  <2>1. pendingQueue \in Seq(Samples \cup {Done})
    BY DEF TypeOK, RollTypeOK
  <2>2. Occurrences(s, Append(pendingQueue, item)) = Occurrences(s, pendingQueue) + IF item = s THEN 1 ELSE 0
    BY <1>1, <2>1, OccursAppended
  <2> QED BY <1>1, <2>2
<1>3. UNCHANGED <<hand, task, cancelQueue>>
  BY DEF FeederPuts, FeederEnds, FeederDoes, procVars, taskVars
<1>4. s # Done
  BY Numbers
<1>5. /\ Made(s) = Occurrences(s, pendingQueue) + InSet(s, {hand}) + InSet(s, InTask) + Occurrences(s, cancelQueue)
      /\ Made(s)' = Occurrences(s, pendingQueue') + InSet(s, {hand}) + InSet(s, InTask) + Occurrences(s, cancelQueue)
  BY <1>3 DEF Made, InTask
<1>6. /\ Occurrences(s, pendingQueue) \in Nat /\ InSet(s, {hand}) \in {0, 1} /\ InSet(s, InTask) \in {0, 1}
      /\ Occurrences(s, cancelQueue) \in Nat
  BY CopyTypes
<1> QED BY <1>1, <1>2, <1>4, <1>5, <1>6 DEF Same

\* The steps of the processor move a sample, or leave all where they are.
LEMMA ProcessorCopies ==
  ASSUME RollInv, RollInv', ExactlyOnce, NEW s \in Samples, Processor
  PROVE  Made(s)' = Made(s)
<1>1. TypeOK /\ TypeOK' /\ RollTypeOK /\ ProcLoop /\ HandInv
  BY DEF RollInv, TypeOK
<1>2. /\ Made(s) = Occurrences(s, pendingQueue) + InSet(s, {hand}) + InSet(s, InTask) + Occurrences(s, cancelQueue)
      /\ Made(s)' = Occurrences(s, pendingQueue') + InSet(s, {hand})' + InSet(s, InTask)' + Occurrences(s, cancelQueue')
  BY DEF Made
<1>3. /\ Occurrences(s, pendingQueue) \in Nat /\ Occurrences(s, cancelQueue) \in Nat
      /\ InSet(s, {hand}) = Same(s, hand) /\ InSet(s, {hand}) \in {0, 1}
      /\ InSet(s, InTask) = (IF task[s] \in Going THEN 1 ELSE 0) /\ InSet(s, InTask) \in {0, 1}
  BY <1>1, CopyTypes
<1>4. /\ InSet(s, {hand})' = Same(s, hand')
      /\ InSet(s, InTask)' = IF task'[s] \in Going THEN 1 ELSE 0
  BY <1>1, CopyTypesNext
<1>5. s # None /\ s # Done
  BY Numbers
<1>6. ASSUME UNCHANGED <<pendingQueue, hand, task, cancelQueue>> PROVE Made(s)' = Made(s)
  BY <1>2, <1>3, <1>4, <1>6
<1>7. CASE ProcessorGets
  <2>1. pendingQueue # <<>> /\ pendingQueue \in Seq(Samples \cup {Done})
    BY <1>1, <1>7, GetsSomething DEF RollTypeOK
  <2>2. /\ processor = "get" /\ pendingQueue' = Tail(pendingQueue) /\ UNCHANGED <<task, cancelQueue>>
        /\ \/ Head(pendingQueue) = Done /\ hand' = hand
           \/ Head(pendingQueue) # Done /\ hand' = Head(pendingQueue)
    BY <1>7 DEF ProcessorGets, ProcessorAt, taskVars
  <2>3. hand = None
    BY <1>1, <2>2 DEF HandInv, Holding, Draining
  <2>4. Occurrences(s, pendingQueue') = Occurrences(s, pendingQueue) - IF Head(pendingQueue) = s THEN 1 ELSE 0
    BY <2>1, <2>2, OccursInTail
  <2>5. Same(s, hand') = IF Head(pendingQueue) = s THEN 1 ELSE 0
    BY <1>5, <2>2, <2>3 DEF Same
  <2>6. Same(s, hand) = 0
    BY <1>5, <2>3 DEF Same
  <2>7. InSet(s, InTask)' = InSet(s, InTask)
    BY <1>3, <1>4, <2>2
  <2> QED BY <1>2, <1>3, <1>4, <2>2, <2>4, <2>5, <2>6, <2>7
<1>8. CASE ProcessorTakesCancelled
  <2>1. /\ processor = "top" /\ cancelQueue # <<>> /\ cancelQueue' = Tail(cancelQueue)
        /\ hand' = Head(cancelQueue) /\ UNCHANGED <<task, pendingQueue>>
    BY <1>8 DEF ProcessorTakesCancelled, ProcessorAt, taskVars, feedVars
  <2>2. hand = None
    BY <1>1, <2>1 DEF HandInv, Holding, Draining
  <2>3. Occurrences(s, cancelQueue') = Occurrences(s, cancelQueue) - IF Head(cancelQueue) = s THEN 1 ELSE 0
    BY <1>1, <2>1, OccursInTail DEF RollTypeOK
  <2>4. Same(s, hand') = IF Head(cancelQueue) = s THEN 1 ELSE 0
    BY <2>1 DEF Same
  <2>5. Same(s, hand) = 0
    BY <1>5, <2>2 DEF Same
  <2>6. InSet(s, InTask)' = InSet(s, InTask)
    BY <1>3, <1>4, <2>1
  <2> QED BY <1>2, <1>3, <1>4, <2>1, <2>3, <2>4, <2>5, <2>6
<1>9. CASE ProcessorSubmits
  <2>1. /\ processor = "submit" /\ task' = [task EXCEPT ![hand] = "created"] /\ hand' = None
        /\ UNCHANGED <<pendingQueue, cancelQueue>>
    BY <1>9 DEF ProcessorSubmits, ProcessorOwns, feedVars
  <2>2. hand \in Samples
    BY <1>1, <2>1 DEF HandInv, Holding, RollTypeOK, Items
  <2>3. Same(s, hand') = 0
    BY <1>5, <2>1 DEF Same
  <2>4. CASE s = hand
    <3>1. task'[s] \in Going
      BY <1>1, <2>1, <2>2, <2>4 DEF RollTypeOK, Going
    <3>2. Same(s, hand) = 1
      BY <2>4 DEF Same
    <3>3. Copies(s) <= 1
      <4>1. Copies(s) <= IF s <= fed THEN 1 ELSE 0
        BY DEF ExactlyOnce
      <4>2. Copies(s) \in Nat
        BY <1>1, CopyTypes
      <4> QED BY <4>1, <4>2
    <3>4. InSet(s, InTask) = 0
      <4>1. Copies(s) = Made(s) + Out(s) /\ Out(s) \in Nat /\ Made(s) \in Nat
        BY <1>1, CopyTypes
      <4> QED BY <1>2, <1>3, <3>2, <3>3, <4>1
    <3> QED BY <1>2, <1>3, <1>4, <2>1, <2>3, <3>1, <3>2, <3>4
  <2>5. CASE s # hand
    <3>1. task'[s] = task[s] /\ Same(s, hand) = 0
      BY <1>1, <2>1, <2>5 DEF RollTypeOK, Same
    <3> QED BY <1>2, <1>3, <1>4, <2>1, <2>3, <3>1
  <2> QED BY <2>4, <2>5
<1>10. CASE ~(ProcessorGets \/ ProcessorTakesCancelled \/ ProcessorSubmits)
  <2>1. UNCHANGED <<pendingQueue, hand, task, cancelQueue>>
    BY <1>10 DEF Processor, ProcessorSeesPause, ProcessorPauses, ProcessorAsksPending, ProcessorDrains,
                 ProcessorDrained, ProcessorAwaitsTask, ProcessorFindsNoTask, ProcessorReaps, ProcessorSleeps,
                 ProcessorWakes, ProcessorLeavesPause, ProcessorGoes, feedVars, taskVars
  <2> QED BY <1>6, <2>1
<1> QED BY <1>7, <1>8, <1>9, <1>10

\* A task that is over without having sent its sample has given it to cancelQueue; a sample leaves the
\* rollouter when the queue takes it, or its generation raises.
LEMMA TaskCopies ==
  ASSUME TypeOK, TypeOK', NEW s \in Samples, NEW t \in Samples,
         TaskStarts(t) \/ TaskSends(t) \/ TaskEnds(t) \/ ServersTake(t) \/ ServersAnswer(t) \/ QueueAnswers(t)
           \/ QueueTakes(t) \/ ServersFail(t),
         UNCHANGED <<pendingQueue, hand>>
  PROVE  Made(s)' = Made(s) - IF QueueTakes(t) \/ ServersFail(t) THEN Same(s, t) ELSE 0
<1>1. /\ Made(s) = Occurrences(s, pendingQueue) + InSet(s, {hand}) + InSet(s, InTask) + Occurrences(s, cancelQueue)
      /\ Made(s)' = Occurrences(s, pendingQueue) + InSet(s, {hand}) + InSet(s, InTask)' + Occurrences(s, cancelQueue')
  BY DEF Made
<1>2. /\ Occurrences(s, pendingQueue) \in Nat /\ Occurrences(s, cancelQueue) \in Nat
      /\ InSet(s, {hand}) \in {0, 1}
      /\ InSet(s, InTask) = (IF task[s] \in Going THEN 1 ELSE 0)
      /\ InSet(s, InTask)' = (IF task'[s] \in Going THEN 1 ELSE 0)
      /\ task \in [Samples -> Going \cup {"none", "put", "failed"}] /\ cancelQueue \in Seq(Samples)
  BY CopyTypes, CopyTypesNext DEF TypeOK, RollTypeOK, Going
<1>3. CASE QueueTakes(t) \/ ServersFail(t)
  <2>1. cancelQueue' = cancelQueue /\ task[t] \in Going
        /\ \E place \in {"put", "failed"} : task' = [task EXCEPT ![t] = place]
    BY <1>3 DEF QueueTakes, ServersFail, TaskGoes, TaskOutside, Going
  <2>2. task'[s] \in Going <=> s # t /\ task[s] \in Going
    BY <1>2, <2>1 DEF Going
  <2> QED BY <1>1, <1>2, <1>3, <2>1, <2>2 DEF Same
<1>4. CASE ~(QueueTakes(t) \/ ServersFail(t))
  <2>1. CASE TaskEnds(t) /\ task[t] = "cancelled"
    <3>1. cancelQueue' = Append(cancelQueue, t) /\ task' = [task EXCEPT ![t] = "none"]
      BY <2>1 DEF TaskEnds, Requeued, TaskGoes
    <3>2. Occurrences(s, cancelQueue') = Occurrences(s, cancelQueue) + IF t = s THEN 1 ELSE 0
      BY <1>2, <3>1, OccursAppended
    <3>3. task'[s] \in Going <=> s # t /\ task[s] \in Going
      BY <1>2, <3>1 DEF Going
    <3>4. task[t] \in Going
      BY <2>1 DEF Going
    <3> QED BY <1>1, <1>2, <1>4, <3>2, <3>3, <3>4
  <2>2. CASE ~(TaskEnds(t) /\ task[t] = "cancelled")
    <3>1. cancelQueue' = cancelQueue
          /\ \/ task' = task
             \/ \E place \in Going : task[t] \in Going /\ task' = [task EXCEPT ![t] = place]
             \/ task[t] \notin Going /\ task' = [task EXCEPT ![t] = "none"]
      BY <1>4, <2>2 DEF TaskStarts, TaskSends, TaskEnds, TaskAt, ServersTake, ServersAnswer, QueueAnswers, TaskGoes,
                        TaskOutside, Requeued, Going
    <3>2. task'[s] \in Going <=> task[s] \in Going
      BY <1>2, <3>1 DEF Going
    <3> QED BY <1>1, <1>2, <1>4, <3>1, <3>2
  <2> QED BY <2>1, <2>2
<1> QED BY <1>3, <1>4

\* What put_sample does: the oldest sample of a full queue is lost.
\* What a put does to the queue: the item comes, a full queue loses its oldest one.
LEMMA OccursPut ==
  ASSUME queue \in Seq(Items), NEW x, NEW item \in Items, PutSample(item)
  PROVE  Occurrences(x, queue') = Occurrences(x, queue) + Same(x, item) - IF QueueFull /\ Head(queue) = x THEN 1 ELSE 0
<1>1. queue' = Append(RoomMade, item)
  BY DEF PutSample
<1>2. QueueFull => queue # <<>>
  BY MaxQueueSizeAssumption DEF QueueFull
<1>3. RoomMade \in Seq(Items)
      /\ Occurrences(x, RoomMade) = Occurrences(x, queue) - IF QueueFull /\ Head(queue) = x THEN 1 ELSE 0
  <2>1. CASE QueueFull
    <3>1. RoomMade = Tail(queue) /\ Tail(queue) \in Seq(Items)
      BY <1>2, <2>1, HeadTailProperties DEF RoomMade
    <3>2. Occurrences(x, Tail(queue)) = Occurrences(x, queue) - IF Head(queue) = x THEN 1 ELSE 0
      BY <1>2, <2>1, OccursInTail
    <3> QED BY <2>1, <3>1, <3>2
  <2>2. CASE ~QueueFull
    <3>1. RoomMade = queue /\ Occurrences(x, queue) \in Nat
      BY <2>2, PositionsFinite DEF RoomMade
    <3> QED BY <2>2, <3>1
  <2> QED BY <2>1, <2>2
<1>4. Occurrences(x, queue') = Occurrences(x, RoomMade) + Same(x, item)
  <2>1. Occurrences(x, Append(RoomMade, item)) = Occurrences(x, RoomMade) + IF item = x THEN 1 ELSE 0
    BY <1>3, OccursAppended
  <2> QED BY <1>1, <2>1 DEF Same
<1>5. Occurrences(x, queue) \in Nat /\ Same(x, item) \in {0, 1}
  BY PositionsFinite DEF Same
<1> DEFINE lost == IF QueueFull /\ Head(queue) = x THEN 1 ELSE 0
<1>6. lost \in {0, 1} /\ Occurrences(x, RoomMade) = Occurrences(x, queue) - lost
  BY <1>3
<1>7. Occurrences(x, queue') = Occurrences(x, queue) + Same(x, item) - lost
  <2> HIDE DEF lost
  <2> QED BY <1>4, <1>5, <1>6
<1> QED BY <1>7

LEMMA PutCopies ==
  ASSUME TypeOK, NEW s \in Samples, NEW item \in Items, PutSample(item), UNCHANGED trainVars
  PROVE  Out(s)' = Out(s) + Same(s, item) - IF QueueFull /\ Head(queue) = s THEN 1 ELSE 0
<1> DEFINE lost == IF QueueFull /\ Head(queue) = s THEN 1 ELSE 0
<1>1. Occurrences(s, queue') = Occurrences(s, queue) + Same(s, item) - lost
  BY OccursPut DEF TypeOK, MQTypeOK
<1>2. /\ Occurrences(s, queue) \in Nat /\ Occurrences(s, batch) \in Nat /\ InSet(s, trained) \in {0, 1}
      /\ Same(s, item) \in {0, 1} /\ lost \in {0, 1}
  BY CopyTypes DEF Same
<1>3. /\ Out(s) = Occurrences(s, queue) + Occurrences(s, batch) + InSet(s, trained)
      /\ Out(s)' = Occurrences(s, queue') + Occurrences(s, batch) + InSet(s, trained)
  BY DEF Out, trainVars
<1>4. Out(s)' = Out(s) + Same(s, item) - lost
  <2> HIDE DEF lost
  <2> QED BY <1>1, <1>2, <1>3
<1> QED BY <1>4

\* What the trainer takes from the queue it has in its batch until it has trained on it.
LEMMA TrainerCopies ==
  ASSUME TypeOK, ExactlyOnce, NEW s \in Samples, TrainNext
  PROVE  Out(s)' = Out(s)
<1>1. /\ Out(s) = Occurrences(s, queue) + Occurrences(s, batch) + InSet(s, trained)
      /\ Out(s)' = Occurrences(s, queue') + Occurrences(s, batch') + InSet(s, trained)'
  BY DEF Out
<1>2. /\ Occurrences(s, queue) \in Nat /\ Occurrences(s, batch) \in Nat /\ InSet(s, trained) \in {0, 1}
      /\ queue \in Seq(Items) /\ batch \in Seq(Samples) /\ s # None
  BY CopyTypes, Numbers DEF TypeOK, MQTypeOK, TrainTypeOK
<1>3. CASE CollectTakes \/ CollectStops
  <2>1. queue # <<>> /\ queue' = Tail(queue) /\ trained' = trained
    BY <1>3 DEF CollectTakes, CollectStops, GetSampleReturns
  <2>2. Occurrences(s, queue') = Occurrences(s, queue) - IF Head(queue) = s THEN 1 ELSE 0
    BY <1>2, <2>1, OccursInTail
  <2>3. CASE CollectTakes
    <3>1. batch' = Append(batch, Head(queue)) /\ Head(queue) # None
      BY <2>3 DEF CollectTakes
    <3>2. Head(queue) \in Samples
      BY <1>2, <2>1, <3>1, HeadTailProperties DEF Items
    <3>3. Occurrences(s, Append(batch, Head(queue))) = Occurrences(s, batch) + IF Head(queue) = s THEN 1 ELSE 0
      BY <1>2, <3>2, OccursAppended
    <3> QED BY <1>1, <1>2, <2>1, <2>2, <3>1, <3>3
  <2>4. CASE CollectStops
    <3>1. Head(queue) = None /\ batch' = batch
      BY <2>4 DEF CollectStops
    <3> QED BY <1>1, <1>2, <2>1, <2>2, <3>1
  <2> QED BY <1>3, <2>3, <2>4
<1>4. CASE Trains
  <2>1. queue' = queue /\ batch' = <<>> /\ trained' = trained \cup {batch[i] : i \in 1..Len(batch)}
    BY <1>4 DEF Trains, mqVars
  <2>2. Occurrences(s, batch') = 0
    BY <2>1, OccursInNone
  <2>3. Occurrences(s, batch) > 0 <=> s \in {batch[i] : i \in 1..Len(batch)}
    BY <1>2, OccursOrNot
  <2>4. Occurrences(s, batch) + InSet(s, trained) <= 1
    <3>1. Copies(s) <= 1 /\ Copies(s) = Made(s) + Out(s) /\ Made(s) \in Nat /\ Out(s) \in Nat
      <4>1. Copies(s) <= IF s <= fed THEN 1 ELSE 0
        BY DEF ExactlyOnce
      <4>2. Copies(s) = Made(s) + Out(s) /\ Made(s) \in Nat /\ Out(s) \in Nat
        BY CopyTypes
      <4> QED BY <4>1, <4>2
    <3> QED BY <1>1, <1>2, <3>1
  <2>5. InSet(s, trained)' = Occurrences(s, batch) + InSet(s, trained)
    BY <1>2, <2>1, <2>3, <2>4 DEF InSet
  <2> QED BY <1>1, <1>2, <2>1, <2>2, <2>5
<1>5. CASE ~(CollectTakes \/ CollectStops \/ Trains)
  <2>1. UNCHANGED <<queue, batch, trained>>
    BY <1>5 DEF TrainNext, CollectWaits, GetSampleWaits, CallsPause, TransferBegins, UpdateParamVersion, TransferEnds,
                Logs, Finishes, FinishesSync, GetValidate, TrainerGoes, trainVars, mqVars
  <2> QED BY <1>1, <2>1 DEF InSet
<1> QED BY <1>3, <1>4, <1>5

-----------------------------------------------------------------------------
(* What a step does to the copies of a sample. *)

LEMMA RolloutKeeps ==
  ASSUME RollInv, RollInv', ExactlyOnce, NEW s \in Samples, RollNext, UNCHANGED trainVars, ~FeederPuts,
         \A t \in Samples : ~QueueTakes(t) /\ ~ServersFail(t)
  PROVE  /\ UNCHANGED <<fed, failures>>
         /\ Made(s)' = Made(s)
         /\ (UNCHANGED <<queue, droppedSamples, cleared>> \/ QueueTakesNone)
<1>1. TypeOK /\ TypeOK'
  BY DEF RollInv
<1>2. ASSUME UNCHANGED <<pendingQueue, hand, task, cancelQueue>> PROVE Made(s)' = Made(s)
  BY <1>2 DEF Made, InTask, InSet
<1>3. CASE FeederEnds
  <2>1. Made(s)' = Made(s) + 0 /\ Made(s) \in Nat
    BY <1>1, <1>3, FeederCopies, CopyTypes
  <2> QED BY <1>3, <2>1 DEF FeederEnds, FeederDoes, mqVars, mqCounters, taskVars
<1>4. CASE Processor
  <2>1. UNCHANGED <<fed, failures>>
    BY <1>4 DEF Processor, ProcessorSeesPause, ProcessorPauses, ProcessorTakesCancelled, ProcessorAsksPending,
                ProcessorGets, ProcessorDrains, ProcessorDrained, ProcessorAwaitsTask, ProcessorFindsNoTask,
                ProcessorReaps, ProcessorSleeps, ProcessorWakes, ProcessorLeavesPause, ProcessorSubmits,
                ProcessorGoes, feedVars, taskVars
  <2> QED BY <1>4, <2>1, ProcessorCopies DEF Processor, mqVars, mqCounters
<1>5. CASE TaskSteps
  <2>1. PICK t \in Samples : TaskStarts(t) \/ TaskSends(t) \/ TaskEnds(t)
    BY <1>5 DEF TaskSteps
  <2>2. UNCHANGED <<pendingQueue, hand, fed, queue, droppedSamples, cleared>>
    BY <1>5 DEF TaskSteps, feedVars, procVars, mqVars, mqCounters
  <2>3. failures' = failures
    BY <2>1 DEF TaskStarts, TaskSends, TaskEnds
  <2>4. Made(s)' = Made(s) - 0
    BY <1>1, <2>1, <2>2, TaskCopies
  <2>5. Made(s) \in Nat
    BY <1>1, CopyTypes
  <2> QED BY <2>2, <2>3, <2>4, <2>5
<1>6. CASE TaskEnvironment
  <2>1. PICK t \in Samples : ServersTake(t) \/ ServersAnswer(t) \/ QueueAnswers(t)
    BY <1>6 DEF TaskEnvironment
  <2>2. UNCHANGED <<pendingQueue, hand, fed, failures, queue, droppedSamples, cleared>>
    BY <2>1 DEF ServersTake, ServersAnswer, QueueAnswers, TaskOutside, feedVars, procVars, mqVars, mqCounters
  <2>3. Made(s)' = Made(s) - 0
    BY <1>1, <2>1, <2>2, TaskCopies
  <2>4. Made(s) \in Nat
    BY <1>1, CopyTypes
  <2> QED BY <2>2, <2>3, <2>4
<1>7. CASE Monitor \/ Main \/ MonitorTimer \/ Sync
  <2>1. UNCHANGED <<pendingQueue, hand, task, cancelQueue, fed, failures>>
    BY <1>7 DEF Monitor, Main, MainOnly, MonitorTimer, Sync, feedVars, procVars, taskVars
  <2>2. UNCHANGED mqVars
    BY <1>7 DEF Monitor, Main, MainSends, MainLocks, MainStops, MonitorTimer, Sync, CallLocks, PauseBegins,
                PauseGathers, Gathers, PauseEnds, UpdateBegins, UpdateResets, UpdateEnds, ResumeAsksServers,
                ResumeEnds, SyncGoes
  <2> QED BY <1>2, <2>1, <2>2 DEF mqVars, mqCounters
<1>8. CASE QueueTakesNone
  <2>1. UNCHANGED <<pendingQueue, hand, task, cancelQueue, fed, failures>>
    BY <1>8 DEF QueueTakesNone, MainOnly, feedVars, procVars, taskVars
  <2> QED BY <1>2, <1>8, <2>1
<1>9. CASE SyncEnvironment
  <2>1. UNCHANGED <<pendingQueue, hand, task, cancelQueue, fed, failures>>
    BY <1>9 DEF SyncEnvironment, ServersCancel, ServersResume, QueueSizes, QueueTakesValidate, SyncArrives,
                SyncOutside, feedVars, procVars, taskVars
  <2>2. UNCHANGED <<queue, droppedSamples, cleared>>
    BY <1>9 DEF SyncEnvironment, ServersCancel, ServersResume, QueueSizes, QueueTakesValidate, SyncArrives,
                PutValidate, mqVars, mqCounters
  <2> QED BY <1>2, <2>1, <2>2
<1> QED BY <1>3, <1>4, <1>5, <1>6, <1>7, <1>8, <1>9 DEF RollNext, LoopRuns, TaskEnvironment

Counted == <<fed, failures, droppedSamples, cleared>>

\* The steps by what they do to samples: one is fed, one is lost by a generation that raises, the queue
\* takes one or the signal and may lose its oldest, the queue is cleared, or all are kept.
Feeds == FeederPuts /\ Others
Fails(t) == ServersFail(t) /\ Others
Puts == (QueueTakesNone \/ (\E t \in Samples : QueueTakes(t))) /\ Others
Keeps ==
    \/ /\ RollNext /\ Others /\ ~FeederPuts /\ ~QueueTakesNone
       /\ \A t \in Samples : ~QueueTakes(t) /\ ~ServersFail(t)
    \/ TrainNext \/ Terminated \/ UNCHANGED vars

LEMMA Fates == [Next]_vars => Feeds \/ (\E t \in Samples : Fails(t)) \/ Puts \/ RunnerEnds \/ Keeps
  BY DEF Next, Feeds, Fails, Puts, Keeps

LEMMA CopiesFed ==
  ASSUME RollInv, RollInv', NEW s \in Samples, Feeds
  PROVE  Copies(s)' = Copies(s) + Same(s, fed + 1) /\ fed' = fed + 1
         /\ UNCHANGED <<queue, failures, droppedSamples, cleared>>
<1>1. TypeOK /\ TypeOK'
  BY DEF RollInv
<1>2. Made(s)' = Made(s) + Same(s, fed + 1)
  BY <1>1, FeederCopies DEF Feeds
<1>3. UNCHANGED <<queue, trainVars, failures, droppedSamples, cleared>> /\ fed' = fed + 1
  BY DEF Feeds, FeederPuts, FeederDoes, Others, mqVars, mqCounters, taskVars
<1>4. Out(s)' = Out(s)
  BY <1>3 DEF Out, InSet, trainVars
<1>5. /\ Copies(s) = Made(s) + Out(s) /\ Copies(s)' = Made(s)' + Out(s)' /\ Made(s) \in Nat /\ Out(s) \in Nat
      /\ Same(s, fed + 1) \in {0, 1}
  BY <1>1, CopyTypes, CopyTypesNext DEF Same
<1> QED BY <1>2, <1>3, <1>4, <1>5

LEMMA CopiesFailed ==
  ASSUME RollInv, RollInv', NEW s \in Samples, NEW t \in Samples, Fails(t)
  PROVE  Copies(s)' = Copies(s) - Same(s, t) /\ failures' = failures + 1
         /\ UNCHANGED <<queue, fed, droppedSamples, cleared>>
<1>1. TypeOK /\ TypeOK'
  BY DEF RollInv
<1>2. UNCHANGED <<queue, trainVars, fed, droppedSamples, cleared, pendingQueue, hand>> /\ failures' = failures + 1
  BY DEF Fails, ServersFail, TaskOutside, Others, mqVars, mqCounters, feedVars, procVars
<1>3. Made(s)' = Made(s) - Same(s, t)
  BY <1>1, <1>2, TaskCopies DEF Fails
<1>4. Out(s)' = Out(s)
  BY <1>2 DEF Out, InSet, trainVars
<1>5. /\ Copies(s) = Made(s) + Out(s) /\ Copies(s)' = Made(s)' + Out(s)' /\ Made(s) \in Nat /\ Out(s) \in Nat
      /\ Same(s, t) \in {0, 1}
  BY <1>1, CopyTypes, CopyTypesNext DEF Same
<1> QED BY <1>2, <1>3, <1>4, <1>5

\* A sample, or the signal, is put into the queue.
LEMMA CopiesPut ==
  ASSUME RollInv, RollInv', ExactlyOnce, NEW s \in Samples, Puts
  PROVE  Copies(s)' = Copies(s) - (IF QueueFull /\ Head(queue) = s THEN 1 ELSE 0)
         /\ UNCHANGED <<fed, failures, cleared>>
<1> DEFINE lost == IF QueueFull /\ Head(queue) = s THEN 1 ELSE 0
<1>1. TypeOK /\ TypeOK' /\ s # None
  BY Numbers DEF RollInv
<1>2. UNCHANGED <<trainVars, fed, failures, cleared, pendingQueue, hand>>
  BY DEF Puts, QueueTakesNone, QueueTakes, PutSample, MainOnly, TaskOutside, Others, feedVars, procVars, taskVars
<1>3. /\ Copies(s) = Made(s) + Out(s) /\ Copies(s)' = Made(s)' + Out(s)' /\ Made(s) \in Nat /\ Out(s) \in Nat
      /\ lost \in {0, 1}
  BY <1>1, CopyTypes, CopyTypesNext
<1>4. CASE QueueTakesNone
  <2>1. PutSample(None) /\ None \in Items
    BY <1>4 DEF QueueTakesNone, Items
  <2>2. Out(s)' = Out(s) + Same(s, None) - lost
    BY <1>1, <1>2, <2>1, PutCopies
  <2>3. Same(s, None) = 0
    BY <1>1 DEF Same
  <2>4. Made(s)' = Made(s)
    BY <1>4 DEF Made, InTask, InSet, QueueTakesNone, MainOnly, feedVars, procVars, taskVars
  <2> HIDE DEF lost
  <2>5. Copies(s)' = Copies(s) - lost
    BY <1>3, <2>2, <2>3, <2>4
  <2> QED BY <1>2, <2>5 DEF lost
<1>5. ASSUME NEW t \in Samples, QueueTakes(t)
      PROVE  Copies(s)' = Copies(s) - lost
  <2>1. PutSample(t) /\ t \in Items
    BY <1>5 DEF QueueTakes, Items
  <2>2. Out(s)' = Out(s) + Same(s, t) - lost
    BY <1>1, <1>2, <2>1, PutCopies
  <2>3. Made(s)' = Made(s) - Same(s, t)
    BY <1>1, <1>2, <1>5, TaskCopies
  <2>4. Same(s, t) \in {0, 1}
    BY DEF Same
  <2> HIDE DEF lost
  <2> QED BY <1>3, <2>2, <2>3, <2>4
<1> QED BY <1>2, <1>4, <1>5 DEF Puts

LEMMA CopiesCleared ==
  ASSUME RollInv, RollInv', NEW s \in Samples, RunnerEnds
  PROVE  Copies(s)' = Copies(s) - Occurrences(s, queue) /\ cleared' = cleared + Len(queue)
         /\ UNCHANGED <<fed, failures, droppedSamples>>
<1>1. TypeOK /\ TypeOK'
  BY DEF RollInv
<1>2. UNCHANGED <<rollVars, trainVars, droppedSamples>> /\ queue' = <<>> /\ cleared' = cleared + Len(queue)
  BY DEF RunnerEnds, ClearQueue, ClearedCount
<1>3. Made(s)' = Made(s)
  BY <1>2 DEF Made, InTask, InSet, rollVars, feedVars, procVars, taskVars
<1>4. Out(s) = Occurrences(s, queue) + Occurrences(s, batch) + InSet(s, trained)
      /\ Out(s)' = Occurrences(s, queue') + Occurrences(s, batch) + InSet(s, trained)
  BY <1>2 DEF Out, trainVars
<1>5. Occurrences(s, queue') = 0
  BY <1>2, OccursInNone
<1>6. /\ Copies(s) = Made(s) + Out(s) /\ Copies(s)' = Made(s)' + Out(s)' /\ Made(s) \in Nat /\ Out(s) \in Nat
      /\ Occurrences(s, queue) \in Nat /\ Occurrences(s, batch) \in Nat /\ InSet(s, trained) \in {0, 1}
  BY <1>1, CopyTypes, CopyTypesNext
<1> QED BY <1>2, <1>3, <1>4, <1>5, <1>6 DEF rollVars, feedVars, taskVars

LEMMA CopiesKept ==
  ASSUME RollInv, RollInv', ExactlyOnce, NEW s \in Samples, Keeps
  PROVE  Copies(s)' = Copies(s) /\ UNCHANGED Counted
<1>1. TypeOK /\ TypeOK'
  BY DEF RollInv
<1>2. /\ Copies(s) = Made(s) + Out(s) /\ Copies(s)' = Made(s)' + Out(s)'
  BY <1>1, CopyTypes, CopyTypesNext
<1>3. CASE /\ RollNext /\ Others /\ ~FeederPuts /\ ~QueueTakesNone
            /\ \A t \in Samples : ~QueueTakes(t) /\ ~ServersFail(t)
  <2>1. UNCHANGED trainVars
    BY <1>3 DEF Others
  <2>2. UNCHANGED <<fed, failures>> /\ Made(s)' = Made(s) /\ UNCHANGED <<queue, droppedSamples, cleared>>
    BY <1>3, <2>1, RolloutKeeps
  <2>3. Out(s)' = Out(s)
    BY <2>1, <2>2 DEF Out, InSet, trainVars
  <2> QED BY <1>2, <2>2, <2>3 DEF Counted
<1>4. CASE TrainNext
  <2>1. Out(s)' = Out(s)
    BY <1>1, <1>4, TrainerCopies
  <2>2. UNCHANGED <<pendingQueue, hand, task, cancelQueue>> /\ UNCHANGED Counted
    BY <1>4 DEF TrainNext, CollectWaits, CollectTakes, CollectStops, Trains, CallsPause, TransferBegins,
                UpdateParamVersion, TransferEnds, Logs, Finishes, FinishesSync, GetValidate, GetSampleWaits,
                GetSampleReturns, RollouterButSync, rollVars, feedVars, procVars, taskVars, mqVars, mqCounters,
                Counted
  <2>3. Made(s)' = Made(s)
    BY <2>2 DEF Made, InTask, InSet
  <2> QED BY <1>2, <2>1, <2>2, <2>3
<1>5. CASE Terminated \/ UNCHANGED vars
  <2>1. UNCHANGED <<pendingQueue, hand, task, cancelQueue, queue, batch, trained>> /\ UNCHANGED Counted
    BY <1>5 DEF Terminated, vars, rollVars, trainVars, mqVars, mqCounters, feedVars, procVars, taskVars, Counted
  <2> QED BY <1>2, <2>1 DEF Made, Out, InTask, InSet
<1> QED BY <1>3, <1>4, <1>5 DEF Keeps

-----------------------------------------------------------------------------
(* The theorem. *)

SamplesInv == RollInv /\ ExactlyOnce

LEMMA SamplesInvInitial == Init => SamplesInv
<1> SUFFICES ASSUME Init PROVE SamplesInv
  OBVIOUS
<1>1. RollInv /\ TypeOK
  BY RollInvInitial DEF RollInv
<1>2. ASSUME NEW s \in Samples PROVE Copies(s) = 0
  <2>1. /\ pendingQueue = <<>> /\ cancelQueue = <<>> /\ queue = <<>> /\ batch = <<>> /\ trained = {} /\ hand = None
        /\ task[s] = "none"
    BY DEF Init, MQInit, RollInit, TrainInit
  <2>2. Occurrences(s, <<>>) = 0 /\ s # None
    BY OccursInNone, Numbers
  <2>3. InSet(s, {hand}) = 0 /\ InSet(s, InTask) = 0 /\ InSet(s, trained) = 0
    BY <2>1, <2>2 DEF InSet, InTask
  <2> QED BY <2>1, <2>2, <2>3 DEF Copies
<1> QED BY <1>1, <1>2 DEF SamplesInv, ExactlyOnce

LEMMA SamplesInvNext == SamplesInv /\ [Next]_vars => SamplesInv'
<1> SUFFICES ASSUME SamplesInv, [Next]_vars PROVE SamplesInv'
  OBVIOUS
<1>1. RollInv /\ ExactlyOnce /\ RollInv'
  BY RollInvNext DEF SamplesInv
<1>2. TypeOK /\ TypeOK' /\ fed \in Nat /\ fed' \in Nat
  <2>1. TypeOK /\ TypeOK'
    BY <1>1 DEF RollInv
  <2>2. fed \in 0..TotalRolloutSteps /\ fed' \in 0..TotalRolloutSteps
    BY <2>1 DEF TypeOK, RollTypeOK
  <2> QED BY <2>1, <2>2, Numbers
<1>3. ASSUME NEW s \in Samples PROVE Copies(s)' <= IF s <= fed' THEN 1 ELSE 0
  <2>1. Copies(s) \in Nat /\ Copies(s) <= (IF s <= fed THEN 1 ELSE 0) /\ s \in Nat
    <3>1. Copies(s) <= IF s <= fed THEN 1 ELSE 0
      BY <1>1 DEF ExactlyOnce
    <3>2. Copies(s) \in Nat
      <4>1. Made(s) \in Nat /\ Out(s) \in Nat /\ Copies(s) = Made(s) + Out(s)
        BY <1>2, CopyTypes
      <4> QED BY <4>1
    <3>3. s \in Nat
      BY Numbers
    <3> QED BY <3>1, <3>2, <3>3
  <2>2. CASE Feeds
    <3>1. Copies(s)' = Copies(s) + Same(s, fed + 1) /\ fed' = fed + 1
      BY <1>1, <2>2, CopiesFed
    <3> QED BY <1>2, <2>1, <3>1 DEF Same
  <2>3. ASSUME NEW t \in Samples, Fails(t)
        PROVE  Copies(s)' <= IF s <= fed' THEN 1 ELSE 0
    <3>1. Copies(s)' = Copies(s) - Same(s, t) /\ fed' = fed
      BY <1>1, <2>3, CopiesFailed
    <3> QED BY <2>1, <3>1 DEF Same
  <2>4. CASE Puts
    <3> DEFINE lost == IF QueueFull /\ Head(queue) = s THEN 1 ELSE 0
    <3>1. Copies(s)' = Copies(s) - lost /\ fed' = fed
      BY <1>1, <2>4, CopiesPut
    <3>2. lost \in {0, 1}
      OBVIOUS
    <3> HIDE DEF lost
    <3> QED BY <2>1, <3>1, <3>2
  <2>5. CASE RunnerEnds
    <3>1. Copies(s)' = Copies(s) - Occurrences(s, queue) /\ fed' = fed /\ Occurrences(s, queue) \in Nat
      BY <1>1, <1>2, <2>5, CopiesCleared, CopyTypes
    <3> QED BY <2>1, <3>1
  <2>6. CASE Keeps
    <3>1. Copies(s)' = Copies(s) /\ fed' = fed
      BY <1>1, <2>6, CopiesKept DEF Counted
    <3> QED BY <2>1, <3>1
  <2> QED BY <2>2, <2>3, <2>4, <2>5, <2>6, Fates
<1> QED BY <1>1, <1>3 DEF SamplesInv, ExactlyOnce

LEMMA SamplesInvariance == Spec => []SamplesInv
  BY SamplesInvInitial, SamplesInvNext, PTL DEF Spec

\* A sample that was fed is in one place at most, and one that was not is nowhere: whatever the
\* synchronizer interrupts, the queue drops and the feeder resubmits, no sample is generated, put or
\* trained on twice (fully_async_rollouter.py 382-527, message_queue.py 67-116,
\* fully_async_trainer.py 134-190), for every number of samples and servers and any staleness.
THEOREM SamplesAreNeverCopied == Spec => []ExactlyOnce
  BY SamplesInvariance, PTL DEF SamplesInv
================================================================================
