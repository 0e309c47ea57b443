---------------------------- MODULE MessageQueue ----------------------------
(***************************************************************************)
(* The sample queue between the Rollouter and the Trainer                  *)
(* (recipe/fully_async_policy/message_queue.py): a Ray actor whose methods *)
(* are coroutines of one event loop, all under one asyncio lock.  No       *)
(* method suspends while it holds the lock, except a consumer that waits   *)
(* on the condition (which releases it), so every method is one atomic     *)
(* step and get_sample is split where it waits.                            *)
(***************************************************************************)
EXTENDS Integers, Sequences, FiniteSets

CONSTANTS Samples,       \* the samples producers may put
          None,          \* the termination signal, put like a sample
          Consumers,     \* the callers of get_sample
          MaxQueueSize   \* max_queue_size

ASSUME MaxQueueSizeAssumption == MaxQueueSize \in Nat \ {0}
ASSUME NoneAssumption == None \notin Samples

VARIABLES queue,          \* the samples held, oldest first
          totalProduced, totalConsumed, droppedSamples,
          cleared,        \* how many samples clear_queue threw away (only logged by the code)
          running,        \* FALSE after shutdown
          mqVersion,      \* current_param_version
          valQueue,       \* val_queue: the versions whose validation data wait
          getter          \* where each consumer's get_sample is

mqCounters == <<totalProduced, totalConsumed, droppedSamples, cleared>>
mqVars == <<queue, mqCounters, running, mqVersion, valQueue, getter>>

Items == Samples \cup {None}

MQTypeOK ==
    /\ queue \in Seq(Items)
    /\ totalProduced \in Nat
    /\ totalConsumed \in Nat
    /\ droppedSamples \in Nat
    /\ cleared \in Nat
    /\ running \in BOOLEAN
    /\ mqVersion \in Nat
    /\ valQueue \in Seq(Nat)
    /\ getter \in [Consumers -> {"idle", "waiting", "notified"}]

MQInit ==
    /\ queue = <<>>
    /\ totalProduced = 0
    /\ totalConsumed = 0
    /\ droppedSamples = 0
    /\ cleared = 0
    /\ running = TRUE
    /\ mqVersion = 0
    /\ valQueue = <<>>
    /\ getter = [c \in Consumers |-> "idle"]

-----------------------------------------------------------------------------
\* Mutants of NotifyAll: nobody is notified, only one consumer is.
NotifyNone == UNCHANGED getter
NotifyOne ==
    \/ (\A c \in Consumers : getter[c] # "waiting") /\ UNCHANGED getter
    \/ \E c \in Consumers : /\ getter[c] = "waiting"
                            /\ getter' = [getter EXCEPT ![c] = "notified"]

\* Condition.notify_all: every waiting consumer will check the queue again.
NotifyAll == getter' = [c \in Consumers |->
                            IF getter[c] = "waiting" THEN "notified" ELSE getter[c]]

\* Mutant of QueueFull: off by one.
QueueFullLate == Len(queue) > MaxQueueSize

QueueFull == Len(queue) >= MaxQueueSize

\* Mutant of RoomMade: the newest sample makes way (pop instead of popleft).
RoomMadeAtTail == IF QueueFull THEN SubSeq(queue, 1, Len(queue) - 1) ELSE queue

\* A full queue first loses its oldest sample, ...
RoomMade == IF QueueFull THEN Tail(queue) ELSE queue

\* Mutant of DroppedForRoom: the loss is not counted.
DroppedUncounted == droppedSamples

\* ... and counts it.
DroppedForRoom == IF QueueFull THEN droppedSamples + 1 ELSE droppedSamples

PutSample(s) ==
    /\ queue' = Append(RoomMade, s)
    /\ droppedSamples' = DroppedForRoom
    /\ totalProduced' = totalProduced + 1
    /\ NotifyAll
    /\ UNCHANGED <<totalConsumed, cleared, running, mqVersion, valQueue>>

\* get_sample, the test of its loop: on entry, and each time it is woken.
Checks(c) == getter[c] \in {"idle", "notified"}

GetSampleWaits(c) ==
    /\ Checks(c)
    /\ queue = <<>>
    /\ running
    /\ getter' = [getter EXCEPT ![c] = "waiting"]
    /\ UNCHANGED <<queue, mqCounters, running, mqVersion, valQueue>>

\* The queue is closed and empty: the caller gets a bare None.
GetSampleClosed(c) ==
    /\ Checks(c)
    /\ queue = <<>>
    /\ ~running
    /\ getter' = [getter EXCEPT ![c] = "idle"]
    /\ UNCHANGED <<queue, mqCounters, running, mqVersion, valQueue>>

\* The caller gets Head(queue) and the length left.
GetSampleReturns(c) ==
    /\ Checks(c)
    /\ queue # <<>>
    /\ queue' = Tail(queue)
    /\ totalConsumed' = totalConsumed + 1
    /\ getter' = [getter EXCEPT ![c] = "idle"]
    /\ UNCHANGED <<totalProduced, droppedSamples, cleared, running, mqVersion, valQueue>>

UpdateParamVersion(v) ==
    /\ mqVersion' = v
    /\ UNCHANGED <<queue, mqCounters, running, valQueue, getter>>

\* A history: clear_queue only logs the count.
ClearedCount == cleared + Len(queue)

ClearQueue ==
    /\ queue' = <<>>
    /\ cleared' = ClearedCount
    /\ UNCHANGED <<totalProduced, totalConsumed, droppedSamples,
                   running, mqVersion, valQueue, getter>>

Shutdown ==
    /\ running' = FALSE
    /\ NotifyAll
    /\ UNCHANGED <<queue, mqCounters, mqVersion, valQueue>>

PutValidate(v) ==
    /\ valQueue' = Append(valQueue, v)
    /\ UNCHANGED <<queue, mqCounters, running, mqVersion, getter>>

\* get_validate takes the oldest entry, or returns None and changes nothing.
GetValidate ==
    /\ valQueue' = IF valQueue = <<>> THEN valQueue ELSE Tail(valQueue)
    /\ UNCHANGED <<queue, mqCounters, running, mqVersion, getter>>

GetSample(c) == GetSampleWaits(c) \/ GetSampleClosed(c) \/ GetSampleReturns(c)

-----------------------------------------------------------------------------
\* The queue never holds more than max_queue_size entries: the deque's own
\* maxlen (line 37) would drop silently, so put_sample must make room first.
Capacity == Len(queue) <= MaxQueueSize

\* Every sample put was consumed, dropped because the queue was full, thrown
\* away by clear_queue, or is still there: the three counters of lines 58-60
\* and the queue agree whatever the order of the calls.
Accounting ==
    totalProduced = totalConsumed + droppedSamples + cleared + Len(queue)

\* No lost wakeup: a consumer that sleeps on the condition sleeps only while
\* the queue is empty and open (lines 106-107 against the two notify_all).
NoLostWakeup ==
    \A c \in Consumers : getter[c] = "waiting" => queue = <<>> /\ running
=============================================================================
