------------------------- MODULE MessageQueueChannel -------------------------
(***************************************************************************)
(* MessageQueue implements SampleChannel.  The two history variables       *)
(* record what was put and which of it was returned; they change nothing.  *)
(***************************************************************************)
EXTENDS MessageQueueSystem

VARIABLES sent,       \* history: every sample put, in order
          delivered   \* history: the position in sent of every sample returned

histVars == <<mqVars, sent, delivered>>

\* The position in sent of the oldest entry: the code's counters give it.
Oldest == totalConsumed + droppedSamples + cleared + 1

HInit == MQInit /\ sent = <<>> /\ delivered = <<>>

HPutSample(s) ==
    /\ totalProduced < MaxPuts
    /\ PutSample(s)
    /\ sent' = Append(sent, s)
    /\ delivered' = delivered

HGetSampleReturns(c) ==
    /\ GetSampleReturns(c)
    /\ delivered' = Append(delivered, Oldest)
    /\ sent' = sent

HOther ==
    /\ \/ \E c \in Consumers : GetSampleWaits(c) \/ GetSampleClosed(c)
       \/ \E v \in 0..MaxVersion : UpdateParamVersion(v)
       \/ ClearQueue
       \/ Shutdown
       \/ \E v \in 0..MaxVersion : Len(valQueue) <= MaxVersion /\ PutValidate(v)
       \/ GetValidate
    /\ UNCHANGED <<sent, delivered>>

HNext ==
    \/ \E s \in Items : HPutSample(s)
    \/ \E c \in Consumers : HGetSampleReturns(c)
    \/ HOther

\* A woken consumer gets its turn of the event loop.
HWoken(c) ==
    /\ getter[c] = "notified"
    /\ \/ HGetSampleReturns(c)
       \/ (GetSampleWaits(c) \/ GetSampleClosed(c)) /\ UNCHANGED <<sent, delivered>>

HFairness == \A c \in Consumers : WF_histVars(HWoken(c))

HSpec == HInit /\ [][HNext]_histVars /\ HFairness

-----------------------------------------------------------------------------
\* The queue holds exactly the last samples put, in order: position i of the
\* deque is the i-th put after those the counters say are gone.
QueueIsSuffix ==
    /\ Len(sent) = totalProduced
    /\ \A i \in 1..Len(queue) : queue[i] = sent[Oldest + i - 1]

Channel == INSTANCE SampleChannel
             WITH Item <- Items, Capacity <- MaxQueueSize,
                  sent <- sent, next <- Oldest, got <- delivered

\* put_sample, get_sample and clear_queue are a lossy first-in first-out
\* channel: no sample is invented, returned twice or returned out of order,
\* and a loss takes the oldest, only from a full queue or by clear_queue.
ImplementsChannel == Channel!Spec

\* A consumer asleep when the queue is shut down comes back (lines 150-156:
\* "Notify all waiting coroutines so they can exit").
ShutdownWakesAll == \A c \in Consumers : ~running ~> getter[c] = "idle"
=============================================================================
