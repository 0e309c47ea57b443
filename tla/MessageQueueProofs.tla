------------------------- MODULE MessageQueueProofs -------------------------
(* Proofs about MessageQueue and its refinement of SampleChannel. *)
EXTENDS MessageQueueChannel, TLAPS

USE DEF Items, RoomMade, DroppedForRoom, ClearedCount

-----------------------------------------------------------------------------
\* The state keeps its type whatever the samples, consumers and sizes.
LEMMA TypeInitial == MQInit => MQTypeOK
  BY DEF MQInit, MQTypeOK

LEMMA TypePreserved == MQTypeOK /\ [MQNext]_mqVars => MQTypeOK'
<1> SUFFICES ASSUME MQTypeOK, [MQNext]_mqVars PROVE MQTypeOK'
  OBVIOUS
<1> USE DEF MQTypeOK
<1>1. ASSUME NEW s \in Items, PutSample(s) PROVE MQTypeOK'
  <2>1. queue' \in Seq(Items)
    <3>1. CASE QueueFull
      <4>1. queue # <<>> /\ Tail(queue) \in Seq(Items)
        BY <3>1, MaxQueueSizeAssumption DEF QueueFull
      <4> QED
        BY <1>1, <3>1, <4>1 DEF PutSample
    <3>2. CASE ~QueueFull
      BY <1>1, <3>2 DEF PutSample
    <3> QED
      BY <3>1, <3>2
  <2> QED
    BY <1>1, <2>1 DEF PutSample, NotifyAll
<1>2. ASSUME NEW c \in Consumers, GetSample(c) PROVE MQTypeOK'
  <2>1. CASE GetSampleWaits(c)
    BY <2>1 DEF GetSampleWaits, mqCounters
  <2>2. CASE GetSampleClosed(c)
    BY <2>2 DEF GetSampleClosed, mqCounters
  <2>3. CASE GetSampleReturns(c)
    <3>1. Tail(queue) \in Seq(Items)
      BY <2>3 DEF GetSampleReturns
    <3> QED
      BY <2>3, <3>1 DEF GetSampleReturns
  <2> QED
    BY <1>2, <2>1, <2>2, <2>3 DEF GetSample
<1>3. ASSUME NEW v \in 0..MaxVersion, UpdateParamVersion(v) PROVE MQTypeOK'
  BY <1>3, BoundsAssumption DEF UpdateParamVersion, mqCounters
<1>4. CASE ClearQueue
  BY <1>4 DEF ClearQueue
<1>5. CASE Shutdown
  BY <1>5 DEF Shutdown, NotifyAll, mqCounters
<1>6. ASSUME NEW v \in 0..MaxVersion, PutValidate(v) PROVE MQTypeOK'
  BY <1>6, BoundsAssumption DEF PutValidate, mqCounters
<1>7. CASE GetValidate
  BY <1>7 DEF GetValidate, mqCounters
<1>8. CASE UNCHANGED mqVars
  BY <1>8 DEF mqVars, mqCounters
<1> QED
  BY <1>1, <1>2, <1>3, <1>4, <1>5, <1>6, <1>7, <1>8 DEF MQNext

\* The type invariant of the message queue holds in every reachable state.
THEOREM TypeCorrect == MQSpec => []MQTypeOK
<1>1. MQInit => MQTypeOK
  BY TypeInitial
<1>2. MQTypeOK /\ [MQNext]_mqVars => MQTypeOK'
  BY TypePreserved
<1> QED
  BY <1>1, <1>2, PTL DEF MQSpec

-----------------------------------------------------------------------------
(* The three safety invariants are inductive together with the type.  The   *)
(* steps that touch neither the queue nor a counter nor a consumer cannot   *)
(* disturb them; each of the others is one step of the proof below.         *)
MQInv == MQTypeOK /\ Capacity /\ Accounting /\ NoLostWakeup

LEMMA InvInitial == MQInit => MQInv
<1> SUFFICES ASSUME MQInit PROVE MQInv
  OBVIOUS
<1>1. MQTypeOK
  BY TypeInitial
<1>2. Len(queue) = 0
  BY DEF MQInit
<1> QED
  BY <1>1, <1>2, MaxQueueSizeAssumption
  DEF MQInv, MQInit, Capacity, Accounting, NoLostWakeup

LEMMA InvPreserved == MQInv /\ [MQNext]_mqVars => MQInv'
<1> SUFFICES ASSUME MQInv, [MQNext]_mqVars PROVE MQInv'
  OBVIOUS
<1>0. MQTypeOK /\ MQTypeOK'
  BY TypePreserved DEF MQInv
<1> USE <1>0
<1>1. ASSUME NEW s \in Items, PutSample(s) PROVE MQInv'
  <2>1. CASE QueueFull
    <3>1. queue # <<>> /\ Tail(queue) \in Seq(Items) /\ Len(Tail(queue)) = Len(queue) - 1
      BY <2>1, MaxQueueSizeAssumption DEF QueueFull, MQTypeOK
    <3>2. Len(queue') = Len(queue)
      BY <1>1, <2>1, <3>1 DEF PutSample, MQTypeOK
    <3> QED
      BY <1>1, <2>1, <3>2 DEF PutSample, NotifyAll, MQInv, MQTypeOK, Capacity, Accounting, NoLostWakeup
  <2>2. CASE ~QueueFull
    <3>1. Len(queue') = Len(queue) + 1
      BY <1>1, <2>2 DEF PutSample, MQTypeOK
    <3>2. Capacity'
      BY <2>2, <3>1, MaxQueueSizeAssumption DEF QueueFull, Capacity, MQTypeOK
    <3> QED
      BY <1>1, <2>2, <3>1, <3>2 DEF PutSample, NotifyAll, MQInv, MQTypeOK, Accounting, NoLostWakeup
  <2> QED
    BY <2>1, <2>2
<1>2. ASSUME NEW c \in Consumers, GetSample(c) PROVE MQInv'
  <2>1. CASE GetSampleWaits(c)
    BY <2>1 DEF GetSampleWaits, mqCounters, MQInv, MQTypeOK, Capacity, Accounting, NoLostWakeup
  <2>2. CASE GetSampleClosed(c)
    BY <2>2 DEF GetSampleClosed, mqCounters, MQInv, MQTypeOK, Capacity, Accounting, NoLostWakeup
  <2>3. CASE GetSampleReturns(c)
    <3>1. Len(queue') = Len(queue) - 1 /\ Len(queue) \in Nat
      BY <2>3 DEF GetSampleReturns, MQTypeOK
    <3>2. \A d \in Consumers : getter[d] # "waiting"
      BY <2>3 DEF GetSampleReturns, MQInv, NoLostWakeup
    <3> QED
      BY <2>3, <3>1, <3>2, MaxQueueSizeAssumption
      DEF GetSampleReturns, MQInv, MQTypeOK, Capacity, Accounting, NoLostWakeup
  <2> QED
    BY <1>2, <2>1, <2>2, <2>3 DEF GetSample
<1>3. CASE ClearQueue
  <2>1. Len(queue') = 0 /\ Len(queue) \in Nat
    BY <1>3 DEF ClearQueue, MQTypeOK
  <2> QED
    BY <1>3, <2>1, MaxQueueSizeAssumption
    DEF ClearQueue, MQInv, MQTypeOK, Capacity, Accounting, NoLostWakeup
<1>4. CASE Shutdown
  BY <1>4 DEF Shutdown, NotifyAll, mqCounters, MQInv, MQTypeOK, Capacity, Accounting, NoLostWakeup
<1>5. ASSUME UNCHANGED <<queue, mqCounters, running, getter>> PROVE MQInv'
  BY <1>5 DEF mqCounters, MQInv, Capacity, Accounting, NoLostWakeup
<1>6. ASSUME NEW v \in 0..MaxVersion, UpdateParamVersion(v) PROVE MQInv'
  BY <1>5, <1>6 DEF UpdateParamVersion
<1>7. ASSUME NEW v \in 0..MaxVersion, PutValidate(v) PROVE MQInv'
  BY <1>5, <1>7 DEF PutValidate
<1>8. CASE GetValidate
  BY <1>5, <1>8 DEF GetValidate
<1>9. CASE UNCHANGED mqVars
  BY <1>5, <1>9 DEF mqVars
<1> QED
  BY <1>1, <1>2, <1>3, <1>4, <1>6, <1>7, <1>8, <1>9 DEF MQNext

LEMMA Invariance == MQSpec => []MQInv
<1>1. MQInit => MQInv
  BY InvInitial
<1>2. MQInv /\ [MQNext]_mqVars => MQInv'
  BY InvPreserved
<1> QED
  BY <1>1, <1>2, PTL DEF MQSpec

\* put_sample makes room before it appends: the deque never reaches the maxlen
\* at which it would drop an entry without counting it.
THEOREM CapacityHolds == MQSpec => []Capacity
<1>1. MQInv => Capacity
  BY DEF MQInv
<1> QED
  BY <1>1, Invariance, PTL

\* The counters account for every sample put, in every order of the calls.
THEOREM AccountingHolds == MQSpec => []Accounting
<1>1. MQInv => Accounting
  BY DEF MQInv
<1> QED
  BY <1>1, Invariance, PTL

\* No consumer sleeps on a queue that has a sample or is shut down.
THEOREM NoLostWakeupHolds == MQSpec => []NoLostWakeup
<1>1. MQInv => NoLostWakeup
  BY DEF MQInv
<1> QED
  BY <1>1, Invariance, PTL

-----------------------------------------------------------------------------
(* The refinement.  Its invariant ties the deque to the history: the queue  *)
(* is the tail of what was sent, from the position the counters give.       *)
HInv == MQInv /\ sent \in Seq(Items) /\ QueueIsSuffix

LEMMA HStepIsStep == [HNext]_histVars => [MQNext]_mqVars
  BY DEF HNext, HPutSample, HGetSampleReturns, HOther, histVars, MQNext, GetSample

LEMMA HInvInitial == HInit => HInv
<1> SUFFICES ASSUME HInit PROVE HInv
  OBVIOUS
<1>1. MQInv
  BY InvInitial DEF HInit
<1>2. sent \in Seq(Items) /\ Len(sent) = 0 /\ Len(queue) = 0
  BY DEF HInit, MQInit
<1> QED
  BY <1>1, <1>2 DEF HInv, HInit, MQInit, QueueIsSuffix

LEMMA HInvPreserved == HInv /\ [HNext]_histVars => HInv'
<1> SUFFICES ASSUME HInv, [HNext]_histVars PROVE HInv'
  OBVIOUS
<1>0. MQInv /\ MQInv' /\ MQTypeOK /\ MQTypeOK'
  BY HStepIsStep, InvPreserved DEF HInv, MQInv
<1>1. /\ Oldest \in Nat \ {0} /\ Len(queue) \in Nat /\ Len(sent) \in Nat
      /\ Oldest + Len(queue) = Len(sent) + 1
  <2>1. Len(queue) \in Nat /\ Len(sent) \in Nat /\ Len(sent) = totalProduced
    BY <1>0 DEF HInv, MQTypeOK, QueueIsSuffix
  <2>2. Oldest \in Nat \ {0}
    BY <1>0 DEF MQTypeOK, Oldest
  <2>3. Oldest + Len(queue) = totalProduced + 1
    BY <1>0, <2>1 DEF MQInv, MQTypeOK, Accounting, Oldest
  <2> QED
    BY <2>1, <2>2, <2>3
<1>2. ASSUME NEW s \in Items, HPutSample(s) PROVE HInv'
  <2>1. /\ sent' = Append(sent, s) /\ sent' \in Seq(Items)
        /\ Len(sent') = Len(sent) + 1
        /\ sent'[Len(sent) + 1] = s
        /\ \A j \in 1..Len(sent) : sent'[j] = sent[j]
    BY <1>2 DEF HPutSample, HInv
  <2>2. Len(sent') = totalProduced'
    BY <1>2, <2>1 DEF HPutSample, PutSample, HInv, QueueIsSuffix
  <2>3. CASE QueueFull
    <3>1. queue # <<>> /\ Tail(queue) \in Seq(Items) /\ Len(Tail(queue)) = Len(queue) - 1
      BY <1>0, <2>3, MaxQueueSizeAssumption DEF QueueFull, MQTypeOK
    <3>2. \A i \in 1..Len(Tail(queue)) : Tail(queue)[i] = queue[i + 1]
      BY <1>0, <3>1 DEF MQTypeOK
    <3>3. queue' = Append(Tail(queue), s) /\ Oldest' = Oldest + 1
      BY <1>0, <1>2, <2>3 DEF HPutSample, PutSample, Oldest, MQTypeOK
    <3>4. /\ Len(queue') = Len(queue)
          /\ queue'[Len(queue)] = s
          /\ \A i \in 1..(Len(queue) - 1) : queue'[i] = Tail(queue)[i]
      BY <3>1, <3>3
    <3>5. \A i \in 1..Len(queue') : queue'[i] = sent'[Oldest' + i - 1]
      <4> SUFFICES ASSUME NEW i \in 1..Len(queue') PROVE queue'[i] = sent'[Oldest' + i - 1]
        OBVIOUS
      <4>1. CASE i = Len(queue)
        <5>1. Oldest' + i - 1 = Len(sent) + 1
          BY <1>1, <3>3, <4>1, SMTT(30)
        <5> QED
          BY <2>1, <3>4, <4>1, <5>1
      <4>2. CASE i # Len(queue)
        <5>1. i \in 1..(Len(queue) - 1) /\ i + 1 \in 1..Len(queue)
          BY <1>1, <3>4, <4>2
        <5>2. queue'[i] = queue[i + 1]
          BY <3>1, <3>2, <3>4, <5>1
        <5>3. queue[i + 1] = sent[Oldest + (i + 1) - 1]
          BY <5>1 DEF HInv, QueueIsSuffix
        <5>4. Oldest + (i + 1) - 1 = Oldest' + i - 1 /\ Oldest' + i - 1 \in 1..Len(sent)
          BY <1>1, <3>3, <5>1
        <5> QED
          BY <2>1, <5>2, <5>3, <5>4
      <4> QED
        BY <4>1, <4>2
    <3> QED
      BY <1>0, <2>1, <2>2, <3>5 DEF HInv, QueueIsSuffix
  <2>4. CASE ~QueueFull
    <3>1. queue' = Append(queue, s) /\ Oldest' = Oldest
      BY <1>0, <1>2, <2>4 DEF HPutSample, PutSample, Oldest, MQTypeOK
    <3>2. /\ Len(queue') = Len(queue) + 1
          /\ queue'[Len(queue) + 1] = s
          /\ \A i \in 1..Len(queue) : queue'[i] = queue[i]
      BY <1>0, <3>1 DEF MQTypeOK
    <3>3. \A i \in 1..Len(queue') : queue'[i] = sent'[Oldest' + i - 1]
      <4> SUFFICES ASSUME NEW i \in 1..Len(queue') PROVE queue'[i] = sent'[Oldest' + i - 1]
        OBVIOUS
      <4>1. CASE i = Len(queue) + 1
        <5>1. Oldest' + i - 1 = Len(sent) + 1
          BY <1>1, <3>1, <4>1
        <5> QED
          BY <2>1, <3>2, <4>1, <5>1
      <4>2. CASE i # Len(queue) + 1
        <5>1. i \in 1..Len(queue)
          BY <1>1, <3>2, <4>2
        <5>2. queue[i] = sent[Oldest + i - 1]
          BY <5>1 DEF HInv, QueueIsSuffix
        <5>3. Oldest + i - 1 \in 1..Len(sent)
          BY <1>1, <5>1
        <5> QED
          BY <2>1, <3>1, <3>2, <5>1, <5>2, <5>3
      <4> QED
        BY <4>1, <4>2
    <3> QED
      BY <1>0, <2>1, <2>2, <3>3 DEF HInv, QueueIsSuffix
  <2> QED
    BY <2>3, <2>4
<1>3. ASSUME NEW c \in Consumers, HGetSampleReturns(c) PROVE HInv'
  <2>1. queue # <<>> /\ queue' = Tail(queue) /\ Oldest' = Oldest + 1 /\ sent' = sent
    BY <1>0, <1>3 DEF HGetSampleReturns, GetSampleReturns, Oldest, MQTypeOK
  <2>2. /\ Len(queue') = Len(queue) - 1
        /\ \A i \in 1..Len(queue') : queue'[i] = queue[i + 1]
    BY <1>0, <2>1 DEF MQTypeOK
  <2>3. \A i \in 1..Len(queue') : queue'[i] = sent'[Oldest' + i - 1]
    <3> SUFFICES ASSUME NEW i \in 1..Len(queue') PROVE queue'[i] = sent'[Oldest' + i - 1]
      OBVIOUS
    <3>1. i + 1 \in 1..Len(queue) /\ Oldest' + i - 1 = Oldest + (i + 1) - 1
      BY <1>1, <2>1, <2>2
    <3>2. queue[i + 1] = sent[Oldest + (i + 1) - 1]
      BY <3>1 DEF HInv, QueueIsSuffix
    <3> QED
      BY <2>1, <2>2, <3>1, <3>2
  <2>4. totalProduced' = totalProduced
    BY <1>3 DEF HGetSampleReturns, GetSampleReturns
  <2> QED
    BY <1>0, <2>1, <2>3, <2>4 DEF HInv, QueueIsSuffix
<1>4. CASE HOther
  <2>1. CASE ClearQueue
    <3>1. Len(queue') = 0 /\ totalProduced' = totalProduced
      BY <2>1 DEF ClearQueue
    <3> QED
      BY <1>0, <1>4, <3>1 DEF HOther, HInv, QueueIsSuffix
  <2>2. CASE Shutdown
    BY <1>0, <1>4, <2>2 DEF HOther, Shutdown, mqCounters, HInv, QueueIsSuffix, Oldest
  <2>3. ASSUME NEW c \in Consumers, GetSampleWaits(c) \/ GetSampleClosed(c) PROVE HInv'
    BY <1>0, <1>4, <2>3 DEF HOther, GetSampleWaits, GetSampleClosed, mqCounters, HInv, QueueIsSuffix, Oldest
  <2>4. ASSUME NEW v \in 0..MaxVersion, UpdateParamVersion(v) \/ PutValidate(v) PROVE HInv'
    BY <1>0, <1>4, <2>4 DEF HOther, UpdateParamVersion, PutValidate, mqCounters, HInv, QueueIsSuffix, Oldest
  <2>5. CASE GetValidate
    BY <1>0, <1>4, <2>5 DEF HOther, GetValidate, mqCounters, HInv, QueueIsSuffix, Oldest
  <2> QED
    BY <1>4, <2>1, <2>2, <2>3, <2>4, <2>5 DEF HOther
<1>5. CASE UNCHANGED histVars
  BY <1>0, <1>5 DEF histVars, mqVars, mqCounters, HInv, QueueIsSuffix, Oldest
<1> QED
  BY <1>2, <1>3, <1>4, <1>5 DEF HNext

LEMMA HInvariance == HSpec => []HInv
<1>1. HInit => HInv
  BY HInvInitial
<1>2. HInv /\ [HNext]_histVars => HInv'
  BY HInvPreserved
<1> QED
  BY <1>1, <1>2, PTL DEF HSpec

\* The deque holds the last samples put, in the order they were put.
THEOREM QueueIsSuffixHolds == HSpec => []QueueIsSuffix
<1>1. HInv => QueueIsSuffix
  BY DEF HInv
<1> QED
  BY <1>1, HInvariance, PTL

\* The initial state of the queue is that of the channel.
LEMMA ChannelInitial == HInit => Channel!Init
  BY DEF HInit, MQInit, Channel!Init, Oldest

\* Every step of the queue is a step of the channel or leaves it as it is.
LEMMA ChannelStep == HInv /\ [HNext]_histVars => [Channel!Next]_<<sent, Oldest, delivered>>
<1> SUFFICES ASSUME HInv, [HNext]_histVars
             PROVE  [Channel!Next]_<<sent, Oldest, delivered>>
  OBVIOUS
<1>0. MQTypeOK /\ Capacity /\ Len(queue) \in Nat
  BY DEF HInv, MQInv, MQTypeOK
<1>1. Channel!InFlight = Len(queue)
  BY <1>0 DEF HInv, MQInv, MQTypeOK, Accounting, Oldest, QueueIsSuffix, Channel!InFlight
<1>2. ASSUME NEW s \in Items, HPutSample(s) PROVE Channel!Send(s)
  <2>1. QueueFull <=> Channel!InFlight = MaxQueueSize
    BY <1>0, <1>1, MaxQueueSizeAssumption DEF Capacity, QueueFull
  <2> QED
    BY <1>0, <1>2, <2>1 DEF HPutSample, PutSample, Channel!Send, Oldest, MQTypeOK
<1>3. ASSUME NEW c \in Consumers, HGetSampleReturns(c) PROVE Channel!Receive
  <2>1. Len(queue) > 0
    BY <1>0, <1>3 DEF HGetSampleReturns, GetSampleReturns, MQTypeOK
  <2> QED
    BY <1>0, <1>1, <1>3, <2>1 DEF HGetSampleReturns, GetSampleReturns, Channel!Receive, Oldest, MQTypeOK
<1>4. ASSUME HOther, ClearQueue PROVE Channel!Discard
  BY <1>0, <1>1, <1>4 DEF HOther, ClearQueue, Channel!Discard, Channel!InFlight, Oldest, MQTypeOK, HInv, MQInv, Accounting, QueueIsSuffix
<1>5. ASSUME HOther, ~ClearQueue PROVE UNCHANGED <<sent, Oldest, delivered>>
  BY <1>5 DEF HOther, Shutdown, GetSampleWaits, GetSampleClosed, UpdateParamVersion, PutValidate, GetValidate,
              mqCounters, Oldest
<1>6. ASSUME UNCHANGED histVars PROVE UNCHANGED <<sent, Oldest, delivered>>
  BY <1>6 DEF histVars, mqVars, mqCounters, Oldest
<1> QED
  BY <1>2, <1>3, <1>4, <1>5, <1>6 DEF HNext, Channel!Next

\* The message queue implements the lossy first-in first-out channel.
THEOREM QueueImplementsChannel == HSpec => ImplementsChannel
<1>1. HInit => Channel!Init
  BY ChannelInitial
<1>2. HInv /\ [HNext]_histVars => [Channel!Next]_<<sent, Oldest, delivered>>
  BY ChannelStep
<1> QED
  BY <1>1, <1>2, HInvariance, PTL DEF HSpec, ImplementsChannel, Channel!Spec
=============================================================================
