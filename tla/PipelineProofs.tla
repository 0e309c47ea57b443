----------------------------- MODULE PipelineProofs -----------------------------
(***************************************************************************)
(* The recipe implements SamplePipeline: every sample is generated, queued,*)
(* fetched and trained on once and in this order, or lost on the way. Then,*)
(* from the same counts: the samples that are nowhere are the ones the code*)
(* counts as lost, and the freshness counter covers what is under way.     *)
(* Last, how the processor ends: what it raises, and the finish signal.    *)
(***************************************************************************)
EXTENDS FullyAsyncPipeline, RolloutProofs

\* Where a sample is, by the counts of its copies.
PlaceOf(s) == IF s > fed THEN "new"
              ELSE IF Made(s) = 1 THEN "rollout"
              ELSE IF Occurrences(s, queue) = 1 THEN "queue"
              ELSE IF Occurrences(s, batch) = 1 THEN "batch"
              ELSE IF InSet(s, trained) = 1 THEN "trained" ELSE "lost"

\* At most one of the counts is 1, and none before the sample is fed.
OnePlace(s) ==
    /\ {Made(s), Occurrences(s, queue), Occurrences(s, batch), InSet(s, trained)} \subseteq {0, 1}
    /\ Made(s) + Occurrences(s, queue) + Occurrences(s, batch) + InSet(s, trained)
         <= IF s <= fed THEN 1 ELSE 0

PlacesAre == \A s \in Samples : OnePlace(s) /\ place[s] = PlaceOf(s)

LEMMA InSamplesOf ==
  ASSUME NEW E, NEW q \in Seq(E), NEW s \in Samples
  PROVE  Occurrences(s, q) > 0 <=> s \in SamplesOf(q)
  BY OccursOrNot DEF SamplesOf

LEMMA PlacesCounted == SamplesInv => PlacesAre
<1> SUFFICES ASSUME SamplesInv, NEW s \in Samples PROVE OnePlace(s) /\ place[s] = PlaceOf(s)
  BY DEF PlacesAre
<1>1. TypeOK /\ ExactlyOnce
  BY DEF SamplesInv, RollInv
<1>2. /\ Occurrences(s, pendingQueue) \in Nat /\ Occurrences(s, cancelQueue) \in Nat
      /\ Occurrences(s, queue) \in Nat /\ Occurrences(s, batch) \in Nat
      /\ InSet(s, {hand}) \in {0, 1} /\ InSet(s, InTask) \in {0, 1} /\ InSet(s, trained) \in {0, 1}
      /\ Made(s) \in Nat /\ Out(s) \in Nat /\ Copies(s) = Made(s) + Out(s)
  BY <1>1, CopyTypes
<1>3. Made(s) + Occurrences(s, queue) + Occurrences(s, batch) + InSet(s, trained) <= IF s <= fed THEN 1 ELSE 0
  BY <1>1, <1>2 DEF ExactlyOnce, Out
<1>4. OnePlace(s)
  BY <1>2, <1>3 DEF OnePlace
<1>5. /\ Occurrences(s, pendingQueue) > 0 <=> s \in SamplesOf(pendingQueue)
      /\ Occurrences(s, cancelQueue) > 0 <=> s \in SamplesOf(cancelQueue)
      /\ Occurrences(s, queue) > 0 <=> s \in SamplesOf(queue)
      /\ Occurrences(s, batch) > 0 <=> s \in SamplesOf(batch)
  BY <1>1, InSamplesOf DEF TypeOK, RollTypeOK, MQTypeOK, TrainTypeOK
<1>6. /\ InSet(s, {hand}) > 0 <=> s \in {hand}
      /\ InSet(s, InTask) > 0 <=> s \in InTask
      /\ InSet(s, trained) > 0 <=> s \in trained
  BY DEF InSet
<1>7. Made(s) > 0 <=> s \in InRollout
  BY <1>2, <1>5, <1>6 DEF Made, InRollout
<1>8. s \in Nat /\ fed \in Nat
  BY <1>1, Numbers DEF TypeOK, RollTypeOK
<1>9. place[s] = PlaceOf(s)
  <2>1. /\ Made(s) > 0 <=> Made(s) = 1
        /\ Occurrences(s, queue) > 0 <=> Occurrences(s, queue) = 1
        /\ Occurrences(s, batch) > 0 <=> Occurrences(s, batch) = 1
        /\ InSet(s, trained) > 0 <=> InSet(s, trained) = 1
    BY <1>2, <1>4 DEF OnePlace
  <2> QED BY <1>5, <1>6, <1>7, <2>1 DEF place, PlaceOf
<1> QED BY <1>4, <1>9

LEMMA PlacesCountedNext == SamplesInv' => PlacesAre'
  BY PlacesCounted, PTL

\* A step moves a sample if it changes one of its counts.
LEMMA Stays ==
  ASSUME PlacesAre, PlacesAre', NEW s \in Samples, s <= fed <=> s <= fed', fed \in Nat, fed' \in Nat,
         Made(s)' = Made(s), Occurrences(s, queue)' = Occurrences(s, queue),
         Occurrences(s, batch)' = Occurrences(s, batch), InSet(s, trained)' = InSet(s, trained)
  PROVE  place'[s] = place[s]
<1>1. s \in Nat
  BY Numbers
<1>2. place[s] = PlaceOf(s) /\ place'[s] = PlaceOf(s)'
  BY DEF PlacesAre
<1> QED BY <1>1, <1>2 DEF PlaceOf

\* The pipeline counts as the recipe does.
LEMMA SameCardinality ==
  ASSUME NEW S
  PROVE  Pipeline!Cardinality(S) = Cardinality(S)
  BY DEF Pipeline!Cardinality, Cardinality

LEMMA Goes ==
  ASSUME NEW S, NEW p, NEW L,
         \A s \in Samples : place'[s] = IF s \in L THEN "lost" ELSE IF s \in S THEN p ELSE place[s]
  PROVE  Pipeline!Go(S, p, L)
<1>1. place' = [s \in Samples |-> place'[s]]
  BY DEF place
<1> QED BY <1>1 DEF Pipeline!Go

\* A sequence without repetition is as long as it has elements.
LEMMA Distinct ==
  ASSUME NEW E, NEW q \in Seq(E), \A s \in E : Occurrences(s, q) <= 1
  PROVE  LET S == {q[i] : i \in 1..Len(q)} IN IsFiniteSet(S) /\ Cardinality(S) = Len(q)
<1> DEFINE S == {q[i] : i \in 1..Len(q)}
           f == [i \in 1..Len(q) |-> q[i]]
<1>1. Len(q) \in Nat /\ \A i \in 1..Len(q) : q[i] \in E
  OBVIOUS
<1>2. ASSUME NEW i \in 1..Len(q), NEW j \in 1..Len(q), q[i] = q[j] PROVE i = j
  <2> SUFFICES ASSUME i # j PROVE FALSE
    OBVIOUS
  <2>1. {i, j} \subseteq Positions(q[i], q)
    BY <1>2 DEF Positions
  <2>2. IsFiniteSet(Positions(q[i], q)) /\ Occurrences(q[i], q) = Cardinality(Positions(q[i], q))
    BY PositionsFinite
  <2>3. Cardinality({i, j}) <= Cardinality(Positions(q[i], q))
    BY <2>1, <2>2, FS_Subset
  <2>4. Cardinality({i, j}) = 2
    <3>1. IsFiniteSet({i}) /\ Cardinality({i}) = 1
      BY FS_Singleton
    <3>2. {i, j} = {i} \cup {j} /\ j \notin {i}
      OBVIOUS
    <3>3. Cardinality({i} \cup {j}) = Cardinality({i}) + 1
      BY <3>1, <3>2, FS_AddElement
    <3>4. Cardinality({i} \cup {j}) = 2
      BY <3>1, <3>3
    <3> QED BY <3>2, <3>4
  <2>5. Occurrences(q[i], q) <= 1
    BY <1>1
  <2>6. Cardinality(Positions(q[i], q)) \in Nat
    BY <2>2, FS_CardinalityType
  <2> QED BY <2>2, <2>3, <2>4, <2>5, <2>6
<1>3. f \in Bijection(1..Len(q), S)
  <2>1. f \in [1..Len(q) -> S]
    OBVIOUS
  <2>2. \A a, b \in 1..Len(q) : f[a] = f[b] => a = b
    BY <1>2
  <2>3. \A t \in S : \E a \in 1..Len(q) : f[a] = t
    OBVIOUS
  <2> QED BY <2>1, <2>2, <2>3, Fun_IsBij
<1>4. ExistsBijection(1..Len(q), S)
  BY <1>3 DEF ExistsBijection
<1>5. IsFiniteSet(1..Len(q)) /\ Cardinality(1..Len(q)) = Len(q)
  <2>1. IsFiniteSet(1..Len(q)) /\ Cardinality(1..Len(q)) = IF 1 > Len(q) THEN 0 ELSE Len(q) - 1 + 1
    BY <1>1, FS_Interval
  <2> QED BY <1>1, <2>1
<1>6. IsFiniteSet(S) /\ Cardinality(S) = Cardinality(1..Len(q))
  BY <1>4, <1>5, FS_Bijection
<1> QED BY <1>5, <1>6

LEMMA Known ==
  SamplesInv => RollInv /\ TypeOK /\ ExactlyOnce /\ PlacesAre /\ fed \in Nat /\ fed <= TotalRolloutSteps
<1> SUFFICES ASSUME SamplesInv
             PROVE  RollInv /\ TypeOK /\ ExactlyOnce /\ PlacesAre /\ fed \in Nat /\ fed <= TotalRolloutSteps
  OBVIOUS
<1>1. RollInv /\ TypeOK /\ ExactlyOnce /\ PlacesAre
  BY PlacesCounted DEF SamplesInv, RollInv
<1>2. fed \in 0..TotalRolloutSteps
  BY <1>1 DEF TypeOK, RollTypeOK
<1> QED BY <1>1, <1>2, Numbers

LEMMA KnownNext ==
  SamplesInv' => RollInv' /\ TypeOK' /\ ExactlyOnce' /\ PlacesAre' /\ fed' \in Nat /\ fed' <= TotalRolloutSteps
<1>1. (RollInv /\ TypeOK /\ ExactlyOnce /\ PlacesAre /\ fed \in Nat /\ fed <= TotalRolloutSteps)'
        <=> RollInv' /\ TypeOK' /\ ExactlyOnce' /\ PlacesAre' /\ fed' \in Nat /\ fed' <= TotalRolloutSteps
  OBVIOUS
<1> QED BY <1>1, Known, PTL

-----------------------------------------------------------------------------
(* The steps of the recipe are steps of the pipeline. *)

LEMMA PlaceFeeds ==
  ASSUME SamplesInv, SamplesInv', Feeds
  PROVE  Pipeline!Feed
<1>1. RollInv /\ RollInv' /\ TypeOK /\ TypeOK' /\ PlacesAre /\ PlacesAre'
  BY Known, KnownNext
<1>2. fed \in Nat /\ fed' \in Nat /\ fed' = fed + 1 /\ fed' <= TotalRolloutSteps
  BY Known, KnownNext DEF Feeds, FeederPuts
<1>3. UNCHANGED <<queue, batch, trained>>
  BY DEF Feeds, FeederPuts, FeederDoes, Others, mqVars, trainVars
<1>4. fed + 1 \in Samples
  BY <1>2, Numbers
<1>5. ASSUME NEW s \in Samples
      PROVE  place'[s] = IF s \in {fed + 1} THEN "rollout" ELSE place[s]
  <2>1. Made(s)' = Made(s) + IF FeederPuts THEN Same(s, fed + 1) ELSE 0
    BY <1>1, FeederCopies DEF Feeds
  <2>2. Made(s)' = Made(s) + Same(s, fed + 1)
    BY <2>1 DEF Feeds
  <2>3. OnePlace(s) /\ place'[s] = PlaceOf(s)' /\ s \in Nat
    BY <1>1, Numbers DEF PlacesAre
  <2>4. CASE s = fed + 1
    <3>1. Made(s) = 0
      BY <1>2, <2>3, <2>4 DEF OnePlace
    <3>2. Made(s)' = 1
      BY <2>2, <2>4, <3>1 DEF Same
    <3> QED BY <1>2, <2>3, <2>4, <3>2 DEF PlaceOf
  <2>5. CASE s # fed + 1
    <3>1. Made(s)' = Made(s)
      BY <2>2, <2>3, <2>5 DEF Same, OnePlace
    <3>2. s <= fed <=> s <= fed'
      BY <1>2, <2>3, <2>5
    <3>3. place'[s] = place[s]
      BY <1>1, <1>2, <1>3, <3>1, <3>2, Stays DEF InSet
    <3> QED BY <2>5, <3>3
  <2> QED BY <2>4, <2>5
<1>6. Pipeline!Go({fed + 1}, "rollout", {})
  BY <1>5, Goes
<1>7. place[fed + 1] = "new"
  BY <1>1, <1>2, <1>4 DEF PlacesAre, PlaceOf
<1> QED BY <1>4, <1>6, <1>7 DEF Pipeline!Feed, Pipeline!In

LEMMA PlaceFails ==
  ASSUME SamplesInv, SamplesInv', NEW t \in Samples, Fails(t)
  PROVE  Pipeline!Lose
<1>1. RollInv /\ RollInv' /\ TypeOK /\ TypeOK' /\ PlacesAre /\ PlacesAre' /\ fed \in Nat
  BY Known, KnownNext
<1>2. UNCHANGED <<fed, queue, batch, trained, pendingQueue, hand>>
  BY DEF Fails, ServersFail, TaskOutside, Others, mqVars, trainVars, feedVars, procVars
<1>3. ASSUME NEW s \in Samples
      PROVE  Made(s)' = Made(s) - Same(s, t)
  <2>1. Made(s)' = Made(s) - IF QueueTakes(t) \/ ServersFail(t) THEN Same(s, t) ELSE 0
    BY <1>1, <1>2, TaskCopies DEF Fails
  <2> QED BY <2>1 DEF Fails
<1>4. Made(t) = 1 /\ t <= fed /\ place[t] = "rollout" /\ place'[t] = "lost"
  <2>1. OnePlace(t) /\ OnePlace(t)' /\ place[t] = PlaceOf(t) /\ place'[t] = PlaceOf(t)' /\ t \in Nat
    BY <1>1, Numbers DEF PlacesAre
  <2>2. Made(t)' = Made(t) - 1
    BY <1>3 DEF Same
  <2>3. Made(t) = 1 /\ Made(t)' = 0
    BY <2>1, <2>2 DEF OnePlace
  <2>4. t <= fed /\ Occurrences(t, queue) = 0 /\ Occurrences(t, batch) = 0 /\ InSet(t, trained) = 0
    BY <1>1, <2>1, <2>3 DEF OnePlace
  <2>5. Occurrences(t, queue)' = 0 /\ Occurrences(t, batch)' = 0 /\ InSet(t, trained)' = 0
    BY <1>2, <2>4 DEF InSet
  <2> QED BY <1>1, <1>2, <2>1, <2>3, <2>4, <2>5 DEF PlaceOf
<1>5. ASSUME NEW s \in Samples
      PROVE  place'[s] = IF s \in {t} THEN "lost" ELSE place[s]
  <2>1. CASE s # t
    <3>1. Made(s)' = Made(s)
      BY <1>1, <1>3, <2>1 DEF Same, PlacesAre, OnePlace
    <3>2. place'[s] = place[s]
      BY <1>1, <1>2, <3>1, Stays DEF InSet
    <3> QED BY <2>1, <3>2
  <2> QED BY <1>4, <2>1
<1>6. Pipeline!Go({}, "lost", {t})
  BY <1>5, Goes
<1> QED BY <1>4, <1>6 DEF Pipeline!Lose, Pipeline!In

\* The queue takes a sample, or the signal.
LEMMA PlacePuts ==
  ASSUME SamplesInv, SamplesInv', Puts
  PROVE  Pipeline!Send \/ Pipeline!Lose \/ place' = place
<1> DEFINE drops == QueueFull /\ Head(queue) \in Samples
           h == Head(queue)
           L == IF drops THEN {h} ELSE {}
<1>1. RollInv /\ RollInv' /\ TypeOK /\ TypeOK' /\ PlacesAre /\ PlacesAre' /\ fed \in Nat
  BY Known, KnownNext
<1>2. UNCHANGED <<fed, batch, trained, trainVars, pendingQueue, hand>>
  BY DEF Puts, QueueTakesNone, QueueTakes, MainOnly, TaskOutside, Others, trainVars, feedVars, procVars
<1>3. queue \in Seq(Items) /\ (QueueFull => queue # <<>>) /\ None \notin Samples
  BY <1>1, MaxQueueSizeAssumption, Numbers DEF TypeOK, MQTypeOK, QueueFull
\* What the oldest sample was.
<1>4. ASSUME drops
      PROVE  h \in Samples /\ place[h] = "queue" /\ Occurrences(h, queue) = 1 /\ Made(h) = 0
  <2>1. Occurrences(h, queue) > 0
    BY <1>3, <1>4, HeadOccurs
  <2>2. OnePlace(h) /\ place[h] = PlaceOf(h) /\ h \in Nat
    BY <1>1, <1>4, Numbers DEF PlacesAre
  <2>3. Occurrences(h, queue) = 1 /\ Made(h) = 0 /\ h <= fed
    BY <1>1, <2>1, <2>2 DEF OnePlace
  <2> QED BY <1>1, <1>4, <2>2, <2>3 DEF PlaceOf
\* The counts of a sample when the queue takes an item.
<1>5. ASSUME NEW item \in Items, PutSample(item), NEW s \in Samples
      PROVE  Occurrences(s, queue)' = Occurrences(s, queue) + Same(s, item) - IF s \in L THEN 1 ELSE 0
  <2>1. Out(s)' = Out(s) + Same(s, item) - IF QueueFull /\ Head(queue) = s THEN 1 ELSE 0
    BY <1>1, <1>2, <1>5, PutCopies
  <2>2. /\ Out(s) = Occurrences(s, queue) + Occurrences(s, batch) + InSet(s, trained)
        /\ Out(s)' = Occurrences(s, queue)' + Occurrences(s, batch) + InSet(s, trained)
    BY <1>2 DEF Out, InSet
  <2>3. /\ Occurrences(s, queue) \in Nat /\ Occurrences(s, batch) \in Nat /\ InSet(s, trained) \in {0, 1}
    BY <1>1, CopyTypes
  <2>4. Occurrences(s, queue)' \in Nat
    BY <1>1, PositionsFinite DEF TypeOK, MQTypeOK
  <2>5. s \in L <=> QueueFull /\ Head(queue) = s
    OBVIOUS
  <2>6. Same(s, item) \in {0, 1}
    BY DEF Same
  <2> HIDE DEF L
  <2> QED BY <2>1, <2>2, <2>3, <2>4, <2>5, <2>6
\* The oldest sample is lost, the others that are not put stay.
<1>6. ASSUME NEW item \in Items, PutSample(item), NEW s \in Samples, s # item, Made(s)' = Made(s)
      PROVE  place'[s] = IF s \in L THEN "lost" ELSE place[s]
  <2>1. Same(s, item) = 0
    BY <1>6 DEF Same
  <2>2. OnePlace(s) /\ place[s] = PlaceOf(s) /\ place'[s] = PlaceOf(s)' /\ s \in Nat
    BY <1>1, Numbers DEF PlacesAre
  <2>3. Occurrences(s, queue)' = Occurrences(s, queue) + Same(s, item) - IF s \in L THEN 1 ELSE 0
    BY <1>5, <1>6
  <2>4. CASE s \in L
    <3>1. Made(s) = 0 /\ Occurrences(s, queue) = 1
      BY <1>4, <2>4
    <3>2. Occurrences(s, queue)' = 0
      BY <2>1, <2>3, <2>4, <3>1
    <3>3. s <= fed /\ Occurrences(s, batch) = 0 /\ InSet(s, trained) = 0
      BY <1>1, <2>2, <3>1 DEF OnePlace
    <3>4. Occurrences(s, batch)' = 0 /\ InSet(s, trained)' = 0 /\ Made(s)' = 0 /\ ~(s > fed')
      BY <1>1, <1>2, <1>6, <2>2, <3>1, <3>3 DEF InSet
    <3>5. place'[s] = "lost"
      BY <2>2, <3>2, <3>4 DEF PlaceOf
    <3> QED BY <2>4, <3>5
  <2>5. CASE s \notin L
    <3>1. Occurrences(s, queue)' = Occurrences(s, queue)
      BY <2>1, <2>2, <2>3, <2>5 DEF OnePlace
    <3>2. place'[s] = place[s]
      BY <1>1, <1>2, <1>6, <3>1, Stays DEF InSet
    <3> QED BY <2>5, <3>2
  <2> QED BY <2>4, <2>5
<1>7. ASSUME NEW t \in Samples, QueueTakes(t)
      PROVE  Pipeline!Send
  <2>1. PutSample(t) /\ t \in Items
    BY <1>7 DEF QueueTakes, Items
  <2>2. ASSUME NEW s \in Samples PROVE Made(s)' = Made(s) - Same(s, t)
    <3>1. Made(s)' = Made(s) - IF QueueTakes(t) \/ ServersFail(t) THEN Same(s, t) ELSE 0
      BY <1>1, <1>2, <1>7, TaskCopies
    <3> QED BY <1>7, <3>1
  <2>3. OnePlace(t) /\ OnePlace(t)' /\ place[t] = PlaceOf(t) /\ place'[t] = PlaceOf(t)' /\ t \in Nat
    BY <1>1, Numbers DEF PlacesAre
  <2>4. Made(t) = 1 /\ Made(t)' = 0
    <3>1. Made(t)' = Made(t) - 1
      BY <2>2 DEF Same
    <3> QED BY <2>3, <3>1 DEF OnePlace
  <2>5. place[t] = "rollout" /\ t <= fed /\ Occurrences(t, queue) = 0
    BY <1>1, <2>3, <2>4 DEF OnePlace, PlaceOf
  <2>6. t \notin L
    BY <1>4, <2>4
  <2>7. place'[t] = "queue"
    <3>1. Occurrences(t, queue)' = Occurrences(t, queue) + Same(t, t) - IF t \in L THEN 1 ELSE 0
      BY <1>5, <2>1
    <3>2. Occurrences(t, queue)' = 1
      BY <2>5, <2>6, <3>1 DEF Same
    <3> QED BY <1>1, <1>2, <2>3, <2>4, <2>5, <3>2 DEF PlaceOf
  <2>8. ASSUME NEW s \in Samples
        PROVE  place'[s] = IF s \in L THEN "lost" ELSE IF s \in {t} THEN "queue" ELSE place[s]
    <3>1. CASE s # t
      <4>1. Made(s)' = Made(s)
        BY <1>1, <2>2, <3>1 DEF Same, PlacesAre, OnePlace
      <4>2. place'[s] = IF s \in L THEN "lost" ELSE place[s]
        BY <1>6, <2>1, <3>1, <4>1
      <4> QED BY <3>1, <4>2
    <3>2. CASE s = t
      BY <2>6, <2>7, <3>2
    <3> QED BY <3>1, <3>2
  <2>9. L \in SUBSET Pipeline!In("queue")
    BY <1>4 DEF Pipeline!In
  <2>10. Cardinality(L) <= 1
    <3>1. Cardinality({}) = 0 /\ Cardinality({h}) = 1
      BY FS_EmptySet, FS_Singleton
    <3> QED BY <3>1
  <2> HIDE DEF L
  <2>11. Pipeline!Go({t}, "queue", L)
    BY <2>8, Goes
  <2>12. t \in Pipeline!In("rollout")
    BY <2>5 DEF Pipeline!In
  <2>13. \E gone \in SUBSET Pipeline!In("queue") : Pipeline!Cardinality(gone) <= 1 /\ Pipeline!Go({t}, "queue", gone)
    BY <2>9, <2>10, <2>11, SameCardinality
  <2> QED BY <2>12, <2>13 DEF Pipeline!Send
<1>8. CASE QueueTakesNone
  <2>1. PutSample(None) /\ None \in Items
    BY <1>8 DEF QueueTakesNone, Items
  <2>2. ASSUME NEW s \in Samples PROVE place'[s] = IF s \in L THEN "lost" ELSE place[s]
    <3>1. Made(s)' = Made(s)
      BY <1>8 DEF Made, InTask, InSet, QueueTakesNone, MainOnly, feedVars, procVars, taskVars
    <3> QED BY <1>3, <1>6, <2>1, <3>1
  <2>3. CASE drops
    <3>1. L = {h} /\ h \in Pipeline!In("rollout") \cup Pipeline!In("queue")
      BY <1>4, <2>3 DEF Pipeline!In
    <3>2. \A s \in Samples : place'[s] = IF s \in {h} THEN "lost" ELSE IF s \in {} THEN "lost" ELSE place[s]
      BY <2>2, <3>1
    <3>3. Pipeline!Go({}, "lost", {h})
      BY <3>2, Goes
    <3> QED BY <3>1, <3>3 DEF Pipeline!Lose
  <2>4. CASE ~drops
    <3>1. \A s \in Samples : place'[s] = place[s]
      BY <2>2, <2>4
    <3>2. place' = place
      BY <3>1 DEF place
    <3> QED BY <3>2
  <2> QED BY <2>3, <2>4
<1> QED BY <1>7, <1>8 DEF Puts

LEMMA PlaceClears ==
  ASSUME SamplesInv, SamplesInv', RunnerEnds
  PROVE  Pipeline!Clear
<1>1. RollInv /\ RollInv' /\ TypeOK /\ TypeOK' /\ PlacesAre /\ PlacesAre' /\ fed \in Nat
  BY Known, KnownNext
<1>2. UNCHANGED <<rollVars, trainVars>> /\ queue' = <<>>
  BY DEF RunnerEnds, ClearQueue
<1>3. UNCHANGED <<fed, batch, trained, pendingQueue, hand, task, cancelQueue>>
  BY <1>2 DEF rollVars, trainVars, feedVars, procVars, taskVars
<1>4. ASSUME NEW s \in Samples
      PROVE  place'[s] = IF s \in Pipeline!In("queue") THEN "lost" ELSE place[s]
  <2>1. Made(s)' = Made(s) /\ InSet(s, trained)' = InSet(s, trained)
    BY <1>3 DEF Made, InTask, InSet
  <2>2. Occurrences(s, queue)' = 0 /\ Occurrences(s, batch)' = Occurrences(s, batch)
    BY <1>2, <1>3, OccursInNone
  <2>3. OnePlace(s) /\ place[s] = PlaceOf(s) /\ place'[s] = PlaceOf(s)' /\ s \in Nat
    BY <1>1, Numbers DEF PlacesAre
  <2>4. s \in Pipeline!In("queue") <=> place[s] = "queue"
    BY DEF Pipeline!In
  <2>5. fed' = fed
    BY <1>3
  <2>6. CASE place[s] = "queue"
    <3>1. ~(s > fed) /\ Made(s) = 0 /\ Occurrences(s, batch) = 0 /\ InSet(s, trained) = 0
      BY <1>1, <2>3, <2>6 DEF PlaceOf, OnePlace
    <3>2. place'[s] = "lost"
      BY <2>1, <2>2, <2>3, <2>5, <3>1 DEF PlaceOf
    <3> QED BY <2>4, <2>6, <3>2
  <2>7. CASE place[s] # "queue"
    <3>1. place'[s] = place[s]
      BY <1>1, <2>1, <2>2, <2>3, <2>5, <2>7 DEF PlaceOf, OnePlace
    <3> QED BY <2>4, <2>7, <3>1
  <2> QED BY <2>6, <2>7
<1>5. Pipeline!Go({}, "lost", Pipeline!In("queue"))
  <2> DEFINE Q == Pipeline!In("queue")
  <2>1. \A s \in Samples : place'[s] = IF s \in Q THEN "lost" ELSE IF s \in {} THEN "lost" ELSE place[s]
    BY <1>4
  <2> HIDE DEF Q
  <2>2. Pipeline!Go({}, "lost", Q)
    BY <2>1, Goes
  <2> QED BY <2>2 DEF Q
<1> QED BY <1>5 DEF Pipeline!Clear

\* The batch holds as many samples as are in place "batch".
LEMMA BatchPlaces ==
  ASSUME SamplesInv
  PROVE  /\ Cardinality(Pipeline!In("batch")) = Len(batch)
         /\ Pipeline!In("batch") = {batch[i] : i \in 1..Len(batch)}
<1>1. TypeOK /\ PlacesAre /\ fed \in Nat
  BY Known
<1>2. batch \in Seq(Samples)
  BY <1>1 DEF TypeOK, TrainTypeOK
<1>3. ASSUME NEW s \in Samples
      PROVE  Occurrences(s, batch) <= 1 /\ (place[s] = "batch" <=> Occurrences(s, batch) > 0)
  <2>1. OnePlace(s) /\ place[s] = PlaceOf(s) /\ s \in Nat
    BY <1>1, <1>3, Numbers DEF PlacesAre
  <2> QED BY <1>1, <2>1 DEF OnePlace, PlaceOf
<1>4. Pipeline!In("batch") = {batch[i] : i \in 1..Len(batch)}
  <2>1. ASSUME NEW s \in Samples
        PROVE  Occurrences(s, batch) > 0 <=> \E i \in 1..Len(batch) : batch[i] = s
    BY <1>2, OccursOrNot
  <2>2. \A i \in 1..Len(batch) : batch[i] \in Samples
    BY <1>2
  <2> QED BY <1>3, <2>1, <2>2 DEF Pipeline!In
<1>5. Cardinality({batch[i] : i \in 1..Len(batch)}) = Len(batch)
  BY <1>2, <1>3, Distinct
<1> QED BY <1>4, <1>5

LEMMA PlaceTrainer ==
  ASSUME SamplesInv, SamplesInv', TrainNext
  PROVE  Pipeline!Fetch \/ Pipeline!Train \/ place' = place
<1>1. RollInv /\ RollInv' /\ TypeOK /\ TypeOK' /\ ExactlyOnce /\ PlacesAre /\ PlacesAre' /\ fed \in Nat
  BY Known, KnownNext
<1>2. UNCHANGED <<fed, pendingQueue, hand, task, cancelQueue>>
  BY DEF TrainNext, CollectWaits, CollectTakes, CollectStops, Trains, CallsPause, TransferBegins, TransferEnds,
         Logs, Finishes, FinishesSync, RollouterButSync, rollVars, feedVars, procVars, taskVars
<1>3. ASSUME NEW s \in Samples PROVE Made(s)' = Made(s)
  BY <1>2 DEF Made, InTask, InSet
<1>4. /\ queue \in Seq(Items) /\ batch \in Seq(Samples) /\ Len(batch) \in Nat /\ None \notin Samples
      /\ RequiredSamples \in Nat /\ RollInv
  BY <1>1, Numbers DEF TypeOK, MQTypeOK, TrainTypeOK
<1>5. ASSUME NEW s \in Samples
      PROVE  OnePlace(s) /\ OnePlace(s)' /\ place[s] = PlaceOf(s) /\ place'[s] = PlaceOf(s)' /\ s \in Nat
  BY <1>1, Numbers DEF PlacesAre
<1>6. ASSUME \A s \in Samples : place'[s] = place[s] PROVE place' = place
  BY <1>6 DEF place
<1>7. CASE CollectTakes
  <2>1. queue # <<>> /\ queue' = Tail(queue) /\ batch' = Append(batch, Head(queue)) /\ Head(queue) # None
        /\ trained' = trained /\ trainer = "collect"
    BY <1>7 DEF CollectTakes, GetSampleReturns
  <2>2. PICK h \in Samples : h = Head(queue)
    BY <1>4, <2>1, HeadTailProperties DEF Items
  <2>3. ASSUME NEW s \in Samples
        PROVE  /\ Occurrences(s, queue)' = Occurrences(s, queue) - IF h = s THEN 1 ELSE 0
               /\ Occurrences(s, batch)' = Occurrences(s, batch) + IF h = s THEN 1 ELSE 0
               /\ InSet(s, trained)' = InSet(s, trained)
    <3>1. Occurrences(s, Tail(queue)) = Occurrences(s, queue) - IF h = s THEN 1 ELSE 0
      BY <1>4, <2>1, <2>2, OccursInTail
    <3>2. Occurrences(s, Append(batch, h)) = Occurrences(s, batch) + IF h = s THEN 1 ELSE 0
      BY <1>4, OccursAppended
    <3> QED BY <2>1, <2>2, <3>1, <3>2 DEF InSet
  <2>4. place[h] = "queue" /\ place'[h] = "batch"
    <3>1. Occurrences(h, queue)' = Occurrences(h, queue) - 1 /\ Occurrences(h, batch)' = Occurrences(h, batch) + 1
      BY <2>3
    <3>2. OnePlace(h) /\ OnePlace(h)' /\ place[h] = PlaceOf(h) /\ place'[h] = PlaceOf(h)' /\ h \in Nat
      BY <1>5
    <3>3. Occurrences(h, queue) = 1 /\ Occurrences(h, batch)' = 1 /\ Occurrences(h, queue)' = 0
      BY <3>1, <3>2 DEF OnePlace
    <3>4. h <= fed /\ Made(h) = 0 /\ Made(h)' = 0
      BY <1>1, <1>3, <3>2, <3>3 DEF OnePlace
    <3> QED BY <1>1, <1>2, <3>2, <3>3, <3>4 DEF PlaceOf
  <2>5. ASSUME NEW s \in Samples
        PROVE  place'[s] = IF s \in {h} THEN "batch" ELSE place[s]
    <3>1. CASE s # h
      <4>1. Occurrences(s, queue)' = Occurrences(s, queue) /\ Occurrences(s, batch)' = Occurrences(s, batch)
        BY <1>5, <2>3, <3>1 DEF OnePlace
      <4>2. place'[s] = place[s]
        BY <1>1, <1>2, <1>3, <2>3, <4>1, Stays
      <4> QED BY <3>1, <4>2
    <3> QED BY <2>4, <3>1
  <2>6. Pipeline!Go({h}, "batch", {})
    BY <2>5, Goes
  <2>7. Cardinality(Pipeline!In("batch")) < RequiredSamples
    <3>1. Len(batch) < RequiredSamples
      BY <1>1, <2>1 DEF RollInv, BatchInv
    <3> QED BY <3>1, BatchPlaces
  <2>8. h \in Pipeline!In("queue")
    BY <2>4 DEF Pipeline!In
  <2> QED BY <2>6, <2>7, <2>8, SameCardinality DEF Pipeline!Fetch
<1>8. CASE CollectStops
  <2>1. queue # <<>> /\ queue' = Tail(queue) /\ Head(queue) = None /\ UNCHANGED <<batch, trained>>
    BY <1>8 DEF CollectStops, GetSampleReturns
  <2>2. ASSUME NEW s \in Samples PROVE place'[s] = place[s]
    <3>1. Occurrences(s, Tail(queue)) = Occurrences(s, queue) - IF Head(queue) = s THEN 1 ELSE 0
      BY <1>4, <2>1, OccursInTail
    <3>2. Occurrences(s, queue)' = Occurrences(s, queue)
      BY <1>4, <1>5, <2>1, <3>1 DEF OnePlace
    <3> QED BY <1>1, <1>2, <1>3, <2>1, <3>2, Stays DEF InSet
  <2> QED BY <1>6, <2>2
<1>9. CASE Trains
  <2> DEFINE B == Pipeline!In("batch")
  <2>1. queue' = queue /\ batch' = <<>> /\ trained' = trained \cup {batch[i] : i \in 1..Len(batch)}
        /\ trainer = "train"
    BY <1>9 DEF Trains, mqVars
  <2>2. B = {batch[i] : i \in 1..Len(batch)} /\ Cardinality(B) = RequiredSamples
    <3>1. Len(batch) = RequiredSamples
      BY <1>1, <2>1 DEF RollInv, BatchInv
    <3> QED BY <3>1, BatchPlaces
  <2>3. ASSUME NEW s \in Samples
        PROVE  place'[s] = IF s \in B THEN "trained" ELSE place[s]
    <3>1. Occurrences(s, queue)' = Occurrences(s, queue) /\ Occurrences(s, batch)' = 0
      BY <2>1, OccursInNone
    <3>2. s \in B <=> place[s] = "batch"
      BY DEF Pipeline!In
    <3>3. place[s] = "batch" <=> Occurrences(s, batch) = 1
      BY <1>1, <1>5 DEF OnePlace, PlaceOf
    <3>4. s \in trained' <=> s \in trained \/ s \in B
      BY <2>1, <2>2
    <3>5. CASE s \in B
      <4>1. InSet(s, trained)' = 1 /\ Made(s) = 0 /\ s <= fed /\ Occurrences(s, queue) = 0
        BY <1>1, <1>5, <3>2, <3>3, <3>4, <3>5 DEF InSet, OnePlace
      <4>2. place'[s] = "trained"
        BY <1>1, <1>2, <1>3, <1>5, <3>1, <4>1 DEF PlaceOf
      <4> QED BY <3>5, <4>2
    <3>6. CASE s \notin B
      <4>1. InSet(s, trained)' = InSet(s, trained) /\ Occurrences(s, batch)' = Occurrences(s, batch)
        BY <1>5, <3>1, <3>2, <3>3, <3>4, <3>6 DEF InSet, OnePlace
      <4>2. place'[s] = place[s]
        BY <1>1, <1>2, <1>3, <3>1, <4>1, Stays
      <4> QED BY <3>6, <4>2
    <3> QED BY <3>5, <3>6
  <2> HIDE DEF B
  <2>4. Pipeline!Go(B, "trained", {})
    BY <2>3, Goes
  <2> QED BY <2>2, <2>4, SameCardinality DEF B, Pipeline!Train
<1>10. CASE ~(CollectTakes \/ CollectStops \/ Trains)
  <2>1. UNCHANGED <<queue, batch, trained>>
    BY <1>10 DEF TrainNext, CollectWaits, GetSampleWaits, CallsPause, TransferBegins, UpdateParamVersion, TransferEnds,
                 Logs, Finishes, FinishesSync, GetValidate, TrainerGoes, trainVars, mqVars
  <2>2. ASSUME NEW s \in Samples PROVE place'[s] = place[s]
    BY <1>1, <1>2, <1>3, <2>1, Stays DEF InSet
  <2> QED BY <1>6, <2>2
<1> QED BY <1>7, <1>8, <1>9, <1>10

LEMMA PlaceKeeps ==
  ASSUME SamplesInv, SamplesInv', Keeps
  PROVE  Pipeline!Fetch \/ Pipeline!Train \/ place' = place
<1>1. RollInv /\ RollInv' /\ ExactlyOnce /\ PlacesAre /\ PlacesAre' /\ fed \in Nat
  BY Known, KnownNext
<1>2. ASSUME \A s \in Samples : place'[s] = place[s] PROVE place' = place
  BY <1>2 DEF place
<1>3. CASE /\ RollNext /\ Others /\ ~FeederPuts /\ ~QueueTakesNone
           /\ \A t \in Samples : ~QueueTakes(t) /\ ~ServersFail(t)
  <2>1. UNCHANGED trainVars
    BY <1>3 DEF Others
  <2>2. ASSUME NEW s \in Samples PROVE place'[s] = place[s]
    <3>1. UNCHANGED <<fed, failures>> /\ Made(s)' = Made(s) /\ UNCHANGED <<queue, droppedSamples, cleared>>
      BY <1>1, <1>3, <2>1, RolloutKeeps
    <3>2. UNCHANGED <<fed, queue, batch, trained>>
      BY <2>1, <3>1 DEF trainVars
    <3> QED BY <1>1, <3>1, <3>2, Stays DEF InSet
  <2> QED BY <1>2, <2>2
<1>4. CASE TrainNext
  BY <1>4, PlaceTrainer
<1>5. CASE Terminated \/ UNCHANGED vars
  <2>1. UNCHANGED <<fed, pendingQueue, hand, task, cancelQueue, queue, batch, trained>>
    BY <1>5 DEF Terminated, vars, rollVars, trainVars, mqVars, feedVars, procVars, taskVars
  <2>2. ASSUME NEW s \in Samples PROVE place'[s] = place[s]
    BY <1>1, <2>1, Stays DEF Made, InTask, InSet
  <2> QED BY <1>2, <2>2
<1> QED BY <1>3, <1>4, <1>5 DEF Keeps

LEMMA PlaceInitial == Init => place = [s \in Samples |-> "new"]
<1> SUFFICES ASSUME Init PROVE place = [s \in Samples |-> "new"]
  OBVIOUS
<1>1. fed = 0
  BY DEF Init, RollInit
<1>2. \A s \in Samples : s > fed
  BY <1>1, Numbers
<1> QED BY <1>2 DEF place

LEMMA PlaceNext == SamplesInv /\ SamplesInv' /\ [Next]_vars => [Pipeline!Next]_place
<1> SUFFICES ASSUME SamplesInv, SamplesInv', [Next]_vars
             PROVE  Pipeline!Next \/ place' = place
  OBVIOUS
<1>1. CASE Feeds
  BY <1>1, PlaceFeeds DEF Pipeline!Next
<1>2. ASSUME NEW t \in Samples, Fails(t) PROVE Pipeline!Next
  BY <1>2, PlaceFails DEF Pipeline!Next
<1>3. CASE Puts
  BY <1>3, PlacePuts DEF Pipeline!Next
<1>4. CASE RunnerEnds
  BY <1>4, PlaceClears DEF Pipeline!Next
<1>5. CASE Keeps
  BY <1>5, PlaceKeeps DEF Pipeline!Next
<1> QED BY <1>1, <1>2, <1>3, <1>4, <1>5, Fates

\* The recipe implements SamplePipeline for every number of samples and servers and any staleness:
\* whatever pause interrupts, the queue drops and the main program clears, a sample only goes forward,
\* from the feeder to the servers, the queue, a batch and the training, a put loses at most the oldest
\* sample of the queue, and the trainer trains on a full batch and on all of it (rollouter, message
\* queue and trainer together).
THEOREM RecipeImplementsPipeline == Spec => ImplementsPipeline
<1>1. Spec => []SamplesInv
  BY SamplesInvariance
<1> QED BY <1>1, PlaceInitial, PlaceNext, PTL DEF Spec, ImplementsPipeline, Pipeline!Spec

-----------------------------------------------------------------------------
(* No sample is lost uncounted. *)

Lost == {s \in Samples : s <= fed /\ Copies(s) = 0}
Losses == droppedSamples + cleared + failures

\* The finish signal: in the queue once at most, between its put and its receipt.
Signalled == main \in {"sent", "stopping", "ended"}
Signals == Occurrences(None, queue)
SignalInv ==
    /\ Signals <= IF Signalled /\ ~stopping THEN 1 ELSE 0
    /\ stopping => Signalled
SignalsGone == IF Signalled /\ ~stopping /\ Signals = 0 THEN 1 ELSE 0

FateInv == SamplesInv /\ SInv /\ SignalInv /\ Losses = Cardinality(Lost) + SignalsGone

LEMMA FateKnown ==
  ASSUME SamplesInv
  PROVE  /\ TypeOK /\ queue \in Seq(Items) /\ Signals \in Nat /\ None \notin Samples
         /\ fed \in Nat /\ {droppedSamples, cleared, failures} \subseteq Nat
         /\ IsFiniteSet(Lost) /\ Cardinality(Lost) \in Nat
         /\ stopping \in BOOLEAN
<1>1. TypeOK /\ fed \in Nat
  BY Known
<1>2. queue \in Seq(Items) /\ Signals \in Nat
  BY <1>1, PositionsFinite DEF TypeOK, MQTypeOK, Signals
<1>3. failures \in Nat
  <2>1. failures \in 0..MaxFailures
    BY <1>1 DEF TypeOK, RollTypeOK
  <2> QED BY <2>1, Numbers
<1>4. {droppedSamples, cleared, failures} \subseteq Nat
  BY <1>1, <1>3 DEF TypeOK, MQTypeOK
<1>5. IsFiniteSet(Lost) /\ Cardinality(Lost) \in Nat
  BY Numbers, FS_Subset, FS_CardinalityType DEF Lost
<1>6. stopping \in BOOLEAN
  BY <1>1 DEF TypeOK, TrainTypeOK
<1> QED BY <1>1, <1>2, <1>4, <1>5, <1>6, Numbers

LEMMA FateAccounted == FateInv => Accounted
<1> SUFFICES ASSUME FateInv PROVE Accounted
  OBVIOUS
<1>1. queue \in Seq(Items) /\ Signals \in Nat
  BY FateKnown DEF FateInv
<1>2. Signals = 0 <=> \A i \in 1..Len(queue) : queue[i] # None
  BY <1>1, OccursOrNot DEF Signals
<1> QED BY <1>2 DEF FateInv, Accounted, Lost, Losses, SignalsGone, Signalled

\* How many copies of a sample there are.
CopiesBounded ==
    \A s \in Samples : Copies(s) \in {0, 1} /\ s \in Nat /\ fed \in Nat /\ (s > fed => Copies(s) = 0)

LEMMA CopiesAre == SamplesInv => CopiesBounded
<1> SUFFICES ASSUME SamplesInv, NEW s \in Samples
             PROVE  Copies(s) \in {0, 1} /\ s \in Nat /\ fed \in Nat /\ (s > fed => Copies(s) = 0)
  BY DEF CopiesBounded
<1>1. TypeOK /\ ExactlyOnce /\ fed \in Nat /\ s \in Nat
  BY Known, Numbers
<1>2. Made(s) \in Nat /\ Out(s) \in Nat /\ Copies(s) = Made(s) + Out(s)
  BY <1>1, CopyTypes
<1> QED BY <1>1, <1>2 DEF ExactlyOnce

LEMMA CopiesAreNext == SamplesInv' => CopiesBounded'
  BY CopiesAre, PTL

LEMMA LostFeeds ==
  ASSUME FateInv, SamplesInv', Feeds
  PROVE  Losses' = Losses /\ Cardinality(Lost)' = Cardinality(Lost) /\ SignalsGone' = SignalsGone /\ SignalInv'
<1>1. SamplesInv /\ RollInv /\ RollInv' /\ fed \in Nat
  BY Known, KnownNext DEF FateInv
<1>2. ASSUME NEW s \in Samples PROVE s \in Lost' <=> s \in Lost
  <2>1. Copies(s)' = Copies(s) + Same(s, fed + 1) /\ fed' = fed + 1
    BY <1>1, <1>2, CopiesFed
  <2>2. Copies(s) \in {0, 1} /\ s \in Nat
    BY <1>1, CopiesAre DEF CopiesBounded
  <2> QED BY <1>1, <2>1, <2>2 DEF Lost, Same
<1>3. Lost' = Lost
  BY <1>2 DEF Lost
<1>4. UNCHANGED <<queue, failures, droppedSamples, cleared, main, stopping>>
  BY DEF Feeds, FeederPuts, FeederDoes, Others, mqVars, mqCounters, trainVars, taskVars
<1> QED BY <1>3, <1>4 DEF FateInv, Losses, SignalsGone, SignalInv, Signals, Signalled

LEMMA LostFails ==
  ASSUME FateInv, SamplesInv', NEW t \in Samples, Fails(t)
  PROVE  Losses' = Losses + 1 /\ Cardinality(Lost)' = Cardinality(Lost) + 1 /\ SignalsGone' = SignalsGone /\ SignalInv'
<1>1. SamplesInv /\ RollInv /\ RollInv' /\ fed \in Nat
  BY Known, KnownNext DEF FateInv
<1>2. UNCHANGED <<queue, fed, droppedSamples, cleared, main, stopping>> /\ failures' = failures + 1
  BY DEF Fails, ServersFail, TaskOutside, Others, mqVars, mqCounters, trainVars, taskVars, feedVars
<1>3. ASSUME NEW s \in Samples PROVE s \in Lost' <=> s \in Lost \cup {t}
  <2>1. Copies(s)' = Copies(s) - Same(s, t)
    BY <1>1, <1>3, CopiesFailed
  <2>2. Copies(s) \in {0, 1} /\ s \in Nat /\ Copies(s)' \in {0, 1} /\ (s > fed => Copies(s) = 0)
    BY <1>1, CopiesAre, CopiesAreNext DEF CopiesBounded
  <2> QED BY <1>1, <1>2, <2>1, <2>2 DEF Lost, Same
<1>4. t \notin Lost
  <2>1. Copies(t)' = Copies(t) - 1
    BY <1>1, CopiesFailed DEF Same
  <2>2. Copies(t)' \in Nat
    BY CopiesAreNext DEF CopiesBounded
  <2>3. Copies(t) \in Nat
    BY <1>1, CopiesAre DEF CopiesBounded
  <2> QED BY <2>1, <2>2, <2>3 DEF Lost
<1>5. Lost' = Lost \cup {t}
  BY <1>3 DEF Lost
<1>6. Cardinality(Lost \cup {t}) = Cardinality(Lost) + 1
  BY <1>1, <1>4, FateKnown, FS_AddElement
<1>7. Losses' = Losses + 1
  BY <1>1, <1>2, FateKnown DEF Losses
<1> QED BY <1>2, <1>5, <1>6, <1>7 DEF FateInv, SignalsGone, SignalInv, Signals, Signalled

\* A put that makes room loses the oldest sample, or the signal.
LEMMA LostPuts ==
  ASSUME FateInv, SamplesInv', Puts
  PROVE  Losses' = Cardinality(Lost)' + SignalsGone' /\ SignalInv'
<1>1. SamplesInv /\ RollInv /\ RollInv' /\ ExactlyOnce /\ fed \in Nat /\ TypeOK
  BY Known, KnownNext DEF FateInv
<1>2. UNCHANGED <<fed, failures, cleared, stopping>> /\ droppedSamples' = DroppedForRoom
  BY DEF Puts, QueueTakesNone, QueueTakes, PutSample, MainOnly, TaskOutside, Others, trainVars, feedVars, taskVars
<1>3. queue \in Seq(Items) /\ (QueueFull => queue # <<>> /\ Head(queue) \in Items)
  <2>1. queue \in Seq(Items) /\ (QueueFull => queue # <<>>)
    BY <1>1, MaxQueueSizeAssumption DEF TypeOK, MQTypeOK, QueueFull
  <2> QED BY <2>1, HeadTailProperties
<1>4. /\ Signals \in Nat /\ None \notin Samples /\ {droppedSamples, cleared, failures} \subseteq Nat
      /\ IsFiniteSet(Lost) /\ Cardinality(Lost) \in Nat /\ stopping \in BOOLEAN
  BY <1>1, FateKnown
\* The samples.
<1>5. ASSUME NEW s \in Samples
      PROVE  /\ s \in Lost' <=> s \in Lost \/ (QueueFull /\ Head(queue) = s)
             /\ s \in Lost => ~(QueueFull /\ Head(queue) = s)
  <2>1. Copies(s)' = Copies(s) - IF QueueFull /\ Head(queue) = s THEN 1 ELSE 0
    BY <1>1, <1>5, CopiesPut
  <2>2. Copies(s) \in {0, 1} /\ s \in Nat /\ Copies(s)' \in {0, 1} /\ (s > fed => Copies(s) = 0)
    BY <1>1, CopiesAre, CopiesAreNext DEF CopiesBounded
  <2> QED BY <1>1, <1>2, <2>1, <2>2 DEF Lost
<1>6. Cardinality(Lost)' = Cardinality(Lost) + IF QueueFull /\ Head(queue) \in Samples THEN 1 ELSE 0
  <2>1. CASE QueueFull /\ Head(queue) \in Samples
    <3>1. PICK h \in Samples : h = Head(queue)
      BY <2>1
    <3>2. Lost' = Lost \cup {h} /\ h \notin Lost
      BY <1>5, <2>1, <3>1 DEF Lost
    <3>3. Cardinality(Lost \cup {h}) = Cardinality(Lost) + 1
      BY <1>4, <3>2, FS_AddElement
    <3> QED BY <2>1, <3>2, <3>3
  <2>2. CASE ~(QueueFull /\ Head(queue) \in Samples)
    <3>1. Lost' = Lost
      BY <1>5, <2>2 DEF Lost
    <3> QED BY <1>4, <2>2, <3>1
  <2> QED BY <2>1, <2>2
\* The signal.
<1>7. QueueFull /\ Head(queue) = None => Signals > 0
  BY <1>3, HeadOccurs DEF Signals
<1>8. ASSUME NEW item \in Items, PutSample(item)
      PROVE  Signals' = Signals + Same(None, item) - IF QueueFull /\ Head(queue) = None THEN 1 ELSE 0
  BY <1>3, <1>8, OccursPut DEF Signals
<1>9. SignalInv' /\ SignalsGone' = SignalsGone + IF QueueFull /\ Head(queue) = None THEN 1 ELSE 0
  <2>1. CASE QueueTakesNone
    <3>1. main = "sending" /\ main' = "sent" /\ PutSample(None) /\ None \in Items
      BY <2>1 DEF QueueTakesNone, Items
    <3>2. Signals = 0 /\ ~stopping
      BY <1>4, <3>1 DEF FateInv, SignalInv, Signalled
    <3>3. ~(QueueFull /\ Head(queue) = None) /\ Signals' = 1
      BY <1>7, <1>8, <3>1, <3>2 DEF Same
    <3>4. Signalled' /\ ~stopping'
      BY <1>2, <3>1, <3>2 DEF Signalled
    <3>5. ~Signalled
      BY <3>1 DEF Signalled
    <3>6. SignalsGone = 0 /\ SignalsGone' = 0 /\ SignalInv'
      BY <3>3, <3>4, <3>5 DEF SignalInv, SignalsGone
    <3> QED BY <3>3, <3>6
  <2>2. ASSUME NEW t \in Samples, QueueTakes(t)
        PROVE  SignalInv' /\ SignalsGone' = SignalsGone + IF QueueFull /\ Head(queue) = None THEN 1 ELSE 0
    <3>1. PutSample(t) /\ t \in Items /\ main' = main /\ t # None
      BY <1>4, <2>2 DEF QueueTakes, TaskOutside, Items
    <3>2. Signals' = Signals - IF QueueFull /\ Head(queue) = None THEN 1 ELSE 0
      BY <1>4, <1>8, <3>1 DEF Same
    <3>3. Signalled' = Signalled /\ stopping' = stopping
      BY <1>2, <3>1 DEF Signalled
    <3>4. Signals <= (IF Signalled /\ ~stopping THEN 1 ELSE 0) /\ (stopping => Signalled)
      BY DEF FateInv, SignalInv
    <3>5. CASE QueueFull /\ Head(queue) = None
      <4>1. Signalled /\ ~stopping /\ Signals = 1 /\ Signals' = 0
        BY <1>4, <1>7, <3>2, <3>4, <3>5
      <4> QED BY <3>3, <3>5, <4>1 DEF SignalInv, SignalsGone
    <3>6. CASE ~(QueueFull /\ Head(queue) = None)
      <4>1. Signals' = Signals
        BY <1>4, <3>2, <3>6
      <4>2. SignalsGone' = SignalsGone /\ SignalsGone \in {0, 1}
        BY <3>3, <4>1 DEF SignalsGone
      <4>3. SignalInv'
        BY <3>3, <3>4, <4>1 DEF SignalInv
      <4> QED BY <3>6, <4>2, <4>3
    <3> QED BY <3>5, <3>6
  <2> QED BY <2>1, <2>2 DEF Puts
\* A full queue loses one or the other.
<1>10. Losses' = Losses + IF QueueFull THEN 1 ELSE 0
  BY <1>2, <1>4 DEF Losses, DroppedForRoom
<1>11. Losses = Cardinality(Lost) + SignalsGone /\ SignalsGone \in {0, 1}
  BY DEF FateInv, SignalsGone
<1>12. QueueFull => (Head(queue) \in Samples <=> Head(queue) # None)
  BY <1>3, <1>4 DEF Items
<1>13. Losses' = Cardinality(Lost)' + SignalsGone'
  <2>1. CASE QueueFull
    BY <1>4, <1>6, <1>9, <1>10, <1>11, <1>12, <2>1
  <2>2. CASE ~QueueFull
    BY <1>4, <1>6, <1>9, <1>10, <1>11, <2>2
  <2> QED BY <2>1, <2>2
<1> QED BY <1>9, <1>13

\* When the main program clears the queue the signal has been received, and the queue holds samples only.
LEMMA LostClears ==
  ASSUME FateInv, SamplesInv', RunnerEnds
  PROVE  Losses' = Cardinality(Lost)' + SignalsGone' /\ SignalInv'
<1> DEFINE Q == {queue[i] : i \in 1..Len(queue)}
<1>1. SamplesInv /\ RollInv /\ RollInv' /\ ExactlyOnce /\ fed \in Nat /\ TypeOK /\ PlacesAre
  BY Known, KnownNext DEF FateInv
<1>2. /\ UNCHANGED <<fed, failures, droppedSamples, stopping, main>>
      /\ queue' = <<>> /\ cleared' = cleared + Len(queue) /\ trainer = "ended"
  BY DEF RunnerEnds, ClearQueue, ClearedCount, trainVars, rollVars, feedVars, taskVars
<1>3. /\ queue \in Seq(Items) /\ Signals \in Nat /\ None \notin Samples /\ {droppedSamples, cleared, failures} \subseteq Nat
      /\ IsFiniteSet(Lost) /\ Cardinality(Lost) \in Nat /\ Len(queue) \in Nat
  <2>1. queue \in Seq(Items)
    BY <1>1, FateKnown
  <2> QED BY <1>1, <2>1, FateKnown, LenProperties
<1>4. stopping /\ Signals = 0 /\ Signalled
  BY <1>2, <1>3 DEF FateInv, SInv, Validated, SignalInv
<1>5. SignalsGone = 0 /\ SignalsGone' = 0 /\ SignalInv'
  <2>1. Signals' = 0
    BY <1>2, OccursInNone DEF Signals
  <2>2. stopping' /\ Signalled'
    BY <1>2, <1>4 DEF Signalled
  <2> QED BY <1>4, <2>1, <2>2 DEF SignalsGone, SignalInv
<1>6. IsFiniteSet(Q) /\ Cardinality(Q) = Len(queue)
  <2>1. ASSUME NEW s \in Items PROVE Occurrences(s, queue) <= 1
    <3>1. CASE s \in Samples
      BY <1>1, <3>1 DEF PlacesAre, OnePlace
    <3>2. CASE s = None
      BY <1>4, <3>2 DEF Signals
    <3> QED BY <3>1, <3>2 DEF Items
  <2> QED BY <1>3, <2>1, Distinct
<1>7. ASSUME NEW s \in Samples
      PROVE  /\ s \in Lost' <=> s \in Lost \/ s \in Q
             /\ s \in Lost => s \notin Q
  <2>1. Copies(s)' = Copies(s) - Occurrences(s, queue)
    BY <1>1, <1>7, CopiesCleared
  <2>2. Copies(s) \in {0, 1} /\ s \in Nat /\ Copies(s)' \in {0, 1} /\ (s > fed => Copies(s) = 0)
    BY <1>1, CopiesAre, CopiesAreNext DEF CopiesBounded
  <2>3. s \in Q <=> Occurrences(s, queue) > 0
    BY <1>3, OccursOrNot
  <2>4. Occurrences(s, queue) \in Nat
    BY <1>3, PositionsFinite
  <2> HIDE DEF Q
  <2> QED BY <1>1, <1>2, <2>1, <2>2, <2>3, <2>4 DEF Lost
<1>8. Q \subseteq Samples
  <2> SUFFICES ASSUME NEW i \in 1..Len(queue) PROVE queue[i] \in Samples
    OBVIOUS
  <2>1. queue[i] \in Items
    BY <1>3
  <2>2. queue[i] # None
    BY <1>3, <1>4, OccursOrNot DEF Signals
  <2> QED BY <2>1, <2>2 DEF Items
<1> HIDE DEF Q
<1>9. Lost' = Lost \cup Q /\ Lost \cap Q = {}
  BY <1>7, <1>8 DEF Lost
<1>10. Cardinality(Lost \cup Q) = Cardinality(Lost) + Len(queue)
  <2>1. Cardinality(Lost \cup Q) = Cardinality(Lost) + Cardinality(Q) - Cardinality(Lost \cap Q)
    BY <1>3, <1>6, FS_Union
  <2>2. Cardinality(Lost \cap Q) = 0
    BY <1>9, FS_EmptySet
  <2> QED BY <1>3, <1>6, <2>1, <2>2
<1>11. Losses = Cardinality(Lost) /\ Losses' = Losses + Len(queue)
  BY <1>2, <1>3, <1>5 DEF FateInv, Losses
<1> QED BY <1>3, <1>5, <1>9, <1>10, <1>11

\* Nobody but the put of the signal makes it signalled, and then the main routine only goes on.
LEMMA MainKeeps ==
  ASSUME RollNext, ~QueueTakesNone
  PROVE  Signalled' <=> Signalled
<1>1. CASE LoopRuns
  <2>1. CASE Main
    BY <2>1 DEF Main, MainSends, MainLocks, MainStops, Signalled
  <2>2. CASE ~Main
    <3>1. main' = main
      BY <1>1, <2>2 DEF LoopRuns, FeederPuts, FeederEnds, FeederDoes, Processor, TaskSteps, Monitor, Sync
    <3> QED BY <3>1 DEF Signalled
  <2> QED BY <2>1, <2>2
<1>2. CASE ~LoopRuns
  <2>1. main' = main
    BY <1>2 DEF RollNext, TaskEnvironment, ServersTake, ServersAnswer, QueueTakes, QueueAnswers, ServersFail,
                TaskOutside, MonitorTimer, SyncEnvironment, ServersCancel, ServersResume, QueueSizes,
                QueueTakesValidate, SyncArrives, SyncOutside
  <2> QED BY <2>1 DEF Signalled
<1> QED BY <1>1, <1>2

LEMMA LostKeeps ==
  ASSUME FateInv, SamplesInv', SInv', Keeps
  PROVE  Losses' = Losses /\ Cardinality(Lost)' = Cardinality(Lost) /\ SignalsGone' = SignalsGone /\ SignalInv'
<1>1. SamplesInv /\ RollInv /\ RollInv' /\ ExactlyOnce /\ fed \in Nat /\ TypeOK
  BY Known, KnownNext DEF FateInv
<1>2. queue \in Seq(Items) /\ Signals \in Nat /\ stopping \in BOOLEAN
  BY <1>1, FateKnown
<1>3. 1 \in Samples
  BY Numbers
<1>4. \A s \in Samples : Copies(s)' = Copies(s) /\ UNCHANGED Counted
  BY <1>1, CopiesKept
<1>5. UNCHANGED <<fed, failures, droppedSamples, cleared>>
  BY <1>3, <1>4 DEF Counted
<1>6. Lost' = Lost /\ Losses' = Losses
  BY <1>4, <1>5 DEF Lost, Losses
<1>7. /\ Signals <= IF Signalled /\ ~stopping THEN 1 ELSE 0
      /\ stopping => Signalled
  BY DEF FateInv, SignalInv
<1>8. ASSUME Signals' = Signals, Signalled' <=> Signalled, stopping' = stopping
      PROVE  SignalsGone' = SignalsGone /\ SignalInv'
  BY <1>7, <1>8 DEF SignalsGone, SignalInv
<1>9. SignalsGone' = SignalsGone /\ SignalInv'
  <2>1. CASE /\ RollNext /\ Others /\ ~FeederPuts /\ ~QueueTakesNone
             /\ \A t \in Samples : ~QueueTakes(t) /\ ~ServersFail(t)
    <3>1. UNCHANGED trainVars
      BY <2>1 DEF Others
    <3>2. queue' = queue
      BY <1>1, <1>3, <2>1, <3>1, RolloutKeeps
    <3>3. Signals' = Signals /\ stopping' = stopping
      BY <3>1, <3>2 DEF Signals, trainVars
    <3> QED BY <1>8, <2>1, <3>3, MainKeeps
  <2>2. CASE CollectTakes \/ CollectStops
    <3>1. queue # <<>> /\ queue' = Tail(queue) /\ main' = main /\ trainer = "collect"
      BY <2>2 DEF CollectTakes, CollectStops, GetSampleReturns, rollVars
    <3>2. Signals' = Signals - IF Head(queue) = None THEN 1 ELSE 0
      BY <1>2, <3>1, OccursInTail DEF Signals
    <3>3. Signalled' <=> Signalled
      BY <3>1 DEF Signalled
    <3>4. CASE CollectTakes
      <4>1. Signals' = Signals /\ stopping' = stopping
        BY <1>2, <3>2, <3>4 DEF CollectTakes
      <4> QED BY <1>8, <3>3, <4>1
    <3>5. CASE CollectStops
      <4>1. Head(queue) = None /\ stopping'
        BY <3>5 DEF CollectStops
      <4>2. Signals > 0
        BY <1>2, <3>1, <4>1, HeadOccurs DEF Signals
      <4>3. Signals = 1 /\ Signalled /\ ~stopping /\ Signals' = 0
        BY <1>2, <1>7, <3>2, <4>1, <4>2
      <4> QED BY <3>3, <4>1, <4>3 DEF SignalsGone, SignalInv
    <3> QED BY <2>2, <3>4, <3>5
  <2>3. CASE TrainNext /\ ~CollectTakes /\ ~CollectStops
    <3>1. UNCHANGED <<queue, main, stopping>>
      BY <2>3 DEF TrainNext, CollectWaits, GetSampleWaits, Trains, CallsPause, TransferBegins, UpdateParamVersion,
                  TransferEnds, Logs, Finishes, FinishesSync, GetValidate, TrainerGoes, RollouterButSync, trainVars,
                  rollVars, mqVars
    <3> QED BY <1>8, <3>1 DEF Signals, Signalled
  <2>4. CASE Terminated \/ UNCHANGED vars
    <3>1. UNCHANGED <<queue, main, stopping>>
      BY <2>4 DEF Terminated, vars, mqVars, rollVars, trainVars
    <3> QED BY <1>8, <3>1 DEF Signals, Signalled
  <2> QED BY <2>1, <2>2, <2>3, <2>4 DEF Keeps
<1> QED BY <1>6, <1>9

LEMMA FateInvInitial == Init => FateInv
<1> SUFFICES ASSUME Init PROVE FateInv
  OBVIOUS
<1>1. SamplesInv /\ SInv
  BY SamplesInvInitial, SInvInitial
<1>2. fed = 0 /\ queue = <<>> /\ main = "streaming" /\ ~stopping /\ droppedSamples = 0 /\ cleared = 0 /\ failures = 0
  BY DEF Init, RollInit, MQInit, TrainInit
<1>3. Lost = {}
  BY <1>2, Numbers DEF Lost
<1>4. Cardinality(Lost) = 0
  BY <1>3, FS_EmptySet
<1>5. Signals = 0 /\ ~Signalled
  BY <1>2, OccursInNone DEF Signals, Signalled
<1>6. SignalInv /\ SignalsGone = 0 /\ Losses = 0
  BY <1>2, <1>5 DEF SignalInv, SignalsGone, Losses
<1> QED BY <1>1, <1>4, <1>6 DEF FateInv

LEMMA FateInvNext == FateInv /\ SamplesInv' /\ [Next]_vars => FateInv'
<1> SUFFICES ASSUME FateInv, SamplesInv', [Next]_vars PROVE FateInv'
  OBVIOUS
<1>1. SInv'
  BY SInvNext DEF FateInv
<1>2. /\ SamplesInv /\ Losses = Cardinality(Lost) + SignalsGone
      /\ Cardinality(Lost) \in Nat /\ SignalsGone \in {0, 1}
  BY FateKnown DEF FateInv, SignalsGone
<1>3. Losses' = Cardinality(Lost)' + SignalsGone' /\ SignalInv'
  <2>1. CASE Feeds
    BY <1>2, <2>1, LostFeeds
  <2>2. ASSUME NEW t \in Samples, Fails(t)
        PROVE  Losses' = Cardinality(Lost)' + SignalsGone' /\ SignalInv'
    BY <1>2, <2>2, LostFails
  <2>3. CASE Puts
    BY <2>3, LostPuts
  <2>4. CASE RunnerEnds
    BY <2>4, LostClears
  <2>5. CASE Keeps
    BY <1>1, <1>2, <2>5, LostKeeps
  <2> QED BY <2>1, <2>2, <2>3, <2>4, <2>5, Fates
<1> QED BY <1>1, <1>3 DEF FateInv

\* The samples that are nowhere are those the queue dropped to make room or the main program cleared,
\* and those whose generation raised: no pause, requeue or end loses another, however full the queue
\* and however late the finish signal, which is counted too when it makes room.
THEOREM LossesAreAccounted == Spec => []Accounted
<1>1. Spec => []SamplesInv
  BY SamplesInvariance
<1>2. Spec => []FateInv
  BY <1>1, FateInvInitial, FateInvNext, PTL DEF Spec
<1> QED BY <1>2, FateAccounted, PTL
-----------------------------------------------------------------------------
(* The freshness counter. *)

\* The samples taken from the feeder and not yet by the trainer; those of them that are not in
\* the processor's hand; and of these the ones the queue has not got.
Held == {s \in Samples : place[s] \in {"rollout", "queue"} /\ s \notin SamplesOf(pendingQueue)}
OffHand == Held \ {hand}
UnderWay == {s \in OffHand : place[s] = "rollout"}

\* Where the handler has the lock across a suspension.
Inside == {"cancelling", "cancelled", "gathering", "flushing", "sizing", "sized", "validating", "validated",
           "serversResuming", "serversResumed"}
HandlerHolds == sync \in Inside => lockQueue # <<>> /\ Head(lockQueue) = Handler

\* While the sum is computed it covers what the processor cannot submit again: it has not got the lock.
CounterInv ==
    /\ HandlerHolds
    /\ Cardinality(Held) <= staleness + 1
    /\ Cardinality(Held) <= MaxRequiredSamples + 1
    /\ processor = "get" => Cardinality(Held) <= MaxRequiredSamples
    /\ sync = "sizing" => Cardinality(UnderWay) <= syncSum
    /\ sync = "sized" => Cardinality(OffHand) <= syncSum

\* The lock is asked for, or given up by its owner, or nothing happens to it.
LockSteps ==
    \/ lockQueue' = lockQueue
    \/ \E d \in LockUsers : lockQueue' = Append(lockQueue, d)
    \/ \E d \in LockUsers : d # Handler /\ Owns(d)
    \/ sync' \notin Inside

LEMMA LockMoves == ASSUME [Next]_vars PROVE LockSteps
<1>1. {Proc, Mon, MainRoutine, Handler} \subseteq LockUsers
      /\ Proc # Handler /\ Mon # Handler /\ MainRoutine # Handler
  BY DEF LockUsers, Proc, Mon, MainRoutine, Handler
<1>2. CASE FeederPuts \/ FeederEnds
  BY <1>2 DEF FeederPuts, FeederEnds, FeederDoes, LockSteps
<1>3. CASE Processor
  BY <1>1, <1>3 DEF Processor, ProcessorSeesPause, ProcessorPauses, ProcessorTakesCancelled, ProcessorAsksPending,
      ProcessorGets, ProcessorDrains, ProcessorDrained, ProcessorAwaitsTask, ProcessorFindsNoTask, ProcessorReaps,
      ProcessorSleeps, ProcessorWakes, ProcessorLeavesPause, ProcessorSubmits, ProcessorOwns, Acquire, loopVars,
      LockSteps
<1>4. CASE TaskSteps
  BY <1>4 DEF TaskSteps, LockSteps
<1>5. CASE Monitor \/ MonitorTimer
  BY <1>1, <1>5 DEF Monitor, MonitorStarts, MonitorChecks, MonitorWakes, MonitorUnpauses, MonitorTimer, Acquire,
      loopVars, LockSteps
<1>6. CASE Main \/ QueueTakesNone
  BY <1>1, <1>6 DEF Main, MainSends, MainLocks, MainStops, QueueTakesNone, Acquire, LockSteps
<1>7. CASE Sync
  <2>1. CASE CallLocks
    BY <1>1, <2>1 DEF CallLocks, Acquire, LockSteps
  <2>2. CASE PauseBegins \/ PauseGathers \/ UpdateBegins \/ UpdateResets \/ ResumeAsksServers
    BY <2>2 DEF PauseBegins, PauseGathers, Gathers, UpdateBegins, UpdateResets, ResumeAsksServers, LockSteps
  <2>3. CASE PauseEnds \/ UpdateEnds \/ ResumeEnds
    BY <2>3 DEF PauseEnds, UpdateEnds, ResumeEnds, SyncGoes, LockSteps, Inside
  <2> QED BY <1>7, <2>1, <2>2, <2>3 DEF Sync
<1>8. CASE TaskEnvironment \/ (\E s \in Samples : ServersFail(s)) \/ SyncEnvironment
  BY <1>8 DEF TaskEnvironment, ServersTake, ServersAnswer, QueueTakes, QueueAnswers, ServersFail, TaskOutside,
      SyncEnvironment, ServersCancel, ServersResume, QueueSizes, QueueTakesValidate, SyncArrives, SyncOutside, LockSteps
<1>9. CASE TrainNext \/ RunnerEnds \/ Terminated \/ UNCHANGED vars
  BY <1>9 DEF TrainNext, CollectWaits, CollectTakes, CollectStops, Trains, CallsPause, TransferBegins, TransferEnds,
      Logs, Finishes, FinishesSync, RollouterButSync, RunnerEnds, Terminated, vars, rollVars, loopVars, LockSteps
<1> QED BY <1>2, <1>3, <1>4, <1>5, <1>6, <1>7, <1>8, <1>9 DEF Next, RollNext, LoopRuns

\* Whoever gets inside owns the lock, and keeps it.
LEMMA InsideMoves ==
  ASSUME [Next]_vars, sync' \in Inside
  PROVE  sync \in Inside \/ (Owns(Handler) /\ lockQueue' = lockQueue)
<1>1. CASE RollNext
  <2>1. CASE Sync
    BY <2>1 DEF Sync, CallLocks, PauseBegins, PauseGathers, Gathers, PauseEnds, UpdateBegins, UpdateResets,
        UpdateEnds, ResumeAsksServers, ResumeEnds, SyncOwns, SyncGoes, Inside
  <2>2. CASE SyncEnvironment
    BY <2>2 DEF SyncEnvironment, ServersCancel, ServersResume, QueueSizes, QueueTakesValidate, SyncArrives, Inside
  <2>3. CASE ~Sync /\ ~SyncEnvironment
    <3>1. sync' = sync
      BY <1>1, <2>3 DEF RollNext, LoopRuns, FeederPuts, FeederEnds, FeederDoes, Processor, TaskSteps, Monitor, Main,
          MainOnly, TaskEnvironment, ServersTake, ServersAnswer, QueueTakes, QueueAnswers, ServersFail, TaskOutside,
          MonitorTimer, QueueTakesNone, syncVars
    <3> QED BY <3>1
  <2> QED BY <2>1, <2>2, <2>3
<1>2. CASE TrainNext \/ RunnerEnds \/ Terminated \/ UNCHANGED vars
  BY <1>2 DEF TrainNext, CollectWaits, CollectTakes, CollectStops, Trains, CallsPause, TransferBegins, TransferEnds,
      Logs, Finishes, FinishesSync, RunnerEnds, Terminated, vars, rollVars, syncVars, Inside
<1> QED BY <1>1, <1>2 DEF Next

LEMMA HandlerKeepsLock == ASSUME SamplesInv, HandlerHolds, [Next]_vars PROVE HandlerHolds'
<1> SUFFICES ASSUME sync' \in Inside PROVE lockQueue' # <<>> /\ Head(lockQueue') = Handler
  BY DEF HandlerHolds
<1>1. lockQueue \in Seq(LockUsers)
  BY Known DEF TypeOK, RollTypeOK
<1>2. lockQueue # <<>> /\ Head(lockQueue) = Handler
  BY InsideMoves DEF HandlerHolds, Owns
<1>3. ASSUME NEW d \in LockUsers, lockQueue' = Append(lockQueue, d)
      PROVE  lockQueue' # <<>> /\ Head(lockQueue') = Handler
  <2>1. Len(lockQueue) > 0 /\ Head(lockQueue) = lockQueue[1]
    BY <1>1, <1>2, EmptySeq
  <2>2. Len(lockQueue') = Len(lockQueue) + 1 /\ lockQueue'[1] = lockQueue[1] /\ lockQueue' \in Seq(LockUsers)
    BY <1>1, <1>3, <2>1, AppendProperties
  <2>3. lockQueue' # <<>>
    BY <2>1, <2>2, EmptySeq
  <2> QED BY <1>2, <2>1, <2>2, <2>3
<1> QED BY <1>2, <1>3, LockMoves DEF LockSteps, Owns

\* The steps by what the counter depends on.
CounterSteps ==
    /\ \/ pendingQueue' = pendingQueue \/ (\E x : pendingQueue' = Append(pendingQueue, x))
       \/ ProcessorGets
    /\ \/ hand' = hand \/ ProcessorTakesCancelled \/ ProcessorGets \/ ProcessorSubmits
    /\ \/ staleness' = staleness \/ ProcessorGets \/ UpdateResets
    /\ processor' = "get" => processor = "get" \/ ProcessorAsksPending
    /\ sync' = "sizing" => UNCHANGED <<sync, syncSum>> \/ UpdateBegins
    /\ sync' = "sized" => UNCHANGED <<sync, syncSum>> \/ QueueSizes

LEMMA CounterMoves == ASSUME [Next]_vars PROVE CounterSteps
<1>1. CASE FeederPuts \/ FeederEnds
  BY <1>1 DEF FeederPuts, FeederEnds, FeederDoes, procVars, syncVars, CounterSteps
<1>2. CASE Processor
  <2>1. UNCHANGED <<sync, syncSum>>
    BY <1>2 DEF Processor, syncVars
  <2>2. /\ pendingQueue' = pendingQueue \/ ProcessorGets
        /\ hand' = hand \/ ProcessorTakesCancelled \/ ProcessorGets \/ ProcessorSubmits
        /\ staleness' = staleness \/ ProcessorGets
        /\ processor' = "get" => ProcessorAsksPending
    BY <1>2 DEF Processor, ProcessorSeesPause, ProcessorPauses, ProcessorTakesCancelled, ProcessorAsksPending,
        ProcessorGets, ProcessorDrains, ProcessorDrained, ProcessorAwaitsTask, ProcessorFindsNoTask, ProcessorReaps,
        ProcessorSleeps, ProcessorWakes, ProcessorLeavesPause, ProcessorSubmits, ProcessorCrashes, ProcessorGoes,
        feedVars
  <2> QED BY <2>1, <2>2 DEF CounterSteps
<1>3. CASE TaskSteps \/ Monitor \/ MonitorTimer \/ Main \/ QueueTakesNone
  BY <1>3 DEF TaskSteps, Monitor, MonitorTimer, Main, MainOnly, QueueTakesNone, feedVars, procVars, syncVars,
      CounterSteps
<1>4. CASE Sync
  BY <1>4 DEF Sync, CallLocks, PauseBegins, PauseGathers, Gathers, PauseEnds, UpdateBegins, UpdateResets, UpdateEnds,
      ResumeAsksServers, ResumeEnds, SyncGoes, feedVars, procVars, CounterSteps
<1>5. CASE SyncEnvironment
  BY <1>5 DEF SyncEnvironment, ServersCancel, ServersResume, QueueSizes, QueueTakesValidate, SyncArrives, SyncOutside,
      feedVars, procVars, CounterSteps
<1>6. CASE TaskEnvironment \/ (\E s \in Samples : ServersFail(s))
  BY <1>6 DEF TaskEnvironment, ServersTake, ServersAnswer, QueueTakes, QueueAnswers, ServersFail, TaskOutside,
      feedVars, procVars, syncVars, CounterSteps
<1>7. CASE TrainNext \/ RunnerEnds \/ Terminated \/ UNCHANGED vars
  BY <1>7 DEF TrainNext, CollectWaits, CollectTakes, CollectStops, Trains, CallsPause, TransferBegins, TransferEnds,
      Logs, Finishes, FinishesSync, RollouterButSync, RunnerEnds, Terminated, vars, rollVars, feedVars, procVars,
      syncVars, CounterSteps
<1> QED BY <1>1, <1>2, <1>3, <1>4, <1>5, <1>6, <1>7 DEF Next, RollNext, LoopRuns

\* A sample that is in the rollouter or the queue was there, or it has just been fed.
LEMMA PlacesGo ==
  ASSUME SamplesInv, SamplesInv', [Next]_vars, NEW s \in Samples
  PROVE  /\ place'[s] \in {"rollout", "queue"} => place[s] \in {"new", "rollout", "queue"}
         /\ place'[s] = "rollout" => place[s] \in {"new", "rollout"}
<1>1. CASE place' = place
  BY <1>1
<1>2. CASE Pipeline!Next
  BY <1>2 DEF Pipeline!Next, Pipeline!Feed, Pipeline!Send, Pipeline!Fetch, Pipeline!Train, Pipeline!Lose,
              Pipeline!Clear, Pipeline!Go, Pipeline!In
<1> QED BY <1>1, <1>2, PlaceNext

\* What a sequence holds when one is appended or the first is taken.
LEMMA HeldBySequence ==
  ASSUME NEW E, NEW q \in Seq(E)
  PROVE  /\ \A x : SamplesOf(q) \subseteq SamplesOf(Append(q, x))
         /\ q # <<>> => SamplesOf(q) \subseteq SamplesOf(Tail(q)) \cup {Head(q)}
<1>1. ASSUME NEW x PROVE SamplesOf(q) \subseteq SamplesOf(Append(q, x))
  BY DEF SamplesOf
<1>2. ASSUME q # <<>> PROVE SamplesOf(q) \subseteq SamplesOf(Tail(q)) \cup {Head(q)}
  <2>1. /\ Len(q) > 0 /\ Len(q) \in Nat /\ Tail(q) \in Seq(E) /\ Head(q) = q[1] /\ Len(Tail(q)) = Len(q) - 1
        /\ \A i \in 1..Len(Tail(q)) : Tail(q)[i] = q[i + 1]
    BY <1>2, HeadTailProperties, EmptySeq
  <2> SUFFICES ASSUME NEW i \in 1..Len(q), q[i] \in Samples, i # 1 PROVE q[i] \in SamplesOf(Tail(q))
    BY <2>1 DEF SamplesOf
  <2>2. i - 1 \in 1..Len(Tail(q)) /\ Tail(q)[i - 1] = q[i - 1 + 1] /\ i - 1 + 1 = i
    BY <2>1
  <2> QED BY <2>2 DEF SamplesOf
<1> QED BY <1>1, <1>2

LEMMA HeldInSequence ==
  ASSUME NEW E, NEW q \in Seq(E)
  PROVE  IsFiniteSet(SamplesOf(q)) /\ Cardinality(SamplesOf(q)) \in Nat /\ Cardinality(SamplesOf(q)) <= Len(q)
<1> DEFINE S == {q[i] : i \in 1..Len(q)}
           f == [i \in 1..Len(q) |-> q[i]]
<1>1. Len(q) \in Nat /\ IsFiniteSet(1..Len(q)) /\ Cardinality(1..Len(q)) = Len(q)
  <2>1. Len(q) \in Nat
    OBVIOUS
  <2>2. IsFiniteSet(1..Len(q)) /\ Cardinality(1..Len(q)) = IF 1 > Len(q) THEN 0 ELSE Len(q) - 1 + 1
    BY <2>1, FS_Interval
  <2> QED BY <2>1, <2>2
<1>2. f \in Surjection(1..Len(q), S)
  <2>1. f \in [1..Len(q) -> S] /\ \A t \in S : \E i \in 1..Len(q) : f[i] = t
    OBVIOUS
  <2> QED BY <2>1, Fun_IsSurj
<1>3. IsFiniteSet(S) /\ Cardinality(S) <= Cardinality(1..Len(q))
  BY <1>1, <1>2, FS_Surjection
<1>4. SamplesOf(q) \subseteq S
  BY DEF SamplesOf
<1> HIDE DEF S
<1>5. IsFiniteSet(SamplesOf(q)) /\ Cardinality(SamplesOf(q)) <= Cardinality(S)
  BY <1>3, <1>4, FS_Subset
<1> QED BY <1>1, <1>3, <1>5, FS_CardinalityType

LEMMA HeldFinite ==
  /\ IsFiniteSet(Held) /\ IsFiniteSet(OffHand) /\ IsFiniteSet(UnderWay)
  /\ {Cardinality(Held), Cardinality(OffHand), Cardinality(UnderWay)} \subseteq Nat
<1>1. IsFiniteSet(Held)
  BY Numbers, FS_Subset DEF Held
<1>2. IsFiniteSet(OffHand)
  BY <1>1, FS_Subset DEF OffHand
<1>3. IsFiniteSet(UnderWay)
  BY <1>2, FS_Subset DEF UnderWay
<1> QED BY <1>1, <1>2, <1>3, FS_CardinalityType

\* What is fed goes to the pending queue.
FedSteps == fed' = fed \/ (fed' = fed + 1 /\ pendingQueue' = Append(pendingQueue, fed + 1))

LEMMA FedMoves == ASSUME [Next]_vars PROVE FedSteps
<1>1. CASE FeederPuts \/ FeederEnds
  BY <1>1 DEF FeederPuts, FeederEnds, FeederDoes, FedSteps
<1>2. CASE Processor
  BY <1>2 DEF Processor, ProcessorSeesPause, ProcessorPauses, ProcessorTakesCancelled, ProcessorAsksPending,
      ProcessorGets, ProcessorDrains, ProcessorDrained, ProcessorAwaitsTask, ProcessorFindsNoTask, ProcessorReaps,
      ProcessorSleeps, ProcessorWakes, ProcessorLeavesPause, ProcessorSubmits, ProcessorGoes, feedVars, FedSteps
<1>3. CASE TaskSteps \/ Monitor \/ MonitorTimer \/ Main \/ QueueTakesNone \/ Sync
  BY <1>3 DEF TaskSteps, Monitor, MonitorTimer, Main, MainOnly, QueueTakesNone, Sync, feedVars, FedSteps
<1>4. CASE SyncEnvironment
  BY <1>4 DEF SyncEnvironment, ServersCancel, ServersResume, QueueSizes, QueueTakesValidate, SyncArrives, SyncOutside,
      feedVars, FedSteps
<1>5. CASE TaskEnvironment \/ (\E s \in Samples : ServersFail(s))
  BY <1>5 DEF TaskEnvironment, ServersTake, ServersAnswer, QueueTakes, QueueAnswers, ServersFail, TaskOutside,
      feedVars, FedSteps
<1>6. CASE TrainNext \/ RunnerEnds \/ Terminated \/ UNCHANGED vars
  BY <1>6 DEF TrainNext, CollectWaits, CollectTakes, CollectStops, Trains, CallsPause, TransferBegins, TransferEnds,
      Logs, Finishes, FinishesSync, RollouterButSync, RunnerEnds, Terminated, vars, rollVars, feedVars, FedSteps
<1> QED BY <1>1, <1>2, <1>3, <1>4, <1>5, <1>6 DEF Next, RollNext, LoopRuns

\* Whether a sample is held, after a step.
LEMMA HeldSteps ==
  ASSUME SamplesInv, SamplesInv', [Next]_vars
  PROVE  /\ ~ProcessorGets => Held' \subseteq Held
         /\ ProcessorGets => Held' \subseteq Held \cup {Head(pendingQueue)}
<1>1. /\ pendingQueue \in Seq(Samples \cup {Done}) /\ fed \in Nat /\ fed' \in Nat
      /\ \A s \in Samples : place[s] = PlaceOf(s) /\ place'[s] = PlaceOf(s)'
  BY Known, KnownNext DEF TypeOK, RollTypeOK, PlacesAre
<1>2. ASSUME NEW s \in Held' PROVE place[s] \in {"rollout", "queue"}
  <2>1. s \in Samples /\ s \in Nat /\ place'[s] \in {"rollout", "queue"} /\ s \notin SamplesOf(pendingQueue')
    BY Numbers DEF Held, SamplesOf
  <2> SUFFICES ASSUME place[s] = "new" PROVE FALSE
    BY <2>1, PlacesGo
  <2>2. s > fed
    BY <1>1, <2>1 DEF PlaceOf
  <2>3. ~(s > fed')
    BY <1>1, <2>1 DEF PlaceOf
  <2>4. s = fed + 1 /\ pendingQueue' = Append(pendingQueue, s)
    BY <1>1, <2>1, <2>2, <2>3, FedMoves DEF FedSteps
  <2>5. Len(pendingQueue') = Len(pendingQueue) + 1 /\ pendingQueue'[Len(pendingQueue) + 1] = s
        /\ Len(pendingQueue) + 1 \in 1..(Len(pendingQueue) + 1)
    <3>1. Len(pendingQueue) \in Nat
      BY <1>1
    <3>2. pendingQueue \in Seq(Samples \cup {Done}) /\ s \in Samples \cup {Done}
      BY <1>1, <2>1
    <3> QED BY <2>4, <3>1, <3>2, AppendProperties
  <2>6. s \in SamplesOf(pendingQueue')
    BY <2>1, <2>5 DEF SamplesOf
  <2> QED BY <2>1, <2>6
<1>3. ASSUME ~ProcessorGets, NEW s \in Held' PROVE s \in Held
  <2>1. s \in Samples /\ s \notin SamplesOf(pendingQueue')
    BY DEF Held, SamplesOf
  <2>2. pendingQueue' = pendingQueue \/ \E x : pendingQueue' = Append(pendingQueue, x)
    BY <1>3, CounterMoves DEF CounterSteps
  <2>3. s \notin SamplesOf(pendingQueue)
    BY <1>1, <2>1, <2>2, HeldBySequence
  <2> QED BY <1>2, <2>1, <2>3 DEF Held
<1>4. ASSUME ProcessorGets, NEW s \in Held' PROVE s \in Held \cup {Head(pendingQueue)}
  <2>1. s \in Samples /\ s \notin SamplesOf(pendingQueue')
    BY DEF Held, SamplesOf
  <2>2. pendingQueue # <<>> /\ pendingQueue' = Tail(pendingQueue)
    BY <1>4, Known, GetsSomething DEF ProcessorGets, RollInv, TypeOK
  <2>3. s \notin SamplesOf(pendingQueue) \/ s = Head(pendingQueue)
    BY <1>1, <2>1, <2>2, HeldBySequence
  <2> QED BY <1>2, <2>1, <2>3 DEF Held
<1> QED BY <1>3, <1>4

\* While the handler has the lock the processor submits nothing.
LEMMA OffHandSteps ==
  ASSUME SamplesInv, SamplesInv', lockQueue # <<>>, Head(lockQueue) = Handler, [Next]_vars
  PROVE  OffHand' \subseteq OffHand /\ UnderWay' \subseteq UnderWay
<1>1. HandInv /\ None \notin Samples /\ Done \notin Samples
  BY Known, Numbers DEF RollInv
<1>2. ASSUME NEW s \in OffHand' PROVE s \in OffHand
  <2>1. s \in Samples /\ s \in Held' /\ s # hand'
    BY DEF OffHand, Held
  <2>2. ~ProcessorSubmits
    <3>1. Proc # Handler
      BY Names
    <3> QED BY <3>1 DEF ProcessorSubmits, ProcessorOwns, Owns
  <2>3. ASSUME ProcessorTakesCancelled \/ ProcessorGets PROVE hand = None
    BY <1>1, <2>3 DEF HandInv, Holding, Draining, ProcessorTakesCancelled, ProcessorGets, ProcessorAt
  <2>4. s # hand
    BY <1>1, <2>1, <2>2, <2>3, CounterMoves DEF CounterSteps
  <2>5. s \in Held
    <3>1. CASE ProcessorGets
      <4>1. s # Head(pendingQueue)
        BY <1>1, <2>1, <3>1 DEF ProcessorGets
      <4> QED BY <2>1, <3>1, <4>1, HeldSteps
    <3>2. CASE ~ProcessorGets
      BY <2>1, <3>2, HeldSteps
    <3> QED BY <3>1, <3>2
  <2> QED BY <2>4, <2>5 DEF OffHand
<1>3. ASSUME NEW s \in UnderWay' PROVE s \in UnderWay
  <2>1. s \in OffHand' /\ place'[s] = "rollout"
    BY DEF UnderWay
  <2>2. s \in OffHand /\ s \in Samples /\ place[s] \in {"rollout", "queue"}
    BY <1>2, <2>1 DEF OffHand, Held
  <2>3. place[s] = "rollout"
    BY <2>1, <2>2, PlacesGo
  <2> QED BY <2>2, <2>3 DEF UnderWay
<1> QED BY <1>2, <1>3

LEMMA UnionBounded ==
  ASSUME NEW A, NEW B, NEW C, IsFiniteSet(A), IsFiniteSet(B), C \subseteq A \cup B
  PROVE  IsFiniteSet(C) /\ Cardinality(C) <= Cardinality(A) + Cardinality(B)
<1>1. IsFiniteSet(A \cup B) /\ Cardinality(A \cup B) = Cardinality(A) + Cardinality(B) - Cardinality(A \cap B)
  BY FS_Union
<1>2. IsFiniteSet(A \cap B)
  BY FS_Subset
<1>3. IsFiniteSet(C) /\ Cardinality(C) <= Cardinality(A \cup B)
  BY <1>1, FS_Subset
<1>4. {Cardinality(A), Cardinality(B), Cardinality(A \cap B), Cardinality(A \cup B), Cardinality(C)} \subseteq Nat
  BY <1>1, <1>2, <1>3, FS_CardinalityType
<1> HIDE DEF Cardinality
<1> QED BY <1>1, <1>3, <1>4

\* The sum covers the samples in the rollouter when it begins, those of the queue when it ends.
LEMMA SumCovers ==
  ASSUME SamplesInv
  PROVE  /\ Cardinality(UnderWay) <= ActiveTasks + Len(cancelQueue)
         /\ Cardinality(OffHand) <= Cardinality(UnderWay) + Len(queue)
         /\ Cardinality(Held) <= Cardinality(OffHand) + 1
         /\ {ActiveTasks, Len(cancelQueue), Len(queue)} \subseteq Nat
<1>1. RollTypeOK /\ cancelQueue \in Seq(Samples) /\ queue \in Seq(Items)
  BY Known DEF TypeOK, RollTypeOK, MQTypeOK
<1>2. /\ IsFiniteSet(Live) /\ Cardinality(Live) \in Nat /\ ActiveTasks \in Nat /\ Cardinality(Live) <= ActiveTasks
  BY <1>1, ActiveCounts
<1>3. /\ IsFiniteSet(SamplesOf(cancelQueue)) /\ Cardinality(SamplesOf(cancelQueue)) <= Len(cancelQueue)
      /\ Cardinality(SamplesOf(cancelQueue)) \in Nat /\ Len(cancelQueue) \in Nat
  BY <1>1, HeldInSequence
<1>4. /\ IsFiniteSet(SamplesOf(queue)) /\ Cardinality(SamplesOf(queue)) <= Len(queue)
      /\ Cardinality(SamplesOf(queue)) \in Nat /\ Len(queue) \in Nat
  BY <1>1, HeldInSequence
<1>5. UnderWay \subseteq Live \cup SamplesOf(cancelQueue)
  BY DEF UnderWay, OffHand, Held, place, InRollout, InTask, Live
<1>6. OffHand \subseteq UnderWay \cup SamplesOf(queue)
  BY DEF UnderWay, OffHand, Held, place
<1>7. Held \subseteq OffHand \cup {hand}
  BY DEF OffHand
<1>8. Cardinality(UnderWay) <= Cardinality(Live) + Cardinality(SamplesOf(cancelQueue))
  BY <1>2, <1>3, <1>5, UnionBounded
<1>9. Cardinality(OffHand) <= Cardinality(UnderWay) + Cardinality(SamplesOf(queue))
  BY <1>4, <1>6, UnionBounded, HeldFinite
<1>10. Cardinality(Held) <= Cardinality(OffHand) + 1
  BY <1>7, UnionBounded, HeldFinite, FS_Singleton
<1> HIDE DEF ActiveTasks, Live, SamplesOf, Held, OffHand, UnderWay
<1> QED BY <1>1, <1>2, <1>3, <1>4, <1>8, <1>9, <1>10, HeldFinite

\* Fewer are held, or one more.
LEMMA HeldCounted ==
  ASSUME SamplesInv, SamplesInv', [Next]_vars
  PROVE  /\ Cardinality(Held)' \in Nat /\ Cardinality(Held)' <= Cardinality(Held) + 1
         /\ ~ProcessorGets => Cardinality(Held)' <= Cardinality(Held)
<1>1. IsFiniteSet(Held) /\ Cardinality(Held) \in Nat
  BY HeldFinite
<1>2. IsFiniteSet({Head(pendingQueue)}) /\ Cardinality({Head(pendingQueue)}) = 1
  BY FS_Singleton
<1>3. Held' \subseteq Held \cup {Head(pendingQueue)}
  BY HeldSteps
<1>4. IsFiniteSet(Held') /\ Cardinality(Held') <= Cardinality(Held) + 1
  BY <1>1, <1>2, <1>3, UnionBounded
<1>5. ~ProcessorGets => Cardinality(Held') <= Cardinality(Held)
  BY <1>1, HeldSteps, FS_Subset
<1> QED BY <1>4, <1>5, FS_CardinalityType

LEMMA OffHandCounted ==
  ASSUME SamplesInv, SamplesInv', lockQueue # <<>>, Head(lockQueue) = Handler, [Next]_vars
  PROVE  /\ Cardinality(OffHand)' <= Cardinality(OffHand) /\ Cardinality(OffHand)' \in Nat
         /\ Cardinality(UnderWay)' <= Cardinality(UnderWay) /\ Cardinality(UnderWay)' \in Nat
<1>1. OffHand' \subseteq OffHand /\ UnderWay' \subseteq UnderWay
  BY OffHandSteps
<1>2. IsFiniteSet(OffHand') /\ Cardinality(OffHand') <= Cardinality(OffHand)
  BY <1>1, HeldFinite, FS_Subset
<1>3. IsFiniteSet(UnderWay') /\ Cardinality(UnderWay') <= Cardinality(UnderWay)
  BY <1>1, HeldFinite, FS_Subset
<1> QED BY <1>2, <1>3, FS_CardinalityType

LEMMA CounterInitial == Init => CounterInv
<1> SUFFICES ASSUME Init PROVE CounterInv
  OBVIOUS
<1>1. Held = {}
  BY PlaceInitial DEF Held
<1>2. Cardinality(Held) = 0
  BY <1>1, FS_EmptySet
<1>3. staleness = 0 /\ sync = "none" /\ processor = "top" /\ MaxRequiredSamples \in Nat
  BY Numbers DEF Init, RollInit
<1> HIDE DEF MaxRequiredSamples
<1> QED BY <1>2, <1>3 DEF CounterInv, HandlerHolds, Inside

LEMMA CounterNext == SamplesInv /\ SamplesInv' /\ CounterInv /\ [Next]_vars => CounterInv'
<1> SUFFICES ASSUME SamplesInv, SamplesInv', CounterInv, [Next]_vars PROVE CounterInv'
  OBVIOUS
<1> DEFINE h == Cardinality(Held)
           o == Cardinality(OffHand)
           u == Cardinality(UnderWay)
           m == MaxRequiredSamples
<1>1. /\ {h, o, u, h', m, staleness, staleness', syncSum, Len(queue), Len(cancelQueue), ActiveTasks} \subseteq Nat
      /\ h' <= h + 1 /\ (~ProcessorGets => h' <= h)
  BY HeldFinite, HeldCounted, SumCovers, Known, KnownNext, Numbers DEF TypeOK, RollTypeOK
<1>2. /\ HandlerHolds /\ h <= staleness + 1 /\ h <= m + 1 /\ (processor = "get" => h <= m)
      /\ sync = "sizing" => u <= syncSum
      /\ sync = "sized" => o <= syncSum
  BY DEF CounterInv
<1>3. CounterSteps
  BY CounterMoves
<1>4. ASSUME lockQueue # <<>>, Head(lockQueue) = Handler PROVE o' <= o /\ u' <= u /\ {o', u'} \subseteq Nat
  BY <1>4, OffHandCounted
<1>5. /\ u <= ActiveTasks + Len(cancelQueue) /\ o <= u + Len(queue) /\ h <= o + 1
  BY SumCovers
<1>6. ASSUME sync \in Inside PROVE lockQueue # <<>> /\ Head(lockQueue) = Handler
  BY <1>2, <1>6 DEF HandlerHolds
<1>7. HandlerHolds'
  BY <1>2, HandlerKeepsLock
<1>8. ProcessorGets => processor = "get" /\ staleness' = staleness + 1 /\ processor' = "drain"
  BY DEF ProcessorGets, ProcessorAt
<1>9. UpdateResets => sync = "sized" /\ staleness' = syncSum
  BY DEF UpdateResets, SyncOwns
<1>10. ProcessorAsksPending => staleness < m
  <2>1. ProcessorAsksPending => ~(staleness >= m)
    BY DEF ProcessorAsksPending, ShouldPause
  <2> HIDE DEF h, o, u, m
  <2> QED BY <1>1, <2>1
<1>11. UpdateBegins => lockQueue # <<>> /\ Head(lockQueue) = Handler /\ syncSum' = ActiveTasks + Len(cancelQueue)
  BY DEF UpdateBegins, SyncOwns, Owns, SumBegun
<1>12. QueueSizes => sync = "sizing" /\ syncSum' = syncSum + Len(queue)
  BY DEF QueueSizes, SumEnded
<1> HIDE DEF h, o, u, m
<1>13. h' <= staleness' + 1
  <2>0. {h, h', o, staleness, syncSum} \subseteq Nat /\ h <= staleness + 1 /\ h' <= h + 1
    BY <1>1, <1>2
  <2>1. CASE ProcessorGets
    <3>1. staleness' = staleness + 1
      BY <1>8, <2>1
    <3> QED BY <2>0, <3>1
  <2>2. CASE ~ProcessorGets /\ UpdateResets
    <3>1. staleness' = syncSum /\ o <= syncSum
      BY <1>2, <1>9, <2>2
    <3>2. h' <= h /\ h <= o + 1
      BY <1>1, <1>5, <2>2
    <3> QED BY <2>0, <3>1, <3>2
  <2>3. CASE ~ProcessorGets /\ staleness' = staleness
    <3>1. h' <= h
      BY <1>1, <2>3
    <3> QED BY <2>0, <2>3, <3>1
  <2> QED BY <1>3, <2>1, <2>2, <2>3 DEF CounterSteps
<1>14. h' <= m + 1
  BY <1>1, <1>2, <1>8
<1>15. ASSUME processor' = "get" PROVE h' <= m
  <2>1. ~ProcessorGets /\ h' <= h
    BY <1>1, <1>8, <1>15
  <2>2. CASE processor = "get"
    BY <1>1, <1>2, <2>1, <2>2
  <2>3. CASE ProcessorAsksPending
    BY <1>1, <1>2, <1>10, <2>1, <2>3
  <2> QED BY <1>3, <1>15, <2>2, <2>3 DEF CounterSteps
<1>16. ASSUME sync' = "sizing" PROVE u' <= syncSum'
  <2>0. {u, syncSum, ActiveTasks, Len(cancelQueue)} \subseteq Nat
    BY <1>1
  <2>1. CASE UNCHANGED <<sync, syncSum>>
    <3>1. u <= syncSum /\ syncSum' = syncSum
      BY <1>2, <1>16, <2>1
    <3>2. u' <= u /\ u' \in Nat
      BY <1>4, <1>6, <1>16, <2>1 DEF Inside
    <3> QED BY <2>0, <3>1, <3>2
  <2>2. CASE UpdateBegins
    <3>1. u' <= u /\ u' \in Nat /\ syncSum' = ActiveTasks + Len(cancelQueue)
      BY <1>4, <1>11, <2>2
    <3> QED BY <2>0, <1>5, <3>1
  <2> QED BY <1>3, <1>16, <2>1, <2>2 DEF CounterSteps
<1>17. ASSUME sync' = "sized" PROVE o' <= syncSum'
  <2>1. CASE UNCHANGED <<sync, syncSum>>
    <3>1. o <= syncSum /\ syncSum' = syncSum /\ {o, syncSum} \subseteq Nat
      BY <1>1, <1>2, <1>17, <2>1
    <3>2. o' <= o /\ o' \in Nat
      BY <1>4, <1>6, <1>17, <2>1 DEF Inside
    <3> QED BY <3>1, <3>2
  <2>2. CASE QueueSizes
    <3>1. o' <= o /\ o' \in Nat
      BY <1>4, <1>6, <1>12, <2>2 DEF Inside
    <3>2. u <= syncSum /\ syncSum' = syncSum + Len(queue)
      BY <1>2, <1>12, <2>2
    <3>3. {o, u, syncSum, Len(queue)} \subseteq Nat /\ o <= u + Len(queue)
      BY <1>1, <1>5
    <3> QED BY <3>1, <3>2, <3>3
  <2> QED BY <1>3, <1>17, <2>1, <2>2 DEF CounterSteps
<1> QED BY <1>7, <1>13, <1>14, <1>15, <1>16, <1>17 DEF CounterInv, h, o, u, m

\* Every sample is counted where it is, and once.
LEMMA HeldIsOutstanding ==
  ASSUME SamplesInv
  PROVE  Outstanding = Cardinality(Held)
<1> DEFINE A == InTask \cup ({hand} \cap Samples)
           B == SamplesOf(cancelQueue)
           C == SamplesOf(queue)
<1>1. /\ TypeOK /\ cancelQueue \in Seq(Samples) /\ queue \in Seq(Items) /\ pendingQueue \in Seq(Samples \cup {Done})
      /\ batch \in Seq(Samples)
  BY Known DEF TypeOK, RollTypeOK, MQTypeOK, TrainTypeOK
<1>2. ASSUME NEW s \in Samples
      PROVE  /\ {Occurrences(s, pendingQueue), Occurrences(s, cancelQueue), Occurrences(s, queue)} \subseteq Nat
             /\ {InSet(s, {hand}), InSet(s, InTask)} \subseteq {0, 1}
             /\ Occurrences(s, pendingQueue) + InSet(s, {hand}) + InSet(s, InTask) + Occurrences(s, cancelQueue)
                  + Occurrences(s, queue) <= 1
  <2>1. /\ Occurrences(s, pendingQueue) \in Nat /\ Occurrences(s, cancelQueue) \in Nat
        /\ Occurrences(s, queue) \in Nat /\ Occurrences(s, batch) \in Nat
        /\ InSet(s, {hand}) \in {0, 1} /\ InSet(s, InTask) \in {0, 1} /\ InSet(s, trained) \in {0, 1}
    BY <1>1, CopyTypes
  <2>2. Copies(s) <= 1
    BY Known, CopiesAre DEF CopiesBounded
  <2> QED BY <2>1, <2>2 DEF Copies
<1>3. ASSUME NEW s \in Samples
      PROVE  /\ Occurrences(s, pendingQueue) > 0 <=> s \in SamplesOf(pendingQueue)
             /\ Occurrences(s, cancelQueue) > 0 <=> s \in B
             /\ Occurrences(s, queue) > 0 <=> s \in C
             /\ InSet(s, {hand}) > 0 <=> s \in {hand}
             /\ InSet(s, InTask) > 0 <=> s \in InTask
  BY <1>1, InSamplesOf DEF InSet
<1>4. ASSUME NEW s \in Samples
      PROVE  /\ s \in Held <=> s \in A \cup B \cup C
             /\ ~(s \in A /\ s \in B) /\ ~(s \in A /\ s \in C) /\ ~(s \in B /\ s \in C)
  <2> DEFINE p == Occurrences(s, pendingQueue)
             c == Occurrences(s, cancelQueue)
             q == Occurrences(s, queue)
             n == InSet(s, {hand})
             t == InSet(s, InTask)
  <2>1. {p, c, q} \subseteq Nat /\ {n, t} \subseteq {0, 1} /\ p + n + t + c + q <= 1
    BY <1>2
  <2>2. /\ p > 0 <=> s \in SamplesOf(pendingQueue)
        /\ c > 0 <=> s \in B
        /\ q > 0 <=> s \in C
        /\ n > 0 \/ t > 0 <=> s \in A
    BY <1>3
  <2>3. s \in Held <=> (s \in InRollout \/ s \in C) /\ s \notin SamplesOf(pendingQueue)
    <3>1. s > fed => s \notin InRollout /\ s \notin C
      <4>1. s > fed => p = 0 /\ n = 0 /\ t = 0 /\ c = 0 /\ q = 0
        <5>1. s > fed => Copies(s) = 0
          BY CopiesAre DEF CopiesBounded
        <5>2. /\ Occurrences(s, batch) \in Nat /\ InSet(s, trained) \in {0, 1}
          BY <1>1, CopyTypes
        <5>3. Copies(s) = p + n + t + c + q + Occurrences(s, batch) + InSet(s, trained)
          BY DEF Copies
        <5>4. p \in Nat /\ c \in Nat /\ q \in Nat /\ n \in Nat /\ t \in Nat
          BY <2>1
        <5> HIDE DEF p, n, t, c, q
        <5> DEFINE b == Occurrences(s, batch)
                   r == InSet(s, trained)
        <5>5. b \in Nat /\ r \in Nat /\ Copies(s) = p + n + t + c + q + b + r
          BY <5>2, <5>3
        <5> HIDE DEF b, r
        <5> QED BY <5>1, <5>4, <5>5
      <4> QED BY <2>2, <4>1 DEF InRollout
    <3> QED BY <3>1 DEF Held, place
  <2>4. s \in InRollout <=> s \in SamplesOf(pendingQueue) \/ s \in A \/ s \in B
    BY DEF InRollout
  <2> HIDE DEF A, B, C, p, c, q, n, t
  <2> QED BY <2>1, <2>2, <2>3, <2>4
<1>5. Held = A \cup B \cup C /\ A \cap B = {} /\ (A \cup B) \cap C = {}
  <2>1. A \subseteq Samples /\ B \subseteq Samples /\ C \subseteq Samples /\ Held \subseteq Samples
    BY DEF InTask, SamplesOf, Held
  <2> HIDE DEF A, B, C
  <2> QED BY <1>4, <2>1
<1>6. IsFiniteSet(A) /\ IsFiniteSet(B) /\ IsFiniteSet(C)
  <2>1. A \subseteq Samples /\ B \subseteq Samples /\ C \subseteq Samples
    BY DEF InTask, SamplesOf
  <2> QED BY <2>1, Numbers, FS_Subset
<1>7. Len(cancelQueue) = Cardinality(B)
  <2>1. \A s \in Samples : Occurrences(s, cancelQueue) <= 1
    BY <1>2
  <2>2. Cardinality({cancelQueue[i] : i \in 1..Len(cancelQueue)}) = Len(cancelQueue)
    BY <1>1, <2>1, Distinct
  <2>3. B = {cancelQueue[i] : i \in 1..Len(cancelQueue)}
    BY <1>1 DEF SamplesOf
  <2> QED BY <2>2, <2>3
<1>8. Outstanding = Cardinality(A) + Len(cancelQueue) + Cardinality(C)
  BY DEF Outstanding
<1> HIDE DEF A, B, C
<1>9. IsFiniteSet(A \cup B) /\ Cardinality(A \cup B) = Cardinality(A) + Cardinality(B)
  <2>1. Cardinality(A \cup B) = Cardinality(A) + Cardinality(B) - Cardinality(A \cap B) /\ IsFiniteSet(A \cup B)
    BY <1>6, FS_Union
  <2>2. Cardinality(A \cap B) = 0 /\ Cardinality(A) \in Nat /\ Cardinality(B) \in Nat
    BY <1>5, <1>6, FS_EmptySet, FS_CardinalityType
  <2> QED BY <2>1, <2>2
<1>10. Cardinality(Held) = Cardinality(A \cup B) + Cardinality(C)
  <2>1. Cardinality((A \cup B) \cup C) = Cardinality(A \cup B) + Cardinality(C) - Cardinality((A \cup B) \cap C)
    BY <1>6, <1>9, FS_Union
  <2>2. Cardinality((A \cup B) \cap C) = 0 /\ Cardinality(A \cup B) \in Nat /\ Cardinality(C) \in Nat
    BY <1>5, <1>6, <1>9, FS_EmptySet, FS_CardinalityType
  <2> QED BY <1>5, <2>1, <2>2
<1> QED BY <1>7, <1>8, <1>9, <1>10

\* The freshness counter misses at most the sample the processor holds: the sum that resets it reads
\* active_tasks and cancel_queue before the queue's size and while the processor may already hold a
\* sample (fully_async_rollouter.py:216), but the handler has the lock, so nothing it read grows; and
\* the processor asks for one more only below the limit.  So the samples taken from the feeder and not
\* yet fetched never exceed (1 + staleness_threshold) * trigger * required by more than one.
THEOREM CounterMissesOne == Spec => []CounterCovers
<1>1. Spec => []SamplesInv
  BY SamplesInvariance
<1>2. Spec => []CounterInv
  BY <1>1, CounterInitial, CounterNext, PTL DEF Spec
<1>3. SamplesInv /\ CounterInv => CounterCovers
  BY HeldIsOutstanding DEF CounterInv, CounterCovers
<1> QED BY <1>1, <1>2, <1>3, PTL
-----------------------------------------------------------------------------
(* The processor's first wait. *)

\* pending_queue holds more samples than tasks may run, or than may be under way: 128 of them, for
\* fewer than eight servers or a limit of at most 128.
QueueHoldsMore == PendingSize > MaxConcurrent \/ PendingSize >= MaxRequiredSamples

\* Until the processor first waits for a task, no task has begun to run and nobody has called.
Fresh ==
    /\ trainer = "collect" /\ sync = "none" /\ main = "streaming" /\ queue = <<>> /\ cancelQueue = <<>>
    /\ finishedTasks = 0 /\ \A s \in Samples : task[s] \in {"none", "created"}

\* First the monitor runs, then the feeder until pending_queue is full, then the processor.
BeforeProc ==
    /\ Fresh /\ processor = "top" /\ staleness = 0 /\ ~paused /\ feeder # "ended"
    /\ fed < PendingSize /\ Len(pendingQueue) = fed
    /\ (feeder = "closing" => fed > 0) /\ (pendingQueue # <<>> => Head(pendingQueue) # Done)

MonStarts ==
    /\ BeforeProc /\ rollRunning /\ Len(ready) >= 3 /\ ready[1] = Mon /\ ready[2] = Feeder /\ ready[3] = Proc
    /\ (monitor = "check" /\ Len(lockQueue) = 0) \/ (monitor = "checking" /\ Len(lockQueue) = 1)

FeederStarts ==
    /\ BeforeProc /\ Len(ready) >= 2 /\ ready[1] = Feeder /\ ready[2] = Proc /\ Len(lockQueue) = 0

\* What the processor has taken so far, and what it will find.
Stocked ==
    /\ staleness = 0 => pendingQueue # <<>> /\ Head(pendingQueue) # Done
    /\ \/ pendingQueue # <<>> /\ pendingQueue[Len(pendingQueue)] = Done
       \/ Len(pendingQueue) + staleness >= PendingSize
    /\ staleness <= ActiveTasks \/ (hand # None /\ staleness <= ActiveTasks + 1)

ProcStarts ==
    /\ Fresh /\ Len(ready) >= 1 /\ ready[1] = Proc
    /\ Len(lockQueue) = IF processor \in {"pausing", "drainLock", "submit"} THEN 1 ELSE 0
    /\ \/ processor \in {"top", "get"} /\ ~paused /\ Stocked /\ (processor = "get" => pendingQueue # <<>>)
       \/ processor \in {"drain", "submit"} /\ drainFor = "capacity" /\ ~paused /\ Stocked
       \/ processor = "drain" /\ drainFor \in {"pause", "done"} /\ ActiveTasks > 0
       \/ processor \in {"pausing", "drainLock"} /\ ActiveTasks > 0

StartInv == everReaped \/ processor = "drainWait" \/ MonStarts \/ FeederStarts \/ ProcStarts

\* Only the processor changes these, and only ProcessorReaps ends its first wait.
LEMMA ReapedMoves ==
  ASSUME [Next]_vars
  PROVE  everReaped' = everReaped \/ ProcessorReaps
<1>1. CASE Processor
  BY <1>1 DEF Processor, ProcessorSeesPause, ProcessorPauses, ProcessorTakesCancelled, ProcessorAsksPending,
        ProcessorGets, ProcessorDrains, ProcessorDrained, ProcessorAwaitsTask, ProcessorFindsNoTask,
        ProcessorSleeps, ProcessorWakes, ProcessorLeavesPause, ProcessorSubmits, ProcessorGoes
<1>2. CASE RollNext /\ ~Processor
  BY <1>2 DEF RollNext, LoopRuns, FeederPuts, FeederEnds, FeederDoes, TaskSteps, Monitor, Main, MainOnly, Sync,
        TaskEnvironment, ServersTake, ServersAnswer, QueueTakes, QueueAnswers, ServersFail, TaskOutside,
        MonitorTimer, QueueTakesNone, SyncEnvironment, ServersCancel, ServersResume, QueueSizes,
        QueueTakesValidate, SyncArrives, SyncOutside, procVars
<1>3. CASE TrainNext \/ RunnerEnds \/ Terminated \/ UNCHANGED vars
  BY <1>3 DEF TrainNext, CollectWaits, CollectTakes, CollectStops, Trains, CallsPause, TransferBegins, TransferEnds,
      Logs, Finishes, FinishesSync, RollouterButSync, RunnerEnds, Terminated, vars, rollVars, procVars
<1> QED BY <1>1, <1>2, <1>3 DEF Next

LEMMA ProcMoves ==
  ASSUME [Next]_vars
  PROVE  UNCHANGED procVars \/ Processor
<1>2. CASE RollNext
  BY <1>2 DEF RollNext, LoopRuns, FeederPuts, FeederEnds, FeederDoes, TaskSteps, Monitor, Main, MainOnly, Sync,
        TaskEnvironment, ServersTake, ServersAnswer, QueueTakes, QueueAnswers, ServersFail, TaskOutside,
        MonitorTimer, QueueTakesNone, SyncEnvironment, ServersCancel, ServersResume, QueueSizes,
        QueueTakesValidate, SyncArrives, SyncOutside
<1>3. CASE TrainNext \/ RunnerEnds \/ Terminated \/ UNCHANGED vars
  BY <1>3 DEF TrainNext, CollectWaits, CollectTakes, CollectStops, Trains, CallsPause, TransferBegins, TransferEnds,
      Logs, Finishes, FinishesSync, RollouterButSync, RunnerEnds, Terminated, vars, rollVars
<1> QED BY <1>2, <1>3 DEF Next

\* What may happen before a task runs or a call comes.
Still == UNCHANGED <<flagVars, feedVars, procVars, task, finishedTasks, queue, cancelQueue, staleness, sync,
                     monitor, main, trainer>>

LEMMA FreshSteps ==
  ASSUME TypeOK, Fresh, ready # <<>>, Head(ready) \in {Mon, Feeder, Proc}, [Next]_vars
  PROVE  \/ Still /\ lockQueue' = lockQueue /\ (ready' = ready \/ Wake(Mon))
         \/ Head(ready) = Mon /\ Monitor /\ trainer' = trainer
         \/ Head(ready) = Feeder /\ (FeederPuts \/ FeederEnds) /\ trainer' = trainer
         \/ Head(ready) = Proc /\ Processor /\ trainer' = trainer
<1>1. /\ Proc # Feeder /\ Proc # Mon /\ Mon # Feeder
      /\ \A c \in {Mon, Feeder, Proc} : c # Handler /\ c # MainRoutine /\ \A s \in Samples : c # TaskOf(s)
  BY DEF Proc, Feeder, Mon, MainRoutine, Handler, TaskOf
<1>2. \A c : Runs(c) => c \in {Mon, Feeder, Proc} /\ c = Head(ready)
  BY DEF Runs
<1>3. CASE RollNext /\ Others
  <2>0. trainer' = trainer
    BY <1>3 DEF Others, trainVars
  <2>1. CASE FeederPuts \/ FeederEnds
    BY <1>2, <2>0, <2>1 DEF FeederPuts, FeederEnds, FeederDoes
  <2>2. CASE Processor
    BY <1>2, <2>0, <2>2 DEF Processor, ProcessorSeesPause, ProcessorPauses, ProcessorTakesCancelled, ProcessorAsksPending,
        ProcessorGets, ProcessorDrains, ProcessorDrained, ProcessorAwaitsTask, ProcessorFindsNoTask, ProcessorReaps,
        ProcessorSleeps, ProcessorWakes, ProcessorLeavesPause, ProcessorSubmits, ProcessorAt, ProcessorOwns, Owns
  <2>3. CASE Monitor
    BY <1>2, <2>0, <2>3 DEF Monitor, MonitorStarts, MonitorChecks, MonitorWakes, MonitorUnpauses, Owns
  <2>4. ~TaskSteps /\ ~Main /\ ~Sync
    <3>1. ~TaskSteps
      BY <1>1, <1>2 DEF TaskSteps, TaskStarts, TaskSends, TaskEnds, TaskAt
    <3>2. ~Main
      BY <1>1, <1>2 DEF Main, MainSends, MainLocks, MainStops, Owns
    <3>3. ~Sync
      BY <1>1, <1>2 DEF Sync, CallLocks, PauseBegins, PauseGathers, PauseEnds, UpdateBegins, UpdateResets,
        UpdateEnds, ResumeAsksServers, ResumeEnds, SyncOwns, Owns
    <3> QED BY <3>1, <3>2, <3>3
  <2>5. ~TaskEnvironment /\ \A s \in Samples : ~ServersFail(s)
    <3>1. \A s \in Samples : task[s] \in {"none", "created"}
      BY DEF Fresh
    <3> QED BY <3>1 DEF TaskEnvironment, ServersTake, ServersAnswer, QueueTakes, QueueAnswers, ServersFail
  <2>6. ~QueueTakesNone /\ ~SyncEnvironment
    BY DEF Fresh, QueueTakesNone, SyncEnvironment, ServersCancel, ServersResume, QueueSizes, QueueTakesValidate,
           SyncArrives
  <2>7. CASE MonitorTimer
    BY <2>0, <2>7 DEF MonitorTimer, Still, taskVars, mqVars, syncVars
  <2> QED BY <1>3, <2>1, <2>2, <2>3, <2>4, <2>5, <2>6, <2>7 DEF RollNext, LoopRuns
<1>4. CASE TrainNext \/ RunnerEnds \/ Terminated \/ UNCHANGED vars
  <2>1. ~RunnerEnds
    BY DEF RunnerEnds, RollouterEnded, Fresh
  <2>2. ~CollectTakes /\ ~CollectStops
    BY DEF CollectTakes, CollectStops, GetSampleReturns, Fresh
  <2>3. CASE CollectWaits
    BY <2>3 DEF CollectWaits, GetSampleWaits, Still, rollVars, trainVars, loopVars, taskVars, syncVars
  <2>4. CASE TrainNext /\ ~CollectWaits
    BY <2>2, <2>4 DEF TrainNext, Trains, CallsPause, TransferBegins, TransferEnds, Logs, Finishes, FinishesSync, Fresh
  <2>5. CASE Terminated \/ UNCHANGED vars
    BY <2>5 DEF Terminated, vars, Still, rollVars, trainVars, loopVars, taskVars, syncVars, mqVars
  <2> QED BY <1>4, <2>1, <2>3, <2>4, <2>5
<1> QED BY <1>3, <1>4 DEF Next, vars

\* How the line of ready coroutines moves: those that wait in it only get nearer to its head.
LEMMA LineGrows ==
  ASSUME LoopTypes, NEW w \in Seq(Coroutines), Continue(w)
  PROVE  ready' \in Seq(Coroutines) /\ Len(ready') >= Len(ready) /\ \A i \in 1..Len(ready) : ready'[i] = ready[i]
<1>1. ready \in Seq(Coroutines) /\ ready' = ready \o w /\ Len(ready) \in Nat /\ Len(w) \in Nat
  BY LenProperties DEF LoopTypes, Continue
<1>2. ready' \in Seq(Coroutines) /\ Len(ready') = Len(ready) + Len(w)
      /\ \A i \in 1..(Len(ready) + Len(w)) : ready'[i] = IF i <= Len(ready) THEN ready[i] ELSE w[i - Len(ready)]
  BY <1>1, ConcatProperties
<1> QED BY <1>1, <1>2

LEMMA LineMoves ==
  ASSUME LoopTypes, NEW w \in Seq(Coroutines), Suspend(w), Len(ready) >= 1
  PROVE  /\ ready' \in Seq(Coroutines) /\ Len(ready') >= Len(ready) - 1
         /\ \A i \in 1..(Len(ready) - 1) : ready'[i] = ready[i + 1]
<1>1. ready \in Seq(Coroutines) /\ ready # <<>> /\ ready' = Tail(ready) \o w /\ Len(ready) \in Nat /\ Len(w) \in Nat
  BY LenProperties, EmptySeq DEF LoopTypes, Suspend
<1>2. Tail(ready) \in Seq(Coroutines) /\ Len(Tail(ready)) = Len(ready) - 1
      /\ \A i \in 1..Len(Tail(ready)) : Tail(ready)[i] = ready[i + 1]
  BY <1>1, HeadTailProperties
<1>3. ready' \in Seq(Coroutines) /\ Len(ready') = Len(Tail(ready)) + Len(w)
      /\ \A i \in 1..(Len(Tail(ready)) + Len(w)) :
            ready'[i] = IF i <= Len(Tail(ready)) THEN Tail(ready)[i] ELSE w[i - Len(Tail(ready))]
  BY <1>1, <1>2, ConcatProperties
<1> QED BY <1>1, <1>2, <1>3

LEMMA LineLengthens ==
  ASSUME LoopTypes, NEW d \in Coroutines, Wake(d)
  PROVE  ready' \in Seq(Coroutines) /\ Len(ready') >= Len(ready) /\ \A i \in 1..Len(ready) : ready'[i] = ready[i]
<1>1. ready \in Seq(Coroutines) /\ ready' = Append(ready, d) /\ Len(ready) \in Nat
  BY LenProperties DEF LoopTypes, Wake
<1> QED BY <1>1, AppendProperties

\* A free lock is taken at once; its only owner gives it up to nobody.
LEMMA TakesFreeLock ==
  ASSUME LoopTypes, NEW d \in LockUsers, Len(lockQueue) = 0, Acquire(d)
  PROVE  Len(lockQueue') = 1 /\ Continue(<<>>)
<1>1. lockQueue \in Seq(LockUsers) /\ lockQueue = <<>>
  BY EmptySeq DEF LoopTypes
<1>2. Len(Append(lockQueue, d)) = Len(lockQueue) + 1
  BY <1>1, AppendProperties
<1> QED BY <1>1, <1>2 DEF Acquire

LEMMA GivesUpAlone ==
  ASSUME LoopTypes, Len(lockQueue) = 1, lockQueue' = Tail(lockQueue), NEW w \in Seq(Coroutines)
  PROVE  Len(lockQueue') = 0 /\ w \o NextOwner \in Seq(Coroutines)
<1>0. lockQueue \in Seq(LockUsers) /\ Len(lockQueue) > 0
  BY DEF LoopTypes
<1>1. lockQueue # <<>>
  BY <1>0, EmptySeq
<1>2. Len(lockQueue') = 0
  BY <1>0, <1>1, HeadTailProperties
<1>3. NextOwner \in Seq(Coroutines)
  BY <1>0, <1>1, NextOwnerCounts
<1> QED BY <1>2, <1>3, ConcatProperties

LEMMA BeforeKeeps ==
  ASSUME BeforeProc, UNCHANGED <<trainer, sync, main, queue, cancelQueue, finishedTasks, task, processor, staleness,
                                 paused, feeder, fed, pendingQueue>>
  PROVE  BeforeProc'
  BY DEF BeforeProc, Fresh

LEMMA StartMon ==
  ASSUME RollInv, MonStarts, [Next]_vars
  PROVE  StartInv'
<1>1. LoopTypes /\ TypeOK /\ Mon \in LockUsers /\ Mon \in Coroutines /\ Mon # Proc /\ Mon # Feeder
  BY LoopTyped DEF RollInv, TypeOK, LockUsers, Coroutines, Mon, Proc, Feeder
<1>2. /\ BeforeProc /\ Fresh /\ rollRunning /\ Len(ready) >= 3 /\ Len(ready) \in Nat
      /\ ready[1] = Mon /\ ready[2] = Feeder /\ ready[3] = Proc
  BY <1>1, LenProperties DEF MonStarts, BeforeProc, LoopTypes
<1>3. ready # <<>> /\ Head(ready) = Mon
  BY <1>1, <1>2, EmptySeq DEF LoopTypes
<1>4. <<>> \in Seq(Coroutines)
  BY EmptySeq
<1>7. 1 \in 1..Len(ready) /\ 2 \in 1..Len(ready) /\ 3 \in 1..Len(ready)
  BY <1>2
<1>5. CASE Still /\ lockQueue' = lockQueue /\ (ready' = ready \/ Wake(Mon))
  <2>1. BeforeProc'
    BY <1>2, <1>5, BeforeKeeps DEF Still, procVars, feedVars, flagVars
  <2>2. Len(ready') >= 3 /\ ready'[1] = Mon /\ ready'[2] = Feeder /\ ready'[3] = Proc
    <3>1. CASE Wake(Mon)
      <4>1. ready' \in Seq(Coroutines) /\ Len(ready') >= Len(ready) /\ \A i \in 1..Len(ready) : ready'[i] = ready[i]
        BY <1>1, <3>1, LineLengthens
      <4>2. Len(ready') \in Nat
        BY <4>1, LenProperties
      <4> QED BY <1>2, <1>7, <4>1, <4>2
    <3> QED BY <1>2, <1>5, <3>1
  <2>3. rollRunning' = rollRunning /\ monitor' = monitor
    BY <1>5 DEF Still, flagVars
  <2>4. Len(lockQueue') = Len(lockQueue)
    BY <1>5
  <2> QED BY <1>2, <2>1, <2>2, <2>3, <2>4 DEF MonStarts, StartInv
<1>6. CASE Monitor /\ trainer' = trainer
  <2>1. CASE MonitorStarts
    <3>1. BeforeProc' /\ rollRunning' /\ monitor' = "checking"
      BY <1>2, <1>6, <2>1, BeforeKeeps DEF Monitor, MonitorStarts, procVars, feedVars, taskVars, syncVars, mqVars
    <3>2. Len(lockQueue) = 0 /\ Acquire(Mon)
      BY <2>1 DEF MonitorStarts, MonStarts
    <3>3. Len(lockQueue') = 1 /\ Continue(<<>>)
      BY <1>1, <3>2, TakesFreeLock
    <3>4. ready' \in Seq(Coroutines) /\ Len(ready') >= Len(ready) /\ \A i \in 1..Len(ready) : ready'[i] = ready[i]
      BY <1>1, <1>4, <3>3, LineGrows
    <3>5. Len(ready') >= 3 /\ ready'[1] = Mon /\ ready'[2] = Feeder /\ ready'[3] = Proc
      BY <1>2, <1>7, <3>4, LenProperties
    <3> QED BY <3>1, <3>3, <3>5 DEF MonStarts, StartInv
  <2>2. CASE MonitorChecks
    <3>1. BeforeProc'
      BY <1>2, <1>6, <2>2, BeforeKeeps DEF Monitor, MonitorChecks, procVars, feedVars, taskVars, syncVars, mqVars
    <3>2. Len(lockQueue) = 1 /\ lockQueue' = Tail(lockQueue) /\ Suspend(<<>> \o NextOwner)
      BY <2>2 DEF MonitorChecks, MonStarts, ReleaseSuspend
    <3>3. Len(lockQueue') = 0 /\ <<>> \o NextOwner \in Seq(Coroutines)
      BY <1>1, <1>4, <3>2, GivesUpAlone
    <3>4. Len(ready') >= 2 /\ ready'[1] = Feeder /\ ready'[2] = Proc
      BY <1>1, <1>2, <3>2, <3>3, LineMoves
    <3> QED BY <3>1, <3>3, <3>4 DEF FeederStarts, StartInv
  <2> QED BY <1>6, <2>1, <2>2 DEF Monitor, MonitorWakes, MonitorUnpauses, MonStarts
<1> QED BY <1>1, <1>2, <1>3, <1>5, <1>6, FreshSteps

LEMMA StartFeeder ==
  ASSUME RollInv, FeederStarts, [Next]_vars
  PROVE  StartInv'
<1>1. LoopTypes /\ TypeOK /\ Mon \in Coroutines /\ Feeder # Mon /\ Feeder # Proc
  BY LoopTyped DEF RollInv, TypeOK, Coroutines, LockUsers, Mon, Proc, Feeder
<1>2. /\ BeforeProc /\ Fresh /\ Len(ready) >= 2 /\ Len(ready) \in Nat
      /\ ready[1] = Feeder /\ ready[2] = Proc /\ Len(lockQueue) = 0
  BY <1>1, LenProperties DEF FeederStarts, BeforeProc, LoopTypes
<1>3. ready # <<>> /\ Head(ready) = Feeder
  BY <1>1, <1>2, EmptySeq DEF LoopTypes
<1>4. <<>> \in Seq(Coroutines) /\ 1 \in 1..Len(ready) /\ 2 \in 1..Len(ready) /\ 1 \in 1..(Len(ready) - 1)
  BY <1>2, EmptySeq
<1>5. CASE Still /\ lockQueue' = lockQueue /\ (ready' = ready \/ Wake(Mon))
  <2>1. BeforeProc'
    BY <1>2, <1>5, BeforeKeeps DEF Still, procVars, feedVars, flagVars
  <2>2. Len(ready') >= 2 /\ ready'[1] = Feeder /\ ready'[2] = Proc
    <3>1. CASE Wake(Mon)
      <4>1. ready' \in Seq(Coroutines) /\ Len(ready') >= Len(ready) /\ \A i \in 1..Len(ready) : ready'[i] = ready[i]
        BY <1>1, <3>1, LineLengthens
      <4> QED BY <1>2, <1>4, <4>1, LenProperties
    <3> QED BY <1>2, <1>5, <3>1
  <2> QED BY <1>2, <1>5, <2>1, <2>2 DEF FeederStarts, StartInv
<1>6. CASE (FeederPuts \/ FeederEnds) /\ trainer' = trainer
  <2>1. PICK item : /\ FeederDoes(item)
                    /\ \/ FeederPuts /\ item = fed + 1
                       \/ FeederEnds /\ item = Done
    BY <1>6 DEF FeederPuts, FeederEnds
  <2>2. fed \in Nat /\ pendingQueue \in Seq(Samples \cup {Done}) /\ PendingSize \in Nat /\ PendingSize > 1
    BY <1>1, Numbers DEF TypeOK, RollTypeOK
  <2>3. item \in Samples \cup {Done}
    BY <2>1, <2>2, Numbers DEF RollInv, FeedInv, FeederPuts
  <2>4. /\ pendingQueue' \in Seq(Samples \cup {Done}) /\ Len(pendingQueue') = fed + 1
        /\ pendingQueue'[fed + 1] = item /\ \A i \in 1..fed : pendingQueue'[i] = pendingQueue[i]
    BY <1>2, <2>1, <2>2, <2>3, AppendProperties DEF FeederDoes, BeforeProc
  <2>5. pendingQueue' # <<>> /\ Head(pendingQueue') # Done
    <3>1. pendingQueue' # <<>> /\ Head(pendingQueue') = pendingQueue'[1]
      BY <2>2, <2>4, EmptySeq
    <3>2. CASE fed = 0
      <4>1. item = fed + 1 /\ FeederPuts
        BY <1>2, <2>1, <3>2 DEF BeforeProc, FeederEnds
      <4>2. item \in Samples
        BY <4>1, Numbers, <3>2
      <4> QED BY <2>4, <3>1, <3>2, <4>2, Numbers
    <3>3. CASE fed > 0
      <4>1. pendingQueue # <<>> /\ Head(pendingQueue) = pendingQueue[1]
        BY <1>2, <2>2, <3>3, EmptySeq DEF BeforeProc
      <4>2. 1 \in 1..fed
        BY <2>2, <3>3
      <4> QED BY <1>2, <2>4, <3>1, <4>1, <4>2 DEF BeforeProc
    <3> QED BY <2>2, <3>2, <3>3
  <2>6. Fresh' /\ processor' = "top" /\ staleness' = 0 /\ ~paused' /\ lockQueue' = lockQueue /\ hand' = hand
    BY <1>2, <1>6, <2>1 DEF FeederDoes, BeforeProc, Fresh, procVars, flagVars, taskVars, syncVars, mqVars
  <2>7. CASE Len(pendingQueue') < PendingSize /\ item # Done
    <3>1. FeederPuts /\ item = fed + 1
      BY <2>1, <2>7
    <3>2. feeder' \in {"feeding", "closing"} /\ fed' = fed + 1
      BY <3>1 DEF FeederPuts
    <3>3. BeforeProc'
      BY <2>2, <2>4, <2>5, <2>6, <2>7, <3>2 DEF BeforeProc
    <3>4. Continue(<<>>)
      BY <1>2, <2>1, <2>7 DEF FeederDoes, BeforeProc, Wakes
    <3>5. ready' \in Seq(Coroutines) /\ Len(ready') >= Len(ready) /\ \A i \in 1..Len(ready) : ready'[i] = ready[i]
      BY <1>1, <1>4, <3>4, LineGrows
    <3>6. Len(ready') >= 2 /\ ready'[1] = Feeder /\ ready'[2] = Proc
      BY <1>2, <1>4, <3>5, LenProperties
    <3> QED BY <1>2, <2>6, <3>3, <3>6 DEF FeederStarts, StartInv
  <2>8. CASE ~(Len(pendingQueue') < PendingSize /\ item # Done)
    <3>1. Suspend(<<>>)
      BY <1>2, <2>1, <2>8 DEF FeederDoes, BeforeProc, Wakes
    <3>2. /\ ready' \in Seq(Coroutines) /\ Len(ready') >= Len(ready) - 1
          /\ \A i \in 1..(Len(ready) - 1) : ready'[i] = ready[i + 1]
      <4>1. Len(ready) >= 1 /\ <<>> \in Seq(Coroutines)
        BY <1>2, <1>4
      <4> QED BY <1>1, <3>1, <4>1, LineMoves
    <3>3. Len(ready') >= 1 /\ ready'[1] = Proc
      BY <1>2, <1>4, <3>2, LenProperties
    <3>4. ActiveTasks' \in Nat
      <4>1. ActiveTasks \in Nat
        BY <1>1, ActiveCounts DEF TypeOK
      <4>2. UNCHANGED taskVars
        BY <2>1 DEF FeederDoes
      <4> QED BY <4>1, <4>2 DEF ActiveTasks, Live, taskVars
    <3>5. pendingQueue'[Len(pendingQueue')] = Done \/ Len(pendingQueue') + staleness' >= PendingSize
      BY <2>2, <2>4, <2>6, <2>8
    <3>6. staleness' <= ActiveTasks'
      BY <2>6, <3>4
    <3>7. Stocked'
      BY <2>5, <3>5, <3>6 DEF Stocked
    <3> QED BY <1>2, <2>6, <3>3, <3>7 DEF ProcStarts, StartInv
  <2> QED BY <2>7, <2>8
<1> QED BY <1>1, <1>2, <1>3, <1>5, <1>6, FreshSteps

\* The sample the processor submits has no task yet.
LEMMA SubmitsOne ==
  ASSUME SamplesInv, Fresh, ProcessorSubmits
  PROVE  hand \in Samples /\ ActiveTasks' = ActiveTasks + 1
<1>1. TypeOK /\ RollInv /\ ExactlyOnce
  BY DEF SamplesInv, RollInv
<1>2. hand \in Samples
  BY <1>1 DEF RollInv, HandInv, Holding, ProcessorSubmits, ProcessorOwns, TypeOK, RollTypeOK, Items
<1>3. task[hand] = "none"
  <2>1. Copies(hand) \in Nat => Copies(hand) <= 1
    <3>1. Copies(hand) <= IF hand <= fed THEN 1 ELSE 0
      BY <1>1, <1>2 DEF ExactlyOnce
    <3>2. CASE hand <= fed
      BY <3>1, <3>2
    <3>3. CASE ~(hand <= fed)
      BY <3>1, <3>3
    <3> QED BY <3>2, <3>3
  <2>2. InSet(hand, {hand}) = 1 /\ InSet(hand, InTask) = IF task[hand] \in Going THEN 1 ELSE 0
    BY <1>1, <1>2, CopyTypes DEF InSet
  <2>3. Copies(hand) = Made(hand) + Out(hand) /\ Out(hand) \in Nat /\ Made(hand) \in Nat
        /\ Occurrences(hand, pendingQueue) \in Nat /\ Occurrences(hand, cancelQueue) \in Nat
    BY <1>1, <1>2, CopyTypes
  <2>4. task[hand] \notin Going
    BY <2>1, <2>2, <2>3 DEF Made
  <2> QED BY <1>2, <2>4 DEF Fresh, Going
<1>4. Live' = Live \cup {hand} /\ hand \notin Live /\ finishedTasks' = finishedTasks
  BY <1>1, <1>2, <1>3 DEF ProcessorSubmits, Live, TypeOK, RollTypeOK
<1>5. IsFiniteSet(Live) /\ Cardinality(Live) \in Nat /\ finishedTasks \in Nat
  BY <1>1, ActiveCounts DEF TypeOK
<1> HIDE DEF Live
<1>6. Cardinality(Live \cup {hand}) = Cardinality(Live) + 1
  BY <1>4, <1>5, FS_AddElement
<1> QED BY <1>2, <1>4, <1>5, <1>6 DEF ActiveTasks

\* The processor goes on at the head of the line.
LEMMA ProcGoesOn ==
  ASSUME LoopTypes, Len(ready) >= 1, ready[1] = Proc, NEW w \in Seq(Coroutines), Continue(w)
  PROVE  Len(ready') >= 1 /\ ready'[1] = Proc
<1>1. ready' \in Seq(Coroutines) /\ Len(ready') >= Len(ready) /\ \A i \in 1..Len(ready) : ready'[i] = ready[i]
  BY LineGrows
<1>2. Len(ready) \in Nat /\ Len(ready') \in Nat
  BY <1>1, LenProperties DEF LoopTypes
<1>3. 1 \in 1..Len(ready)
  BY <1>2
<1> QED BY <1>1, <1>2, <1>3

LEMMA FreshKeeps ==
  ASSUME Fresh, Processor, trainer' = trainer, cancelQueue' = cancelQueue, UNCHANGED <<task, finishedTasks>>
  PROVE  Fresh' /\ ActiveTasks' = ActiveTasks
  BY DEF Fresh, Processor, mqVars, syncVars, ActiveTasks, Live

\* It asks for a sample only while one is there.
LEMMA FindsSample ==
  ASSUME RollInv, QueueHoldsMore, Stocked, hand = None, staleness < MaxRequiredSamples
  PROVE  pendingQueue # <<>>
<1>1. /\ staleness \in Nat /\ ActiveTasks \in Nat /\ ActiveTasks <= MaxConcurrent /\ PendingSize \in Nat
      /\ MaxConcurrent \in Nat /\ MaxRequiredSamples \in Nat /\ MaxConcurrent <= MaxRequiredSamples
  BY Numbers, ActiveCounts DEF RollInv, Room, TypeOK, RollTypeOK
<1> HIDE DEF MaxConcurrent, MaxRequiredSamples, ActiveTasks
<1>2. SUFFICES ASSUME pendingQueue = <<>> PROVE FALSE
  OBVIOUS
<1>3. Len(pendingQueue) = 0
  BY <1>2
<1>4. staleness >= PendingSize /\ staleness <= ActiveTasks
  BY <1>1, <1>2, <1>3 DEF Stocked
<1> QED BY <1>1, <1>4 DEF QueueHoldsMore

LEMMA StartTop ==
  ASSUME RollInv, QueueHoldsMore, ProcStarts, Processor, trainer' = trainer,
         ProcessorSeesPause \/ ProcessorPauses \/ ProcessorTakesCancelled \/ ProcessorAsksPending
  PROVE  ProcStarts'
<1>1. LoopTypes /\ RollTypeOK /\ Proc \in LockUsers /\ <<>> \in Seq(Coroutines)
  BY LoopTyped, Names, EmptySeq DEF RollInv, TypeOK
<1>2. Fresh /\ Len(ready) >= 1 /\ ready[1] = Proc
  BY DEF ProcStarts
<1>3. staleness \in Nat /\ ActiveTasks \in Nat /\ MaxRequiredSamples \in Nat \ {0}
      /\ MaxQueueSize = MaxRequiredSamples /\ Len(queue) = 0
  BY <1>1, <1>2, Numbers, ActiveCounts, QueueSizeAssumption DEF RollTypeOK, Fresh
<1> HIDE DEF MaxRequiredSamples, ActiveTasks
<1>4. processor = "top" => hand = None
  BY DEF RollInv, HandInv, Holding, Draining
<1>5. processor = "top" => ~paused /\ Stocked /\ Len(lockQueue) = 0
  BY DEF ProcStarts
<1>6. CASE ProcessorSeesPause
  <2>1. Acquire(Proc) /\ processor = "top" /\ processor' = "pausing" /\ staleness >= MaxRequiredSamples
    BY <1>3, <1>5, <1>6 DEF ProcessorSeesPause, ProcessorAt, ProcessorGoes, ShouldPause
  <2>2. ActiveTasks > 0
    BY <1>3, <1>4, <1>5, <2>1 DEF Stocked
  <2>3. Len(lockQueue') = 1 /\ Continue(<<>>)
    BY <1>1, <1>5, <2>1, TakesFreeLock
  <2>4. Len(ready') >= 1 /\ ready'[1] = Proc
    BY <1>1, <1>2, <2>3, ProcGoesOn
  <2>5. Fresh' /\ ActiveTasks' = ActiveTasks
    <3>1. cancelQueue' = cancelQueue /\ UNCHANGED <<task, finishedTasks>>
      BY <1>6 DEF ProcessorSeesPause, ProcessorGoes, taskVars
    <3> QED BY <1>2, <3>1, FreshKeeps
  <2> QED BY <2>1, <2>2, <2>3, <2>4, <2>5 DEF ProcStarts
<1>7. CASE ProcessorPauses
  <2>1. processor = "pausing" /\ processor' = "drain" /\ drainFor' = "pause" /\ ReleaseContinue(<<>>)
    BY <1>7 DEF ProcessorPauses, ProcessorOwns
  <2>2. ActiveTasks > 0 /\ Len(lockQueue) = 1
    BY <2>1 DEF ProcStarts
  <2>3. Len(lockQueue') = 0 /\ <<>> \o NextOwner \in Seq(Coroutines) /\ Continue(<<>> \o NextOwner)
    BY <1>1, <2>1, <2>2, GivesUpAlone DEF ReleaseContinue
  <2>4. Len(ready') >= 1 /\ ready'[1] = Proc
    BY <1>1, <1>2, <2>3, ProcGoesOn
  <2>5. Fresh' /\ ActiveTasks' = ActiveTasks
    <3>1. cancelQueue' = cancelQueue /\ UNCHANGED <<task, finishedTasks>>
      BY <1>7 DEF ProcessorPauses, taskVars
    <3> QED BY <1>2, <3>1, FreshKeeps
  <2> QED BY <2>1, <2>2, <2>3, <2>4, <2>5 DEF ProcStarts
<1>8. CASE ProcessorTakesCancelled
  BY <1>2, <1>8 DEF ProcessorTakesCancelled, Fresh
<1>9. CASE ProcessorAsksPending
  <2>1. processor = "top" /\ processor' = "get" /\ staleness < MaxRequiredSamples /\ lockQueue' = lockQueue
    BY <1>3, <1>9 DEF ProcessorAsksPending, ProcessorAt, ProcessorGoes, ShouldPause
  <2>2. pendingQueue # <<>>
    BY <1>4, <1>5, <2>1, FindsSample
  <2>3. Continue(<<>>)
    BY <1>9, <2>2 DEF ProcessorAsksPending
  <2>4. Len(ready') >= 1 /\ ready'[1] = Proc
    BY <1>1, <1>2, <2>3, ProcGoesOn
  <2>5. UNCHANGED <<cancelQueue, task, finishedTasks, pendingQueue, staleness, hand, paused>>
    BY <1>9 DEF ProcessorAsksPending, ProcessorGoes, taskVars, feedVars
  <2>6. Fresh' /\ ActiveTasks' = ActiveTasks
    BY <1>2, <2>5, FreshKeeps
  <2>7. Stocked' /\ ~paused'
    BY <1>5, <2>1, <2>5, <2>6 DEF Stocked
  <2>8. Len(lockQueue') = 0
    BY <1>5, <2>1
  <2> QED BY <2>1, <2>2, <2>4, <2>5, <2>6, <2>7, <2>8 DEF ProcStarts
<1> QED BY <1>6, <1>7, <1>8, <1>9

LEMMA StartGets ==
  ASSUME RollInv, ProcStarts, Processor, trainer' = trainer, ProcessorGets
  PROVE  ProcStarts'
<1>1. LoopTypes /\ RollTypeOK /\ ProcLoop /\ Feeder \in Coroutines
  BY LoopTyped, Names DEF RollInv, TypeOK
<1>2. Fresh /\ Len(ready) >= 1 /\ ready[1] = Proc
  BY DEF ProcStarts
<1>3. staleness \in Nat /\ ActiveTasks \in Nat /\ None \notin Samples /\ PendingSize \in Nat
  BY <1>1, Numbers, ActiveCounts, RolloutAssumption DEF RollTypeOK
<1> HIDE DEF ActiveTasks
<1>4. processor = "get" /\ processor' = "drain" /\ lockQueue' = lockQueue /\ staleness' = staleness + 1
      /\ pendingQueue' = Tail(pendingQueue) /\ paused' = paused
  BY DEF ProcessorGets, ProcessorAt
<1>5. hand = None
  BY <1>4 DEF RollInv, HandInv, Holding, Draining
<1>6. ~paused /\ Stocked /\ Len(lockQueue) = 0
  BY <1>4 DEF ProcStarts
<1>7. pendingQueue # <<>> /\ Head(pendingQueue) \in Samples \cup {Done} /\ pendingQueue \in Seq(Samples \cup {Done})
  BY <1>1, GetsSomething DEF RollTypeOK
<1>8. Len(ready') >= 1 /\ ready'[1] = Proc
  <2>1. Continue(Wakes(Feeder, feeder # "ended"))
    BY DEF ProcessorGets
  <2>2. Wakes(Feeder, feeder # "ended") \in Seq(Coroutines)
    BY <1>1, WakesCounts
  <2> QED BY <1>1, <1>2, <2>1, <2>2, ProcGoesOn
<1>9. Fresh' /\ ActiveTasks' = ActiveTasks
  <2>1. cancelQueue' = cancelQueue /\ UNCHANGED <<task, finishedTasks>>
    BY DEF ProcessorGets, taskVars
  <2> QED BY <1>2, <2>1, FreshKeeps
<1>10. CASE Head(pendingQueue) = Done
  <2>1. drainFor' = "done"
    BY <1>10 DEF ProcessorGets
  <2>2. ActiveTasks > 0
    BY <1>3, <1>5, <1>6, <1>10 DEF Stocked
  <2> QED BY <1>4, <1>6, <1>8, <1>9, <2>1, <2>2 DEF ProcStarts
<1>11. CASE Head(pendingQueue) # Done
  <2>1. drainFor' = "capacity" /\ hand' # None
    BY <1>3, <1>7, <1>11 DEF ProcessorGets
  <2>2. /\ Len(pendingQueue) \in Nat /\ Len(pendingQueue') = Len(pendingQueue) - 1 /\ Head(pendingQueue) = pendingQueue[1]
        /\ pendingQueue' \in Seq(Samples \cup {Done})
        /\ \A i \in 1..Len(pendingQueue') : pendingQueue'[i] = pendingQueue[i + 1]
    BY <1>4, <1>7, LenProperties, HeadTailProperties
  <2>3. \/ pendingQueue' # <<>> /\ pendingQueue'[Len(pendingQueue')] = Done
        \/ Len(pendingQueue') + staleness' >= PendingSize
    <3>1. CASE pendingQueue[Len(pendingQueue)] = Done
      <4>1. Len(pendingQueue) # 1 /\ Len(pendingQueue) > 0
        BY <1>7, <1>11, <2>2, <3>1, EmptySeq
      <4>2. Len(pendingQueue') \in 1..Len(pendingQueue')
        BY <2>2, <4>1
      <4>3. pendingQueue'[Len(pendingQueue')] = Done /\ Len(pendingQueue') > 0
        BY <2>2, <3>1, <4>1, <4>2
      <4>4. pendingQueue' # <<>>
        BY <4>3
      <4> QED BY <4>3, <4>4
    <3>2. CASE Len(pendingQueue) + staleness >= PendingSize
      BY <1>3, <1>4, <2>2, <3>2
    <3> QED BY <1>6, <3>1, <3>2 DEF Stocked
  <2>4. staleness' # 0 /\ staleness' <= ActiveTasks' + 1
    BY <1>3, <1>4, <1>5, <1>6, <1>9 DEF Stocked
  <2>5. Stocked'
    BY <2>1, <2>3, <2>4 DEF Stocked
  <2> QED BY <1>4, <1>6, <1>8, <1>9, <2>1, <2>5 DEF ProcStarts
<1> QED BY <1>10, <1>11

LEMMA StartDrain ==
  ASSUME RollInv, ProcStarts, Processor, trainer' = trainer, ProcessorDrains \/ ProcessorDrained
  PROVE  ProcStarts'
<1>1. LoopTypes /\ RollTypeOK /\ Proc \in LockUsers /\ processor = "drain"
  BY LoopTyped, Names DEF RollInv, TypeOK, ProcessorDrains, ProcessorDrained, ProcessorAt
<1>2. Fresh /\ Len(ready) >= 1 /\ ready[1] = Proc /\ Len(lockQueue) = 0
  BY <1>1 DEF ProcStarts
<1>3. ActiveTasks \in Nat /\ MaxConcurrent \in Nat \ {0}
  BY <1>1, Numbers, ActiveCounts
<1> HIDE DEF ActiveTasks, MaxConcurrent
<1>4. UNCHANGED <<cancelQueue, task, finishedTasks, pendingQueue, staleness, hand, paused, drainFor>>
  BY DEF ProcessorDrains, ProcessorDrained, ProcessorGoes, taskVars, feedVars
<1>5. Fresh' /\ ActiveTasks' = ActiveTasks
  BY <1>2, <1>4, FreshKeeps
<1>6. CASE ProcessorDrains
  <2>1. Acquire(Proc) /\ processor' = "drainLock" /\ ActiveTasks > 0
    BY <1>3, <1>6 DEF ProcessorDrains, ProcessorGoes, MustDrain
  <2>2. Len(lockQueue') = 1 /\ Continue(<<>>)
    BY <1>1, <1>2, <2>1, TakesFreeLock
  <2>3. Len(ready') >= 1 /\ ready'[1] = Proc
    BY <1>1, <1>2, <2>2, EmptySeq, ProcGoesOn
  <2> QED BY <1>5, <2>1, <2>2, <2>3 DEF ProcStarts
<1>7. CASE ProcessorDrained
  <2>1. drainFor = "capacity" /\ ~paused /\ Stocked
    <3>1. drainFor \in {"pause", "done"} => ~(ActiveTasks > 0)
      BY <1>3, <1>7 DEF ProcessorDrained, MustDrain
    <3> QED BY <1>1, <3>1 DEF ProcStarts
  <2>2. Acquire(Proc) /\ processor' = "submit"
    BY <1>7, <2>1 DEF ProcessorDrained, ProcessorGoes
  <2>3. Len(lockQueue') = 1 /\ Continue(<<>>)
    BY <1>1, <1>2, <2>2, TakesFreeLock
  <2>4. Len(ready') >= 1 /\ ready'[1] = Proc
    BY <1>1, <1>2, <2>3, EmptySeq, ProcGoesOn
  <2>5. Stocked' /\ ~paused' /\ drainFor' = "capacity"
    BY <1>4, <1>5, <2>1 DEF Stocked
  <2> QED BY <1>5, <2>2, <2>3, <2>4, <2>5 DEF ProcStarts
<1> QED BY <1>6, <1>7

LEMMA StartSubmits ==
  ASSUME SamplesInv, ProcStarts, Processor, trainer' = trainer, ProcessorSubmits
  PROVE  ProcStarts'
<1>1. LoopTypes /\ RollTypeOK /\ processor = "submit" /\ processor' = "top" /\ hand' = None
      /\ ReleaseContinue(<<TaskOf(hand)>>)
  BY LoopTyped DEF SamplesInv, RollInv, TypeOK, ProcessorSubmits, ProcessorOwns
<1>2. Fresh /\ Len(ready) >= 1 /\ ready[1] = Proc /\ Len(lockQueue) = 1 /\ ~paused /\ Stocked
  BY <1>1 DEF ProcStarts
<1>3. hand \in Samples /\ ActiveTasks' = ActiveTasks + 1
  BY <1>2, SubmitsOne
<1>4. staleness \in Nat /\ ActiveTasks \in Nat
  BY <1>1, ActiveCounts DEF RollTypeOK
<1> HIDE DEF ActiveTasks
<1>5. UNCHANGED <<cancelQueue, finishedTasks, pendingQueue, staleness, paused>> /\ task' = [task EXCEPT ![hand] = "created"]
  BY DEF ProcessorSubmits, feedVars
<1>6. Len(lockQueue') = 0 /\ Len(ready') >= 1 /\ ready'[1] = Proc
  <2>1. <<TaskOf(hand)>> \in Seq(Coroutines)
    BY <1>3, Names, OccursOnce
  <2>2. lockQueue' = Tail(lockQueue) /\ Continue(<<TaskOf(hand)>> \o NextOwner)
    BY <1>1 DEF ReleaseContinue
  <2>3. Len(lockQueue') = 0 /\ <<TaskOf(hand)>> \o NextOwner \in Seq(Coroutines)
    BY <1>1, <1>2, <2>1, <2>2, GivesUpAlone
  <2> QED BY <1>1, <1>2, <2>2, <2>3, ProcGoesOn
<1>7. Fresh'
  <2>1. \A s \in Samples : task'[s] \in {"none", "created"}
    BY <1>1, <1>2, <1>5 DEF Fresh, RollTypeOK
  <2> QED BY <1>2, <1>5, <2>1 DEF Fresh, Processor, mqVars, syncVars
<1>8. staleness' <= ActiveTasks'
  BY <1>2, <1>3, <1>4, <1>5 DEF Stocked
<1>9. Stocked'
  BY <1>2, <1>5, <1>8 DEF Stocked
<1> QED BY <1>1, <1>2, <1>5, <1>6, <1>7, <1>9 DEF ProcStarts

LEMMA StartProc ==
  ASSUME SamplesInv, QueueHoldsMore, ProcStarts, [Next]_vars
  PROVE  StartInv'
<1>1. RollInv /\ TypeOK /\ LoopTypes /\ RollTypeOK /\ Mon \in Coroutines /\ Proc # Mon /\ Proc # Feeder
  BY LoopTyped, Names DEF SamplesInv, RollInv, TypeOK
<1>2. Fresh /\ Len(ready) >= 1 /\ ready[1] = Proc /\ Len(ready) \in Nat
  BY <1>1, LenProperties DEF ProcStarts, LoopTypes
<1>3. ready # <<>> /\ Head(ready) = Proc
  BY <1>1, <1>2, EmptySeq DEF LoopTypes
<1>4. CASE Still /\ lockQueue' = lockQueue /\ (ready' = ready \/ Wake(Mon))
  <2>1. Len(ready') >= 1 /\ ready'[1] = Proc
    <3>1. CASE Wake(Mon)
      <4>1. ready' \in Seq(Coroutines) /\ Len(ready') >= Len(ready) /\ \A i \in 1..Len(ready) : ready'[i] = ready[i]
        BY <1>1, <3>1, LineLengthens
      <4>2. 1 \in 1..Len(ready) /\ Len(ready') \in Nat
        BY <1>2, <4>1, LenProperties
      <4> QED BY <1>2, <4>1, <4>2
    <3> QED BY <1>2, <1>4, <3>1
  <2>2. UNCHANGED <<paused, pendingQueue, processor, drainFor, hand, task, finishedTasks, queue, cancelQueue, staleness,
                    sync, main, trainer, lockQueue>>
    BY <1>4 DEF Still, flagVars, feedVars, procVars
  <2>3. Fresh'
    BY <1>2, <2>2 DEF Fresh
  <2>4. ActiveTasks' = ActiveTasks
    BY <2>2 DEF ActiveTasks, Live
  <2>5. Stocked' <=> Stocked
    BY <2>2, <2>4 DEF Stocked
  <2> QED BY <2>1, <2>2, <2>3, <2>4, <2>5 DEF ProcStarts, StartInv
<1>5. CASE Processor /\ trainer' = trainer
  <2>1. CASE ProcessorSeesPause \/ ProcessorPauses \/ ProcessorTakesCancelled \/ ProcessorAsksPending
    BY <1>1, <1>5, <2>1, StartTop DEF StartInv
  <2>2. CASE ProcessorGets
    BY <1>1, <1>5, <2>2, StartGets DEF StartInv
  <2>3. CASE ProcessorDrains \/ ProcessorDrained
    BY <1>1, <1>5, <2>3, StartDrain DEF StartInv
  <2>4. CASE ProcessorSubmits
    BY <1>5, <2>4, StartSubmits DEF StartInv
  <2>5. CASE ProcessorAwaitsTask
    BY <2>5 DEF ProcessorAwaitsTask, ProcessorGoes, StartInv
  <2>6. CASE ProcessorFindsNoTask
    <3>1. processor = "drainLock" /\ ActiveTasks = 0
      BY <2>6 DEF ProcessorFindsNoTask, ProcessorOwns
    <3> QED BY <3>1 DEF ProcStarts
  <2>7. CASE ProcessorReaps \/ ProcessorWakes \/ ProcessorLeavesPause
    BY <2>7 DEF ProcessorReaps, ProcessorWakes, ProcessorLeavesPause, ProcessorWaits, ProcessorOwns, ProcStarts
  <2>8. CASE ProcessorSleeps
    BY <2>8 DEF ProcessorSleeps, ProcStarts
  <2> QED BY <1>5, <2>1, <2>2, <2>3, <2>4, <2>5, <2>6, <2>7, <2>8 DEF Processor
<1> QED BY <1>1, <1>2, <1>3, <1>4, <1>5, FreshSteps

LEMMA StartInvInitial == Init => StartInv
<1> SUFFICES ASSUME Init PROVE StartInv
  OBVIOUS
<1>1. /\ ready = <<Mon, Feeder, Proc>> /\ lockQueue = <<>> /\ pendingQueue = <<>> /\ fed = 0 /\ feeder = "feeding"
      /\ processor = "top" /\ task = [s \in Samples |-> "none"] /\ finishedTasks = 0 /\ cancelQueue = <<>>
      /\ staleness = 0 /\ sync = "none" /\ monitor = "check" /\ main = "streaming" /\ rollRunning = TRUE
      /\ paused = FALSE /\ queue = <<>> /\ trainer = "collect"
  BY DEF Init, RollInit, MQInit, TrainInit
<1>2. Fresh
  BY <1>1 DEF Fresh
<1>3. BeforeProc
  BY <1>1, <1>2, Numbers DEF BeforeProc
<1>4. Len(ready) = 3 /\ ready[1] = Mon /\ ready[2] = Feeder /\ ready[3] = Proc /\ Len(lockQueue) = 0
  BY <1>1
<1> QED BY <1>1, <1>3, <1>4 DEF MonStarts, StartInv

LEMMA StartInvNext == QueueHoldsMore /\ SamplesInv /\ StartInv /\ [Next]_vars => StartInv'
<1> SUFFICES ASSUME QueueHoldsMore, SamplesInv, StartInv, [Next]_vars PROVE StartInv'
  OBVIOUS
<1>1. CASE everReaped
  BY <1>1, ReapedMoves DEF ProcessorReaps, StartInv
<1>2. CASE processor = "drainWait"
  <2>1. CASE UNCHANGED procVars
    BY <1>2, <2>1 DEF procVars, StartInv
  <2>2. CASE Processor
    BY <1>2, <2>2 DEF Processor, ProcessorSeesPause, ProcessorPauses, ProcessorTakesCancelled, ProcessorAsksPending,
        ProcessorGets, ProcessorDrains, ProcessorDrained, ProcessorAwaitsTask, ProcessorFindsNoTask, ProcessorReaps,
        ProcessorSleeps, ProcessorWakes, ProcessorLeavesPause, ProcessorSubmits, ProcessorAt, ProcessorOwns,
        ProcessorWaits, StartInv
  <2> QED BY <2>1, <2>2, ProcMoves
<1>3. CASE MonStarts
  BY <1>3, StartMon DEF SamplesInv
<1>4. CASE FeederStarts
  BY <1>4, StartFeeder DEF SamplesInv
<1>5. CASE ProcStarts
  BY <1>5, StartProc
<1> QED BY <1>1, <1>2, <1>3, <1>4, <1>5 DEF StartInv

\* A task that raised is counted.
FailInv == (failedTasks > 0 => failures > 0) /\ \A s \in Samples : task[s] = "failed" => failures > 0

LEMMA FailMoves ==
  ASSUME TypeOK, [Next]_vars
  PROVE  \/ failures' = failures + 1
         \/ failures' = failures /\ \E s \in Samples : task[s] = "failed"
         \/ /\ failures' = failures /\ failedTasks' \in {0, failedTasks}
            /\ \A s \in Samples : task'[s] = "failed" => task[s] = "failed"
<1>1. task \in [Samples -> {"none", "created", "requested", "generating", "refused", "answered",
                            "cancelled", "failed", "putting", "put"}]
      /\ failedTasks \in Nat
  <2>1. finishedTasks \in 0..MaxConcurrent /\ failedTasks \in 0..finishedTasks
    BY DEF TypeOK, RollTypeOK
  <2> HIDE DEF MaxConcurrent
  <2>2. failedTasks \in Nat
    BY <2>1, Numbers
  <2> QED BY <2>2 DEF TypeOK, RollTypeOK
<1>2. CASE LoopRuns
  <2>1. CASE Processor
    <3>1. failures' = failures
      BY <2>1 DEF Processor, ProcessorSeesPause, ProcessorPauses, ProcessorTakesCancelled, ProcessorAsksPending,
        ProcessorGets, ProcessorDrains, ProcessorDrained, ProcessorAwaitsTask, ProcessorFindsNoTask, ProcessorReaps,
        ProcessorSleeps, ProcessorWakes, ProcessorLeavesPause, ProcessorSubmits, ProcessorGoes, taskVars
    <3>2. failedTasks' \in {0, failedTasks}
      BY <2>1 DEF Processor, ProcessorSeesPause, ProcessorPauses, ProcessorTakesCancelled, ProcessorAsksPending,
        ProcessorGets, ProcessorDrains, ProcessorDrained, ProcessorAwaitsTask, ProcessorFindsNoTask, ProcessorReaps,
        ProcessorSleeps, ProcessorWakes, ProcessorLeavesPause, ProcessorSubmits, ProcessorGoes, taskVars
    <3>3. task' = task \/ task' = [task EXCEPT ![hand] = "created"]
      BY <2>1 DEF Processor, ProcessorSeesPause, ProcessorPauses, ProcessorTakesCancelled, ProcessorAsksPending,
        ProcessorGets, ProcessorDrains, ProcessorDrained, ProcessorAwaitsTask, ProcessorFindsNoTask, ProcessorReaps,
        ProcessorSleeps, ProcessorWakes, ProcessorLeavesPause, ProcessorSubmits, ProcessorGoes, taskVars
    <3>4. \A s \in Samples : task'[s] = "failed" => task[s] = "failed"
      BY <1>1, <3>3
    <3> QED BY <3>1, <3>2, <3>4
  <2>2. CASE TaskSteps
    <3>1. PICK s \in Samples : TaskStarts(s) \/ TaskSends(s) \/ TaskEnds(s)
      BY <2>2 DEF TaskSteps
    <3>2. failures' = failures
      BY <3>1 DEF TaskStarts, TaskSends, TaskEnds
    <3>3. task'[s] # "failed" /\ \A t \in Samples : task'[t] = "failed" => task[t] = "failed"
      BY <1>1, <3>1 DEF TaskStarts, TaskSends, TaskEnds, TaskGoes
    <3>4. task[s] = "failed" \/ failedTasks' = failedTasks
      BY <1>1, <3>1 DEF TaskStarts, TaskSends, TaskEnds
    <3> QED BY <3>1, <3>2, <3>3, <3>4
  <2>3. CASE Sync
    BY <2>3 DEF Sync, CallLocks, PauseBegins, PauseGathers, Gathers, PauseEnds, UpdateBegins, UpdateResets, UpdateEnds,
        ResumeAsksServers, ResumeEnds, SyncGoes
  <2>4. CASE FeederPuts \/ FeederEnds \/ Monitor \/ Main
    BY <2>4 DEF FeederPuts, FeederEnds, FeederDoes, Monitor, Main, MainOnly, taskVars
  <2> QED BY <1>2, <2>1, <2>2, <2>3, <2>4 DEF LoopRuns
<1>3. CASE TaskEnvironment \/ \E s \in Samples : ServersFail(s)
  <2>1. PICK s \in Samples : ServersTake(s) \/ ServersAnswer(s) \/ QueueTakes(s) \/ QueueAnswers(s) \/ ServersFail(s)
    BY <1>3 DEF TaskEnvironment
  <2>2. CASE ServersFail(s)
    BY <2>2 DEF ServersFail
  <2>3. CASE ServersTake(s) \/ ServersAnswer(s) \/ QueueTakes(s) \/ QueueAnswers(s)
    <3>1. failures' = failures /\ failedTasks' = failedTasks
      BY <2>3 DEF ServersTake, ServersAnswer, QueueTakes, QueueAnswers, TaskOutside
    <3>2. \A t \in Samples : task'[t] = "failed" => task[t] = "failed"
      BY <1>1, <2>3 DEF ServersTake, ServersAnswer, QueueTakes, QueueAnswers, TaskGoes
    <3> QED BY <3>1, <3>2
  <2> QED BY <2>1, <2>2, <2>3
<1>4. CASE MonitorTimer \/ QueueTakesNone \/ SyncEnvironment
  BY <1>4 DEF MonitorTimer, QueueTakesNone, MainOnly, SyncEnvironment, ServersCancel, ServersResume, QueueSizes,
        QueueTakesValidate, SyncArrives, SyncOutside, taskVars
<1>5. CASE TrainNext \/ RunnerEnds \/ Terminated \/ UNCHANGED vars
  BY <1>5 DEF TrainNext, CollectWaits, CollectTakes, CollectStops, Trains, CallsPause, TransferBegins, TransferEnds,
      Logs, Finishes, FinishesSync, RollouterButSync, RunnerEnds, Terminated, vars, rollVars, taskVars
<1> QED BY <1>2, <1>3, <1>4, <1>5 DEF Next, RollNext

LEMMA FailNext ==
  ASSUME TypeOK, FailInv, [Next]_vars
  PROVE  FailInv' /\ (failures > 0 => failures' > 0)
<1>1. failures \in Nat
  <2>1. failures \in 0..MaxFailures
    BY DEF TypeOK, RollTypeOK
  <2> QED BY <2>1, Numbers
<1>2. CASE failures' = failures + 1
  BY <1>1, <1>2 DEF FailInv
<1>3. CASE failures' = failures /\ \E s \in Samples : task[s] = "failed"
  BY <1>1, <1>3 DEF FailInv
<1>4. CASE /\ failures' = failures /\ failedTasks' \in {0, failedTasks}
           /\ \A s \in Samples : task'[s] = "failed" => task[s] = "failed"
  BY <1>1, <1>4 DEF FailInv
<1> QED BY <1>2, <1>3, <1>4, FailMoves

CrashInv == StartInv /\ FailInv /\ CrashesOnlyOnFailure

LEMMA CrashInvNext == QueueHoldsMore /\ SamplesInv /\ CrashInv /\ [Next]_vars => CrashInv'
<1> SUFFICES ASSUME QueueHoldsMore, SamplesInv, CrashInv, [Next]_vars PROVE CrashInv'
  OBVIOUS
<1>1. TypeOK /\ StartInv' /\ FailInv' /\ (failures > 0 => failures' > 0)
  BY StartInvNext, FailNext DEF SamplesInv, RollInv, CrashInv
<1>2. CASE UNCHANGED procVars
  BY <1>1, <1>2 DEF CrashInv, CrashesOnlyOnFailure, procVars
<1>3. CASE Processor
  <2>1. CASE ProcessorReaps
    BY <1>1, <2>1 DEF ProcessorReaps, CrashInv, FailInv, CrashesOnlyOnFailure
  <2>2. CASE ProcessorFindsNoTask
    <3>1. processor = "drainLock" /\ ActiveTasks = 0
      BY <2>2 DEF ProcessorFindsNoTask, ProcessorOwns
    <3>2. everReaped
      BY <3>1 DEF CrashInv, StartInv, MonStarts, FeederStarts, BeforeProc, ProcStarts
    <3>3. processor' = "drain"
      BY <2>2, <3>2 DEF ProcessorFindsNoTask, DoneTasksBound
    <3> QED BY <1>1, <3>3 DEF CrashInv, CrashesOnlyOnFailure
  <2>3. CASE ~ProcessorReaps /\ ~ProcessorFindsNoTask
    <3>1. processor' # "crashed"
      BY <1>3, <2>3 DEF Processor, ProcessorSeesPause, ProcessorPauses, ProcessorTakesCancelled, ProcessorAsksPending,
        ProcessorGets, ProcessorDrains, ProcessorDrained, ProcessorAwaitsTask, ProcessorSleeps, ProcessorWakes,
        ProcessorLeavesPause, ProcessorSubmits, ProcessorGoes
    <3> QED BY <1>1, <3>1 DEF CrashInv, CrashesOnlyOnFailure
  <2> QED BY <2>1, <2>2, <2>3
<1> QED BY <1>2, <1>3, ProcMoves

\* As long as pending_queue holds more samples than may run at once, or than may be under way, the processor
\* raises only because a generation did: it never asks the queue for a sample before its first wait for a task,
\* so nothing else runs until then, and done_tasks has a value whenever the tasks have gone away while it waited
\* for the lock (fully_async_rollouter.py 156, 421-489).  At other constants it does raise (README, section 6).
THEOREM ProcessorCrashesOnlyOnFailure == ASSUME QueueHoldsMore PROVE Spec => []CrashesOnlyOnFailure
<1>1. Spec => []SamplesInv
  BY SamplesInvariance
<1>2. Init => CrashInv
  <2>1. Init => FailInv /\ CrashesOnlyOnFailure
    BY DEF Init, RollInit, FailInv, CrashesOnlyOnFailure
  <2> QED BY <2>1, StartInvInitial DEF CrashInv
<1>3. SamplesInv /\ CrashInv /\ [Next]_vars => CrashInv'
  BY CrashInvNext
<1>4. CrashInv => CrashesOnlyOnFailure
  BY DEF CrashInv
<1> QED BY <1>1, <1>2, <1>3, <1>4, PTL DEF Spec
-----------------------------------------------------------------------------
(* The finish signal. *)

\* The main routine is not ready and not in line for the lock.
MainAway == R(MainRoutine) = 0 /\ K(MainRoutine) = 0
Over == processor \in {"ended", "crashed"}

LEMMA NotWoken ==
  ASSUME LoopTypes, NEW d \in Coroutines, d # MainRoutine, NEW asleep \in BOOLEAN
  PROVE  Wakes(d, asleep) \in Seq(Coroutines) /\ Occurrences(MainRoutine, Wakes(d, asleep)) = 0
<1>1. Same(MainRoutine, d) = 0
  BY DEF Same
<1> QED BY <1>1, WakesCounts

LEMMA NotMain ==
  /\ {Proc, Mon, Handler} \subseteq LockUsers /\ {Proc, Mon, Handler, Feeder} \subseteq Coroutines
  /\ MainRoutine \notin {Proc, Mon, Handler, Feeder}
  /\ \A s \in Samples : TaskOf(s) \in Coroutines /\ TaskOf(s) # MainRoutine
  BY DEF Proc, Feeder, Mon, MainRoutine, Handler, TaskOf, LockUsers, Coroutines

LEMMA AwayAcquires ==
  ASSUME LoopTypes, MainAway, NEW d \in LockUsers, d # MainRoutine, Runs(d), Acquire(d)
  PROVE  MainAway'
<1>1. Same(MainRoutine, d) = 0
  BY DEF Same
<1>2. /\ R(MainRoutine)' = IF lockQueue = <<>> THEN R(MainRoutine) ELSE R(MainRoutine) - Same(MainRoutine, d)
      /\ K(MainRoutine)' = K(MainRoutine) + Same(MainRoutine, d)
  BY AcquireCounts
<1> QED BY <1>1, <1>2 DEF MainAway

LEMMA AwayReleases ==
  ASSUME LoopTypes, MainAway, NEW d \in LockUsers, d # MainRoutine, Owns(d), NEW w \in Seq(Coroutines),
         Occurrences(MainRoutine, w) = 0, ReleaseContinue(w) \/ ReleaseSuspend(w)
  PROVE  MainAway'
<1>1. Same(MainRoutine, d) = 0
  BY DEF Same
<1>2. F(MainRoutine) = 0
  BY DEF F, Owns
<1>3. /\ LoopTypes' /\ K(MainRoutine)' = K(MainRoutine) - F(MainRoutine)
      /\ R(MainRoutine)' = R(MainRoutine) + Occurrences(MainRoutine, w) + F(MainRoutine)'
         \/ R(MainRoutine)' = R(MainRoutine) + Occurrences(MainRoutine, w) + F(MainRoutine)' - Same(MainRoutine, d)
  <2>1. CASE ReleaseContinue(w)
    BY <2>1, ReleaseContinueCounts
  <2>2. CASE ReleaseSuspend(w)
    BY <2>2, ReleaseSuspendCounts
  <2> QED BY <2>1, <2>2
<1>4. K(MainRoutine)' = 0
  BY <1>2, <1>3 DEF MainAway
<1>5. F(MainRoutine)' = 0
  <2>1. lockQueue' \in Seq(LockUsers) /\ ~(Occurrences(MainRoutine, lockQueue') > 0)
    BY <1>3, <1>4 DEF LoopTypes, K
  <2>2. lockQueue' # <<>> => Head(lockQueue') # MainRoutine
    BY <2>1, HeadOccurs
  <2> QED BY <2>2 DEF F
<1> QED BY <1>1, <1>3, <1>4, <1>5 DEF MainAway

LEMMA AwayMoves ==
  ASSUME LoopTypes, MainAway, lockQueue' = lockQueue, NEW d, d # MainRoutine,
         NEW w \in Seq(Coroutines), Occurrences(MainRoutine, w) = 0,
         Continue(w) \/ (Runs(d) /\ Suspend(w)) \/ (Wake(d) /\ d \in Coroutines)
  PROVE  MainAway'
<1>1. Same(MainRoutine, d) = 0
  BY DEF Same
<1>2. K(MainRoutine)' = K(MainRoutine)
  BY DEF K
<1>3. CASE Continue(w)
  <2>1. R(MainRoutine)' = R(MainRoutine) + Occurrences(MainRoutine, w)
    BY <1>3, ContinueCounts
  <2> QED BY <1>2, <2>1 DEF MainAway
<1>4. CASE Runs(d) /\ Suspend(w)
  <2>1. R(MainRoutine)' = R(MainRoutine) + Occurrences(MainRoutine, w) - Same(MainRoutine, d)
    BY <1>4, SuspendCounts
  <2> QED BY <1>1, <1>2, <2>1 DEF MainAway
<1>5. CASE Wake(d) /\ d \in Coroutines
  <2>1. R(MainRoutine)' = R(MainRoutine) + Same(MainRoutine, d)
    BY <1>5, WakeCounts
  <2> QED BY <1>1, <1>2, <2>1 DEF MainAway
<1> QED BY <1>3, <1>4, <1>5

\* The processor calls it when it is over.
LEMMA ProcessorAway ==
  ASSUME RollInv, MainAway, Processor, ~Over'
  PROVE  MainAway'
<1>1. LoopTypes
  BY LoopTyped DEF RollInv, TypeOK
<1>2. <<>> \in Seq(Coroutines) /\ Occurrences(MainRoutine, <<>>) = 0
  BY OccursInNone, EmptySeq
<1>3. CASE ProcessorSeesPause \/ ProcessorDrains \/ ProcessorWakes
  <2>1. Runs(Proc) /\ Acquire(Proc)
    BY <1>3 DEF ProcessorSeesPause, ProcessorDrains, ProcessorWakes, ProcessorAt
  <2> QED BY <1>1, <2>1, NotMain, AwayAcquires
<1>4. CASE ProcessorDrained
  <2>1. Runs(Proc) /\ Acquire(Proc)
    BY <1>4 DEF ProcessorDrained, ProcessorAt, ProcessorGoes, Over
  <2> QED BY <1>1, <2>1, NotMain, AwayAcquires
<1>5. CASE ProcessorPauses \/ ProcessorFindsNoTask \/ ProcessorReaps \/ ProcessorSleeps \/ ProcessorLeavesPause
  <2>1. Owns(Proc) /\ (ReleaseContinue(<<>>) \/ ReleaseSuspend(<<>>))
    BY <1>5 DEF ProcessorPauses, ProcessorFindsNoTask, ProcessorReaps, ProcessorSleeps, ProcessorLeavesPause,
        ProcessorOwns, ProcessorCrashes, Over
  <2> QED BY <1>1, <1>2, <2>1, NotMain, AwayReleases
<1>6. CASE ProcessorTakesCancelled
  <2>1. UNCHANGED <<ready, lockQueue>>
    BY <1>6 DEF ProcessorTakesCancelled, loopVars
  <2> QED BY <2>1 DEF MainAway, R, K
<1>7. CASE ProcessorAsksPending
  <2>1. lockQueue' = lockQueue /\ Runs(Proc) /\ (Continue(<<>>) \/ Suspend(<<>>))
    BY <1>7 DEF ProcessorAsksPending, ProcessorAt
  <2> QED BY <1>1, <1>2, <2>1, NotMain, AwayMoves
<1>8. CASE ProcessorGets
  <2>1. lockQueue' = lockQueue /\ Continue(Wakes(Feeder, feeder # "ended"))
    BY <1>8 DEF ProcessorGets
  <2>2. Wakes(Feeder, feeder # "ended") \in Seq(Coroutines) /\ Occurrences(MainRoutine, Wakes(Feeder, feeder # "ended")) = 0
    BY <1>1, NotMain, NotWoken
  <2> QED BY <1>1, <2>1, <2>2, NotMain, AwayMoves
<1>9. CASE ProcessorAwaitsTask
  <2>1. lockQueue' = lockQueue /\ Runs(Proc) /\ (Suspend(<<Proc>>) \/ Suspend(<<>>))
    BY <1>9 DEF ProcessorAwaitsTask, ProcessorOwns, Owns
  <2>2. <<Proc>> \in Seq(Coroutines) /\ Occurrences(MainRoutine, <<Proc>>) = 0
    BY NotMain, OccursOnce
  <2> QED BY <1>1, <1>2, <2>1, <2>2, NotMain, AwayMoves
<1>10. CASE ProcessorSubmits
  <2>1. Owns(Proc) /\ ReleaseContinue(<<TaskOf(hand)>>)
    BY <1>10 DEF ProcessorSubmits, ProcessorOwns
  <2>2. hand \in Samples
    BY <1>10 DEF RollInv, HandInv, Holding, ProcessorSubmits, ProcessorOwns, TypeOK, RollTypeOK, Items
  <2>3. <<TaskOf(hand)>> \in Seq(Coroutines) /\ Occurrences(MainRoutine, <<TaskOf(hand)>>) = 0
    BY <2>2, NotMain, OccursOnce
  <2> QED BY <1>1, <2>1, <2>3, NotMain, AwayReleases
<1> QED BY <1>3, <1>4, <1>5, <1>6, <1>7, <1>8, <1>9, <1>10 DEF Processor

LEMMA OthersAway ==
  ASSUME TypeOK, MainAway, [Next]_vars, ~Processor, main = "streaming"
  PROVE  MainAway' /\ main' = main
<1>1. LoopTypes /\ ~Runs(MainRoutine)
  <2>1. LoopTypes
    BY LoopTyped DEF TypeOK
  <2>2. Runs(MainRoutine) => R(MainRoutine) > 0
    BY <2>1, RunsIsReady
  <2> QED BY <2>1, <2>2 DEF MainAway
<1>2. <<>> \in Seq(Coroutines) /\ Occurrences(MainRoutine, <<>>) = 0
  BY OccursInNone, EmptySeq
<1>3. ASSUME UNCHANGED <<ready, lockQueue>> PROVE MainAway'
  BY <1>3 DEF MainAway, R, K
<1>4. ASSUME NEW d \in LockUsers, d # MainRoutine, Owns(d), ReleaseSuspend(Notified) \/ ReleaseContinue(Notified)
      PROVE  MainAway'
  <2>1. Notified \in Seq(Coroutines) /\ Occurrences(MainRoutine, Notified) = 0
    <3>1. ProcessorWaits \in BOOLEAN
      BY DEF ProcessorWaits
    <3> QED BY <1>1, <3>1, NotMain, NotWoken DEF Notified
  <2> QED BY <1>1, <1>4, <2>1, AwayReleases
<1>5. CASE FeederPuts \/ FeederEnds
  <2>1. lockQueue' = lockQueue /\ main' = main /\ Runs(Feeder)
        /\ (Continue(Wakes(Proc, processor = "get")) \/ Suspend(Wakes(Proc, processor = "get")))
    BY <1>5 DEF FeederPuts, FeederEnds, FeederDoes
  <2>2. Wakes(Proc, processor = "get") \in Seq(Coroutines) /\ Occurrences(MainRoutine, Wakes(Proc, processor = "get")) = 0
    BY <1>1, NotMain, NotWoken
  <2> QED BY <1>1, <2>1, <2>2, NotMain, AwayMoves
<1>6. CASE TaskSteps
  <2>1. PICK s \in Samples : TaskStarts(s) \/ TaskSends(s) \/ TaskEnds(s)
    BY <1>6 DEF TaskSteps
  <2>2. lockQueue' = lockQueue /\ main' = main /\ Runs(TaskOf(s)) /\ TaskOf(s) # MainRoutine
    BY <1>6, <2>1, NotMain DEF TaskSteps, TaskStarts, TaskSends, TaskEnds, TaskAt
  <2>3. CASE TaskStarts(s) \/ TaskSends(s)
    <3>1. Suspend(<<>>)
      BY <2>3 DEF TaskStarts, TaskSends
    <3> QED BY <1>1, <1>2, <2>2, <3>1, AwayMoves
  <2>4. CASE TaskEnds(s)
    <3> DEFINE wp == Wakes(Proc, processor = "drainWait")
               wh == Wakes(Handler, sync = "gathering" /\ Live = {s})
    <3>1. wp \in Seq(Coroutines) /\ Occurrences(MainRoutine, wp) = 0
      BY <1>1, NotMain, NotWoken
    <3>2. wh \in Seq(Coroutines) /\ Occurrences(MainRoutine, wh) = 0
      BY <1>1, NotMain, NotWoken
    <3>3. wp \o wh \in Seq(Coroutines) /\ Occurrences(MainRoutine, wp \o wh) = 0
      <4>1. wp \o wh \in Seq(Coroutines)
        BY <3>1, <3>2
      <4>2. Occurrences(MainRoutine, wp \o wh) = Occurrences(MainRoutine, wp) + Occurrences(MainRoutine, wh)
        BY <3>1, <3>2, OccursConcatenated
      <4> QED BY <3>1, <3>2, <4>1, <4>2
    <3>4. Suspend(wp \o wh)
      BY <2>4 DEF TaskEnds
    <3> HIDE DEF wp, wh
    <3> QED BY <1>1, <2>2, <3>3, <3>4, AwayMoves
  <2> QED BY <2>1, <2>2, <2>3, <2>4
<1>7. CASE Monitor
  <2>0. main' = main
    BY <1>7 DEF Monitor
  <2>1. CASE MonitorStarts
    BY <1>1, <2>0, <2>1, NotMain, AwayAcquires DEF MonitorStarts
  <2>2. CASE MonitorChecks
    BY <1>1, <1>2, <2>0, <2>2, NotMain, AwayReleases DEF MonitorChecks
  <2>3. CASE MonitorWakes
    <3>1. Runs(Mon) /\ (Acquire(Mon) \/ UNCHANGED <<ready, lockQueue>>)
      BY <2>3 DEF MonitorWakes, loopVars
    <3> QED BY <1>1, <1>3, <2>0, <3>1, NotMain, AwayAcquires
  <2>4. CASE MonitorUnpauses
    BY <1>4, <2>0, <2>4, NotMain DEF MonitorUnpauses
  <2> QED BY <1>7, <2>1, <2>2, <2>3, <2>4 DEF Monitor
<1>8. ~Main /\ ~QueueTakesNone
  BY <1>1 DEF Main, MainSends, MainLocks, MainStops, QueueTakesNone, Owns
<1>9. CASE Sync
  <2>0. main' = main
    BY <1>9 DEF Sync
  <2>1. CASE CallLocks
    BY <1>1, <2>0, <2>1, NotMain, AwayAcquires DEF CallLocks
  <2>2. CASE PauseBegins \/ PauseGathers \/ UpdateBegins \/ UpdateResets \/ ResumeAsksServers
    <3>1. Runs(Handler) /\ Suspend(<<>>) /\ lockQueue' = lockQueue
      BY <2>2 DEF PauseBegins, PauseGathers, Gathers, UpdateBegins, UpdateResets, ResumeAsksServers, SyncOwns, Owns
    <3> QED BY <1>1, <1>2, <2>0, <3>1, NotMain, AwayMoves
  <2>3. CASE PauseEnds \/ UpdateEnds
    <3>1. Owns(Handler) /\ ReleaseSuspend(<<>>)
      BY <2>3 DEF PauseEnds, UpdateEnds, SyncOwns
    <3> QED BY <1>1, <1>2, <2>0, <3>1, NotMain, AwayReleases
  <2>4. CASE ResumeEnds
    <3>1. Owns(Handler) /\ ReleaseSuspend(Notified)
      BY <2>4 DEF ResumeEnds, SyncOwns
    <3> QED BY <1>4, <2>0, <3>1, NotMain
  <2> QED BY <1>9, <2>1, <2>2, <2>3, <2>4 DEF Sync
<1>10. CASE TaskEnvironment \/ \E s \in Samples : ServersFail(s)
  <2>1. PICK s \in Samples : ServersTake(s) \/ ServersAnswer(s) \/ QueueTakes(s) \/ QueueAnswers(s) \/ ServersFail(s)
    BY <1>10 DEF TaskEnvironment
  <2>2. lockQueue' = lockQueue /\ main' = main /\ (ready' = ready \/ Wake(TaskOf(s)))
    BY <2>1 DEF ServersTake, ServersAnswer, QueueTakes, QueueAnswers, ServersFail, TaskOutside
  <2> QED BY <1>1, <1>2, <1>3, <2>2, NotMain, AwayMoves
<1>11. CASE MonitorTimer \/ SyncEnvironment
  <2>1. lockQueue' = lockQueue /\ main' = main /\ (ready' = ready \/ Wake(Mon) \/ Wake(Handler))
    BY <1>11 DEF MonitorTimer, SyncEnvironment, ServersCancel, ServersResume, QueueSizes, QueueTakesValidate,
        SyncArrives, SyncOutside
  <2> QED BY <1>1, <1>2, <1>3, <2>1, NotMain, AwayMoves
<1>12. CASE TrainNext \/ RunnerEnds \/ Terminated \/ UNCHANGED vars
  <2>1. UNCHANGED <<ready, lockQueue, main>>
    BY <1>12 DEF TrainNext, CollectWaits, CollectTakes, CollectStops, Trains, CallsPause, TransferBegins, TransferEnds,
      Logs, Finishes, FinishesSync, RollouterButSync, RunnerEnds, Terminated, vars, rollVars, loopVars
  <2> QED BY <1>3, <2>1
<1> QED BY <1>5, <1>6, <1>7, <1>8, <1>9, <1>10, <1>11, <1>12 DEF Next, RollNext, LoopRuns

\* Only the processor starts tasks.
LEMMA LiveShrinks ==
  ASSUME TypeOK, [Next]_vars, ~ProcessorSubmits
  PROVE  Live' \subseteq Live
<1>1. task \in [Samples -> {"none", "created", "requested", "generating", "refused", "answered",
                            "cancelled", "failed", "putting", "put"}]
  BY DEF TypeOK, RollTypeOK
<1>2. ASSUME task' = task PROVE Live' \subseteq Live
  BY <1>2 DEF Live
<1>3. ASSUME NEW s \in Samples, task[s] # "none", NEW where, TaskGoes(s, where) PROVE Live' \subseteq Live
  BY <1>1, <1>3 DEF Live, TaskGoes
<1>4. CASE Processor
  BY <1>2, <1>4 DEF Processor, ProcessorSeesPause, ProcessorPauses, ProcessorTakesCancelled, ProcessorAsksPending,
        ProcessorGets, ProcessorDrains, ProcessorDrained, ProcessorAwaitsTask, ProcessorFindsNoTask, ProcessorReaps,
        ProcessorSleeps, ProcessorWakes, ProcessorLeavesPause, ProcessorGoes, taskVars
<1>5. CASE TaskSteps \/ TaskEnvironment \/ \E s \in Samples : ServersFail(s)
  <2>1. PICK s \in Samples : \/ TaskStarts(s) \/ TaskSends(s) \/ TaskEnds(s)
                             \/ ServersTake(s) \/ ServersAnswer(s) \/ QueueTakes(s) \/ QueueAnswers(s) \/ ServersFail(s)
    BY <1>5 DEF TaskSteps, TaskEnvironment
  <2>2. task' = task \/ (task[s] # "none" /\ \E where : TaskGoes(s, where))
    BY <2>1 DEF TaskStarts, TaskSends, TaskEnds, TaskAt, ServersTake, ServersAnswer, QueueTakes, QueueAnswers,
                ServersFail, TaskOutside
  <2> QED BY <1>2, <1>3, <2>2
<1>6. CASE FeederPuts \/ FeederEnds \/ Monitor \/ Main \/ Sync \/ MonitorTimer \/ QueueTakesNone \/ SyncEnvironment
  <2>1. task' = task
    BY <1>6 DEF FeederPuts, FeederEnds, FeederDoes, Monitor, Main, MainOnly, Sync, MonitorTimer, QueueTakesNone,
        SyncEnvironment, ServersCancel, ServersResume, QueueSizes, QueueTakesValidate, SyncArrives, SyncOutside, taskVars
  <2> QED BY <1>2, <2>1
<1>7. CASE TrainNext \/ RunnerEnds \/ Terminated \/ UNCHANGED vars
  <2>1. task' = task
    BY <1>7 DEF TrainNext, CollectWaits, CollectTakes, CollectStops, Trains, CallsPause, TransferBegins, TransferEnds,
      Logs, Finishes, FinishesSync, RollouterButSync, RunnerEnds, Terminated, vars, rollVars, taskVars
  <2> QED BY <1>2, <2>1
<1> QED BY <1>4, <1>5, <1>6, <1>7 DEF Next, RollNext, LoopRuns

\* Only a put adds to the message queue.
LEMMA QueueMoves ==
  ASSUME [Next]_vars, ~Puts
  PROVE  queue' = queue \/ queue' = <<>> \/ (queue # <<>> /\ queue' = Tail(queue))
<1>1. CASE RollNext /\ Others
  <2>1. ~QueueTakesNone /\ \A s \in Samples : ~QueueTakes(s)
    BY <1>1 DEF Puts
  <2>2. queue' = queue
    BY <1>1, <2>1 DEF RollNext, LoopRuns, FeederPuts, FeederEnds, FeederDoes, Processor, TaskSteps, Monitor, Main, MainSends,
        MainLocks, MainStops, Sync, CallLocks, SyncGoes, PauseBegins, PauseGathers, Gathers, PauseEnds, UpdateBegins,
        UpdateResets, UpdateEnds, ResumeAsksServers, ResumeEnds, TaskEnvironment, ServersTake, ServersAnswer,
        QueueAnswers, ServersFail, MonitorTimer, SyncEnvironment, ServersCancel, ServersResume, QueueSizes,
        QueueTakesValidate, PutValidate, SyncArrives, mqVars
  <2> QED BY <2>2
<1>2. CASE TrainNext
  BY <1>2 DEF TrainNext, CollectWaits, CollectTakes, CollectStops, Trains, CallsPause, TransferBegins, TransferEnds,
      Logs, Finishes, FinishesSync, GetSampleWaits, GetSampleReturns, UpdateParamVersion, GetValidate, mqVars
<1>3. CASE RunnerEnds \/ Terminated \/ UNCHANGED vars
  BY <1>3 DEF RunnerEnds, ClearQueue, Terminated, vars, mqVars
<1> QED BY <1>1, <1>2, <1>3 DEF Next

Settled ==
    /\ ~Over => MainAway /\ main = "streaming"
    /\ Over => Live = {} \/ failures > 0
SignalLast == \A i \in 1..Len(queue) : queue[i] = None => i = Len(queue) \/ failures > 0
EndInv == FateInv /\ FailInv /\ Settled /\ SignalLast

LEMMA SettledNext ==
  ASSUME EndInv, [Next]_vars
  PROVE  Settled'
<1>1. /\ RollInv /\ TypeOK /\ RollTypeOK /\ failures \in Nat /\ (failures > 0 => failures' > 0)
      /\ IsFiniteSet(Live) /\ ActiveTasks = Cardinality(Live) + finishedTasks /\ finishedTasks \in Nat
      /\ Cardinality(Live) \in Nat
  <2>1. RollInv /\ TypeOK /\ RollTypeOK
    BY DEF EndInv, FateInv, SamplesInv, RollInv, TypeOK
  <2>2. failures \in Nat /\ (failures > 0 => failures' > 0)
    BY <2>1, FateKnown, FailNext DEF EndInv, FateInv
  <2> QED BY <2>1, <2>2, ActiveCounts
<1> HIDE DEF ActiveTasks
<1>2. Over => UNCHANGED procVars
  BY ProcMoves DEF Over, Processor, ProcessorSeesPause, ProcessorPauses, ProcessorTakesCancelled, ProcessorAsksPending,
        ProcessorGets, ProcessorDrains, ProcessorDrained, ProcessorAwaitsTask, ProcessorFindsNoTask, ProcessorReaps,
        ProcessorSleeps, ProcessorWakes, ProcessorLeavesPause, ProcessorSubmits, ProcessorAt, ProcessorOwns,
        ProcessorWaits
<1>3. ASSUME ~Over' PROVE MainAway' /\ main' = "streaming"
  <2>1. ~Over /\ MainAway /\ main = "streaming"
    <3>1. ~Over
      BY <1>2, <1>3 DEF Over, procVars
    <3> QED BY <3>1 DEF EndInv, Settled
  <2>2. CASE Processor
    <3>1. main' = main
      BY <2>2 DEF Processor
    <3> QED BY <1>1, <1>3, <2>1, <2>2, <3>1, ProcessorAway
  <2>3. CASE ~Processor
    BY <1>1, <2>1, <2>3, OthersAway
  <2> QED BY <2>2, <2>3
<1>4. ASSUME Over' PROVE Live' = {} \/ failures' > 0
  <2>1. CASE Over
    <3>1. ~ProcessorSubmits
      BY <2>1 DEF Over, ProcessorSubmits, ProcessorOwns
    <3>2. Live' \subseteq Live
      BY <1>1, <3>1, LiveShrinks
    <3> QED BY <1>1, <2>1, <3>2 DEF EndInv, Settled
  <2>2. CASE ~Over
    <3>1. Processor
      BY <1>4, <2>2, ProcMoves DEF Over, procVars
    <3>2. ProcessorDrained \/ ProcessorFindsNoTask \/ ProcessorReaps
      BY <1>4, <3>1 DEF Over, Processor, ProcessorSeesPause, ProcessorPauses, ProcessorTakesCancelled, ProcessorAsksPending,
        ProcessorGets, ProcessorDrains, ProcessorAwaitsTask, ProcessorSleeps, ProcessorWakes, ProcessorLeavesPause,
        ProcessorSubmits, ProcessorGoes
    <3>3. CASE ProcessorReaps
      BY <1>1, <1>4, <3>3 DEF ProcessorReaps, Over, EndInv, FailInv
    <3>4. CASE ProcessorDrained \/ ProcessorFindsNoTask
      <4>1. Live' = Live
        BY <3>4 DEF ProcessorDrained, ProcessorFindsNoTask, ProcessorGoes, taskVars, Live
      <4>2. ~(ActiveTasks >= 1) \/ ActiveTasks = 0
        BY <1>4, <3>4 DEF ProcessorDrained, ProcessorFindsNoTask, ProcessorGoes, MustDrain, Over
      <4>3. Cardinality(Live) = 0
        BY <1>1, <4>2
      <4> QED BY <1>1, <4>1, <4>3, FS_EmptySet
    <3> QED BY <3>2, <3>3, <3>4
  <2> QED BY <2>1, <2>2
<1> QED BY <1>3, <1>4 DEF Settled

\* A sample that is put after the signal was put by a task that outlived the processor.
LEMMA SignalLastNext ==
  ASSUME EndInv, [Next]_vars
  PROVE  SignalLast'
<1>1. /\ TypeOK /\ queue \in Seq(Items) /\ Len(queue) \in Nat /\ None \notin Samples /\ failures \in Nat
      /\ (failures > 0 => failures' > 0)
  <2>1. SamplesInv
    BY DEF EndInv, FateInv
  <2>2. TypeOK /\ queue \in Seq(Items) /\ None \notin Samples /\ failures \in Nat
    BY <2>1, FateKnown
  <2> QED BY <2>2, FailNext, LenProperties DEF EndInv
<1>2. SUFFICES ASSUME ~(failures' > 0), NEW i \in 1..Len(queue'), queue'[i] = None PROVE i = Len(queue')
  BY DEF SignalLast
<1>3. \A j \in 1..Len(queue) : queue[j] = None => j = Len(queue)
  BY <1>1, <1>2 DEF EndInv, SignalLast
<1>4. CASE queue' = queue
  BY <1>2, <1>3, <1>4
<1>5. CASE queue' = <<>>
  <2>1. Len(queue') = 0
    BY <1>5
  <2> QED BY <1>2, <2>1
<1>6. ASSUME NEW q \in Seq(Items), NEW e, q = queue \/ (queue # <<>> /\ q = Tail(queue)),
             \A j \in 1..Len(q) : q[j] # None, queue' = Append(q, e)
      PROVE  i = Len(queue')
  <2>1. Len(q) \in Nat /\ Len(queue') = Len(q) + 1 /\ \A j \in 1..Len(q) : queue'[j] = q[j]
    BY <1>6, LenProperties, AppendProperties
  <2>2. i \notin 1..Len(q)
    BY <1>2, <1>6, <2>1
  <2> QED BY <1>2, <2>1, <2>2
<1>7. CASE queue # <<>> /\ queue' = Tail(queue)
  <2>1. Len(queue') = Len(queue) - 1 /\ \A j \in 1..Len(queue') : queue'[j] = queue[j + 1]
    BY <1>1, <1>7, HeadTailProperties
  <2>2. i + 1 \in 1..Len(queue) /\ queue[i + 1] = None
    BY <1>1, <1>2, <2>1
  <2>3. i + 1 = Len(queue)
    BY <1>3, <2>2
  <2> QED BY <1>1, <1>2, <2>1, <2>3
<1>8. CASE Puts
  <2>1. \A j \in 1..Len(queue) : queue[j] # None
    <3>1. SUFFICES Signals = 0
      <4>1. Signals > 0 <=> \E j \in 1..Len(queue) : queue[j] = None
        BY <1>1, OccursOrNot DEF Signals
      <4> QED BY <4>1
    <3>2. Signals \in Nat /\ (Signals = 0 \/ Signalled)
      <4>1. Signals \in Nat
        BY <1>1, PositionsFinite DEF Signals
      <4> QED BY <4>1 DEF EndInv, FateInv, SignalInv
    <3>3. SUFFICES ASSUME Signalled PROVE FALSE
      BY <3>2
    <3>4. PICK s \in Samples : QueueTakes(s)
      BY <1>8, <3>3 DEF Puts, QueueTakesNone, Signalled
    <3>5. s \in Live
      BY <3>4 DEF QueueTakes, Live
    <3>6. Over
      BY <3>3 DEF EndInv, Settled, Signalled
    <3>7. failures > 0
      BY <3>5, <3>6 DEF EndInv, Settled
    <3> QED BY <1>1, <1>2, <3>7
  <2>2. PICK e : PutSample(e)
    BY <1>8 DEF Puts, QueueTakesNone, QueueTakes
  <2>3. RoomMade = queue \/ (queue # <<>> /\ RoomMade = Tail(queue))
    <3>1. Len(queue) >= MaxQueueSize => queue # <<>>
      <4>1. MaxQueueSize \in Nat \ {0}
        BY MaxQueueSizeAssumption
      <4> QED BY <1>1, <4>1, EmptySeq
    <3> QED BY <3>1 DEF RoomMade
  <2>4. RoomMade \in Seq(Items)
    BY <1>1, <2>3, HeadTailProperties
  <2>5. \A j \in 1..Len(RoomMade) : RoomMade[j] # None
    <3>1. CASE RoomMade = queue
      BY <2>1, <3>1
    <3>2. CASE queue # <<>> /\ RoomMade = Tail(queue)
      <4>1. Len(RoomMade) = Len(queue) - 1 /\ \A j \in 1..Len(RoomMade) : RoomMade[j] = queue[j + 1]
        BY <1>1, <3>2, HeadTailProperties
      <4> QED BY <1>1, <2>1, <4>1
    <3> QED BY <2>3, <3>1, <3>2
  <2>6. queue' = Append(RoomMade, e)
    BY <2>2 DEF PutSample
  <2> HIDE DEF RoomMade
  <2> QED BY <1>6, <2>3, <2>4, <2>5, <2>6
<1> QED BY <1>4, <1>5, <1>7, <1>8, QueueMoves

LEMMA EndInvNext == EndInv /\ SamplesInv' /\ [Next]_vars => EndInv'
<1> SUFFICES ASSUME EndInv, SamplesInv', [Next]_vars PROVE EndInv'
  OBVIOUS
<1>1. FateInv'
  BY FateInvNext DEF EndInv
<1>2. FailInv'
  BY FailNext DEF EndInv, FateInv, SamplesInv, RollInv
<1> QED BY <1>1, <1>2, SettledNext, SignalLastNext DEF EndInv

LEMMA EndInvInitial == Init => EndInv
<1> SUFFICES ASSUME Init PROVE EndInv
  OBVIOUS
<1>1. /\ ready = <<Mon, Feeder, Proc>> /\ lockQueue = <<>> /\ processor = "top" /\ main = "streaming" /\ queue = <<>>
      /\ failedTasks = 0 /\ task = [s \in Samples |-> "none"]
  BY DEF Init, RollInit, MQInit
<1>2. FailInv
  BY <1>1 DEF FailInv
<1>3. SignalLast
  BY <1>1 DEF SignalLast
<1>4. MainAway
  <2>1. K(MainRoutine) = 0
    BY <1>1, OccursInNone DEF K
  <2>2. ready \in Seq(Coroutines) /\ \A i \in 1..Len(ready) : ready[i] # MainRoutine
    BY <1>1, NotMain
  <2>3. R(MainRoutine) \in Nat /\ ~(R(MainRoutine) > 0)
    BY <2>2, OccursOrNot, PositionsFinite DEF R
  <2> QED BY <2>1, <2>3 DEF MainAway
<1>5. Settled
  BY <1>1, <1>4 DEF Settled, Over
<1> QED BY <1>2, <1>3, <1>5, FateInvInitial DEF EndInv

\* No sample follows the finish signal in the message queue, and none is being made when it is sent, unless a
\* generation raised: the main routine sends it when the processor is over (fully_async_rollouter.py 558-576),
\* the processor is over when no task is left (456-468), and nobody else starts one.  So the trainer, which
\* stops at the signal, leaves nothing behind.
THEOREM SignalIsLast == Spec => []SentinelLast
<1>1. Spec => []SamplesInv
  BY SamplesInvariance
<1>2. EndInv => SentinelLast
  BY DEF EndInv, SignalLast, Settled, Over, SentinelLast
<1> QED BY <1>1, <1>2, EndInvInitial, EndInvNext, PTL DEF Spec
=================================================================================
