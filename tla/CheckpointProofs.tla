--------------------------- MODULE CheckpointProofs ---------------------------
(***************************************************************************)
(* What a restart finds, for any number of groups, ranks, steps and         *)
(* crashes.  The claims are about the tracker file; what makes them          *)
(* inductive is what a save has done so far (Progress), that the tracker is *)
(* behind the step being saved (Behind), and where the tracked step may     *)
(* stand in the list of the paths to remove (Order).  Whether that list      *)
(* keeps two checkpoints matters only to whether the tracked one is whole.   *)
(***************************************************************************)
EXTENDS Checkpoint, SequenceTheorems, FiniteSetTheorems, FunctionTheorems, TLAPS

Saving == {"save", "shards", "data", "dataOpen", "tracker", "trackerOpen"}

\* Every group before the one in turn, and every rank that is done, wrote the weights.
Progress ==
    /\ Len(weights) = step
    /\ pc = "down" => step = 0
    /\ pc \in {"save", "shards"} =>
         \A g \in Role : g < group => \A r \in Ranks : shard[step][g][r] = weights
    /\ pc = "shards" =>
         \A r \in Ranks : at[r] = "written" => shard[step][group][r] = weights
    /\ pc \in {"data", "dataOpen", "tracker", "trackerOpen"} =>
         \A g \in Role : \A r \in Ranks : shard[step][g][r] = weights
    /\ pc \in {"tracker", "trackerOpen"} => data[step] \in Nat

\* The tracked checkpoint has its data.pt; its weights are those of its step, or removed.
Tracked ==
    /\ data[tracker] \in Nat
    /\ \/ shard[tracker][1][Rank0] = NoFile
       \/ shard[tracker][1][Rank0] \in Seq(Update) /\ Len(shard[tracker][1][Rank0]) = tracker

Behind ==
    /\ tracker \in Steps => Tracked /\ saved = tracker
    /\ tracker = NoFile => saved = 0
    /\ pc \in {"train", "ended"} /\ tracker \in Steps => tracker <= step
    /\ pc \in (Saving \cup {"trained"}) /\ tracker \in Steps => tracker < step
    /\ pc = "trackerOpen" => tracker = Torn

\* Groups that have not saved the current step yet.
Unsaved(g) == pc \in {"trained", "save", "shards"} /\ group <= g

Order ==
    /\ pc \notin {"save", "shards"} => group = 1
    /\ \A g \in Role :
         /\ pc = "down" => kept[g] = <<>>
         /\ \A i, j \in 1..Len(kept[g]) : i < j => kept[g][i] < kept[g][j]
         /\ \A i \in 1..Len(kept[g]) :
              kept[g][i] <= step /\ (Unsaved(g) => kept[g][i] < step)
         /\ Unsaved(g) \/ pc = "train" =>
              \A i \in 1..Len(kept[g]) : i < Len(kept[g]) => kept[g][i] # tracker

CInv == TypeOK /\ Progress /\ Behind /\ Order

USE DEF Steps, Role, disk

-----------------------------------------------------------------------------
(* The type. *)

\* No more paths are removed than there are; if at least two are kept, the last stays.
LEMMA ExcessBounds ==
    ASSUME NEW g \in Role, kept \in [Role -> Seq(Steps)]
    PROVE  /\ Excess(g) \in 0..Len(kept[g])
           /\ MaxKeep[g] # 1 => Excess(g) = 0 \/ Excess(g) < Len(kept[g])
<1>1. MaxKeep[g] \in Nat /\ Len(kept[g]) \in Nat
  BY SizesAssumption
<1> QED
  BY <1>1 DEF Excess

LEMMA TypeInitial == Init => TypeOK
  BY SizesAssumption DEF Init, TypeOK, File

\* The batch that is trained on was in flight, or comes from the dataloader.
LEMMA TrainsOn ==
    ASSUME TypeOK, Trains
    PROVE  \E b \in Nat :
             /\ weights' = Append(weights, <<crashes, b>>)
             /\ <<crashes, b>> \in Update /\ weights' \in Seq(Update) /\ Len(weights') = Len(weights) + 1
             /\ ahead' = ahead \ {b}
             /\ \/ b \in ahead /\ position' = position
                \/ ahead = {} /\ b = position + 1 /\ position' = position + 1
<1>1. weights \in Seq(Update) /\ ahead \in SUBSET Nat /\ position \in Nat /\ crashes \in Nat
  BY DEF TypeOK
<1>2. PICK b \in Nat : /\ weights' = Append(weights, <<crashes, b>>) /\ ahead' = ahead \ {b}
                       /\ \/ b \in ahead /\ position' = position
                          \/ ahead = {} /\ b = position + 1 /\ position' = position + 1
  <2>1. CASE \E b \in ahead : /\ weights' = Append(weights, <<crashes, b>>)
                              /\ ahead' = ahead \ {b} /\ position' = position
    BY <1>1, <2>1
  <2>2. CASE /\ ahead = {} /\ position' = position + 1 /\ ahead' = ahead
             /\ weights' = Append(weights, <<crashes, position'>>)
    <3>1. position + 1 \in Nat /\ ahead' = ahead \ {position + 1}
      BY <1>1, <2>2
    <3> QED
      BY <2>2, <3>1
  <2> QED
    BY <2>1, <2>2 DEF Trains
<1>3. <<crashes, b>> \in Update
  BY <1>1 DEF Update
<1>4. weights' \in Seq(Update) /\ Len(weights') = Len(weights) + 1
  BY <1>1, <1>2, <1>3, AppendProperties
<1> QED
  BY <1>2, <1>3, <1>4

\* What a step computes has its type whatever the sizes are.
LEMMA TypePreserved == TypeOK /\ [Next]_vars => TypeOK'
<1> SUFFICES ASSUME TypeOK, [Next]_vars PROVE TypeOK'
  OBVIOUS
<1> USE SizesAssumption DEF TypeOK, job, batches
<1>1. CASE ReadsAhead
  BY <1>1 DEF ReadsAhead
<1>d. CASE Drops
  BY <1>d DEF Drops
<1>2. CASE Trains
  <2>1. step' \in Steps /\ pc' = "trained" /\ UNCHANGED <<disk, group, at, kept, lost, dropped, crashes, saved>>
    BY <1>2 DEF Trains
  <2>2. weights' \in Seq(Update) /\ position' \in Nat /\ ahead' \in SUBSET Nat
    BY <1>2, TrainsOn
  <2> QED
    BY <2>1, <2>2, SMTT(30)
<1>s. CASE RunsShort
  BY <1>s DEF RunsShort, batches
<1>3. CASE Decides
  BY <1>3 DEF Decides, NextStep
<1>4. CASE Rotates
  <2>1. shard' \in [Steps -> [Role -> [Ranks -> File]]]
    <3>1. [r \in Ranks |-> NoFile] \in [Ranks -> File]
      BY DEF File
    <3>2. \A n \in Steps : [shard[n] EXCEPT ![group] = [r \in Ranks |-> NoFile]]
                             \in [Role -> [Ranks -> File]]
      BY <3>1
    <3> QED
      BY <1>4, <3>2 DEF Rotates
  <2>2. kept' \in [Role -> Seq(Steps)]
    <3>1. Excess(group) \in 0..Len(kept[group])
      BY ExcessBounds
    <3>2. SubSeq(kept[group], Excess(group) + 1, Len(kept[group])) \in Seq(Steps)
      <4>1. kept[group] \in Seq(Steps) /\ Len(kept[group]) \in Nat
        OBVIOUS
      <4>2. \A i \in Excess(group) + 1 .. Len(kept[group]) : kept[group][i] \in Steps
        <5> SUFFICES ASSUME NEW i \in Excess(group) + 1 .. Len(kept[group])
                     PROVE  kept[group][i] \in Steps
          OBVIOUS
        <5>1. i \in 1..Len(kept[group])
          BY <3>1, <4>1
        <5> HIDE DEF TypeOK
        <5> QED
          BY <4>1, <5>1, ElementOfSeq
      <4>3. Excess(group) + 1 \in Int /\ Len(kept[group]) \in Int
        BY <3>1, <4>1
      <4> HIDE DEF TypeOK
      <4> QED
        BY <4>2, <4>3, SubSeqProperties
    <3> QED
      BY <1>4, <3>2 DEF Rotates
  <2> QED
    BY <1>4, <2>1, <2>2 DEF Rotates
<1>5. ASSUME NEW r \in Ranks, OpensShard(r) PROVE TypeOK'
  <2>1. Torn \in File
    BY DEF File
  <2>2. shard' \in [Steps -> [Role -> [Ranks -> File]]]
    BY <1>5, <2>1 DEF OpensShard
  <2> QED
    BY <1>5, <2>2 DEF OpensShard
<1>6. ASSUME NEW r \in Ranks, ClosesShard(r) PROVE TypeOK'
  <2>1. weights \in File
    BY DEF File
  <2>2. shard' \in [Steps -> [Role -> [Ranks -> File]]]
    BY <1>6, <2>1 DEF ClosesShard
  <2> QED
    BY <1>6, <2>2 DEF ClosesShard
<1>7. CASE GroupSaved
  <2>1. step \in Steps
    BY <1>7 DEF GroupSaved
  <2>2. Append(kept[group], step) \in Seq(Steps)
    <3>1. kept[group] \in Seq(Steps)
      OBVIOUS
    <3> HIDE DEF Steps
    <3> QED
      BY <2>1, <3>1, AppendProperties
  <2>3. kept' \in [Role -> Seq(Steps)]
    BY <1>7, <2>2 DEF GroupSaved
  <2>4. group' \in Role /\ pc' \in {"save", "data"}
    BY <1>7, SMTT(30) DEF GroupSaved
  <2>5. at' \in [Ranks -> {"idle"}]
    BY <1>7 DEF GroupSaved
  <2>6. UNCHANGED <<disk, step, weights, batches, crashes, saved>>
    BY <1>7 DEF GroupSaved
  <2> QED
    BY <2>1, <2>3, <2>4, <2>5, <2>6, SMTT(30) DEF batches
<1>8. CASE OpensData
  BY <1>8 DEF OpensData
<1>9. CASE ClosesData
  BY <1>9 DEF ClosesData
<1>10. CASE OpensTracker
  BY <1>10 DEF OpensTracker
<1>11. CASE ClosesTracker
  BY <1>11 DEF ClosesTracker, NextStep
<1>12. CASE Crashes
  BY <1>12 DEF Crashes
<1>13. CASE StartsFromScratch
  BY <1>13 DEF StartsFromScratch
<1>14. CASE Resumes
  <2>1. tracker \in Steps /\ pc = "down"
    BY <1>14 DEF Resumes
  <2>2. shard[tracker][1][Rank0] \in Seq(Update)
    <3>1. 1 \in Role /\ Rank0 \in Ranks
      BY RanksAssumption
    <3>2. shard[tracker][1][Rank0] \in File
      BY <2>1, <3>1
    <3> QED
      BY <1>14, <3>1, <3>2 DEF Resumes, Loads, File
  <2>3. position' \in Nat
    BY <1>14, <2>1 DEF Resumes, ResumedPosition, Loads
  <2>4. /\ step' \in Steps /\ weights' \in Seq(Update) /\ pc' \in {"train", "ended"}
        /\ UNCHANGED <<disk, group, at, kept, ahead, lost, dropped, crashes, saved>>
    BY <1>14, <2>1, <2>2 DEF Resumes
  <2>5. step' \in 0..TotalSteps /\ step' # 0
    BY <2>4
  <2> HIDE DEF job, batches
  <2> QED
    BY <2>3, <2>4, <2>5, SMTT(60)
<1>15. CASE FailsToResume
  BY <1>15 DEF FailsToResume
<1>16. CASE Stops
  BY <1>16 DEF Stops, vars, job, batches
<1>17. CASE UNCHANGED vars
  BY <1>17 DEF vars, job, batches
<1> QED
  BY <1>1, <1>d, <1>s, <1>2, <1>3, <1>4, <1>5, <1>6, <1>7, <1>8, <1>9, <1>10, <1>11, <1>12, <1>13, <1>14, <1>15, <1>16, <1>17 DEF Next

\* Every variable keeps its type in every reachable state.
THEOREM TypeCorrect == Spec => []TypeOK
<1>1. Init => TypeOK
  BY TypeInitial
<1>2. TypeOK /\ [Next]_vars => TypeOK'
  BY TypePreserved
<1> QED
  BY <1>1, <1>2, PTL DEF Spec
-----------------------------------------------------------------------------
(* What a save has done so far. *)

LEMMA ProgressPreserved == CInv /\ [Next]_vars => Progress'
<1> SUFFICES ASSUME TypeOK, Progress, Behind, Order, [Next]_vars PROVE Progress'
  BY DEF CInv
<1> USE DEF Progress
<1>1. CASE ReadsAhead \/ Drops
  BY <1>1 DEF ReadsAhead, Drops, job
<1>2. CASE Trains
  <2>1. pc' = "trained" /\ step' = step + 1
    BY <1>2 DEF Trains
  <2>2. Len(weights') = Len(weights) + 1
    BY <1>2, TrainsOn
  <2> QED
    BY <2>1, <2>2
<1>s. CASE RunsShort
  BY <1>s DEF RunsShort
<1>3. CASE Decides
  <2>1. group' = 1 /\ pc' \in {"save", "train", "ended"}
    BY <1>3 DEF Decides, NextStep, Order
  <2> QED
    BY <1>3, <2>1, SizesAssumption DEF Decides
<1>4. CASE Rotates
  <2>1. ASSUME NEW g \in Role, g # group, NEW r \in Ranks
        PROVE  shard'[step][g][r] = shard[step][g][r]
    BY <1>4, <2>1 DEF Rotates, TypeOK
  <2>2. pc = "save" /\ pc' = "shards" /\ group' = group /\ step' = step /\ weights' = weights
    BY <1>4 DEF Rotates
  <2>3. \A r \in Ranks : at'[r] = "barrier"
    BY <1>4 DEF Rotates
  <2> QED
    <3>1. \A g \in Role : g < group => g # group
      BY DEF TypeOK
    <3>2. \A g \in Role : g < group => \A r \in Ranks : shard'[step][g][r] = weights
      BY <2>1, <2>2, <3>1
    <3> QED
      BY <2>2, <2>3, <3>2
<1>5. ASSUME NEW r \in Ranks, OpensShard(r) PROVE Progress'
  <2>1. step \in Steps /\ group \in Role /\ pc = "shards"
    BY <1>5 DEF OpensShard, TypeOK
  <2>2. \A g \in Role : \A q \in Ranks :
          g # group \/ q # r => shard'[step][g][q] = shard[step][g][q]
    BY <1>5, <2>1 DEF OpensShard, TypeOK
  <2>3. at'[r] = "writing" /\ \A q \in Ranks : q # r => at'[q] = at[q]
    BY <1>5 DEF OpensShard, TypeOK
  <2>4. \A g \in Role : g < group => g # group
    BY DEF TypeOK
  <2>5. UNCHANGED <<pc, group, step, weights>>
    BY <1>5 DEF OpensShard
  <2>6. \A g \in Role : g < group => \A q \in Ranks : shard'[step][g][q] = weights
    BY <2>1, <2>2, <2>4
  <2>7. \A q \in Ranks : at'[q] = "written" => shard'[step][group][q] = weights
    BY <2>1, <2>2, <2>3
  <2> QED
    BY <2>1, <2>5, <2>6, <2>7
<1>6. ASSUME NEW r \in Ranks, ClosesShard(r) PROVE Progress'
  <2>1. step \in Steps /\ group \in Role /\ pc = "shards"
    BY <1>6 DEF ClosesShard, TypeOK
  <2>2. /\ \A g \in Role : \A q \in Ranks :
             g # group \/ q # r => shard'[step][g][q] = shard[step][g][q]
        /\ shard'[step][group][r] = weights
    <3>1. shard[step] \in [Role -> [Ranks -> File]] /\ shard \in [Steps -> [Role -> [Ranks -> File]]]
      BY <2>1 DEF TypeOK
    <3>2. shard' = [shard EXCEPT ![step][group][r] = weights]
      BY <1>6 DEF ClosesShard
    <3> QED
      BY <2>1, <3>1, <3>2
  <2>3. \A q \in Ranks : q # r => at'[q] = at[q]
    BY <1>6 DEF ClosesShard, TypeOK
  <2>4. \A g \in Role : g < group => g # group
    BY DEF TypeOK
  <2>5. UNCHANGED <<pc, group, step, weights>>
    BY <1>6 DEF ClosesShard
  <2>6. \A g \in Role : g < group => \A q \in Ranks : shard'[step][g][q] = weights
    BY <2>1, <2>2, <2>4
  <2>7. \A q \in Ranks : at'[q] = "written" => shard'[step][group][q] = weights
    BY <2>1, <2>2, <2>3
  <2> QED
    BY <2>1, <2>5, <2>6, <2>7
<1>7. CASE GroupSaved
  <2>1. \A r \in Ranks : shard[step][group][r] = weights
    BY <1>7 DEF GroupSaved
  <2>2. \A g \in Role : g <= group => \A r \in Ranks : shard[step][g][r] = weights
    BY <1>7, <2>1 DEF GroupSaved, TypeOK
  <2>3. UNCHANGED <<shard, step, weights, data>>
    BY <1>7 DEF GroupSaved
  <2>4. CASE group < Roles
    <3>1. group' = group + 1 /\ pc' = "save"
      BY <1>7, <2>4 DEF GroupSaved
    <3> QED
      BY <2>2, <2>3, <3>1 DEF TypeOK
  <2>5. CASE ~(group < Roles)
    <3>1. pc' = "data" /\ \A g \in Role : g <= group
      BY <1>7, <2>5, SizesAssumption DEF GroupSaved, TypeOK
    <3> QED
      BY <2>2, <2>3, <3>1
  <2> QED
    BY <2>4, <2>5
<1>8. CASE OpensData
  BY <1>8 DEF OpensData
<1>9. CASE ClosesData
  <2>1. step \in Steps /\ position \in Nat
    BY <1>9 DEF ClosesData, TypeOK
  <2> QED
    BY <1>9, <2>1 DEF ClosesData, TypeOK
<1>10. CASE OpensTracker
  BY <1>10 DEF OpensTracker
<1>11. CASE ClosesTracker
  BY <1>11 DEF ClosesTracker, NextStep
<1>12. CASE Crashes
  BY <1>12 DEF Crashes
<1>13. CASE StartsFromScratch
  BY <1>13 DEF StartsFromScratch
<1>14. CASE Resumes
  <2>1. Len(weights') = step' /\ pc' \in {"train", "ended"}
    <3>1. 1 \in Role /\ Rank0 \in Ranks
      BY RanksAssumption, SizesAssumption
    <3> QED
      BY <1>14, <3>1 DEF Resumes, Loads, Behind, Tracked
  <2> QED
    BY <2>1
<1>15. CASE FailsToResume
  BY <1>15 DEF FailsToResume
<1>16. CASE Stops \/ UNCHANGED vars
  BY <1>16 DEF Stops, vars, job, batches
<1> QED
  BY <1>1, <1>s, <1>2, <1>3, <1>4, <1>5, <1>6, <1>7, <1>8, <1>9, <1>10, <1>11, <1>12, <1>13, <1>14, <1>15, <1>16 DEF Next
-----------------------------------------------------------------------------
(* The tracker stays behind. *)

LEMMA FilesApart == NoFile # Torn /\ NoFile \notin Nat /\ Torn \notin Nat
  BY FilesAssumption

LEMMA BehindPreserved == CInv /\ [Next]_vars => Behind'
<1> SUFFICES ASSUME TypeOK, Progress, Behind, Order, [Next]_vars PROVE Behind'
  BY DEF CInv
<1> USE FilesApart DEF Behind
<1>a. ASSUME tracker \in Steps, tracker' = tracker, shard'[tracker] = shard[tracker],
             data'[tracker] = data[tracker]
      PROVE  Tracked'
  BY <1>a DEF Tracked
<1>1. CASE ReadsAhead \/ Drops
  BY <1>1 DEF ReadsAhead, Drops, job, Tracked, Saving
<1>s. CASE RunsShort
  BY <1>s DEF RunsShort, Tracked, Saving
<1>2. CASE Trains
  <2>1. UNCHANGED <<shard, data, tracker, saved>> /\ pc' = "trained" /\ step' = step + 1
        /\ pc = "train" /\ step \in Nat
    BY <1>2 DEF Trains, TypeOK
  <2> QED
    BY <2>1 DEF Tracked, Saving
<1>3. CASE Decides
  <2>1. UNCHANGED <<shard, data, tracker, saved, step>> /\ pc = "trained"
        /\ pc' \in {"save", "train", "ended"} /\ step \in Nat
    BY <1>3 DEF Decides, NextStep, TypeOK
  <2> QED
    BY <2>1 DEF Tracked, Saving
<1>4. CASE Rotates
  <2>1. pc = "save" /\ group \in Role /\ pc' = "shards" /\ UNCHANGED <<data, tracker, saved, step>>
    BY <1>4 DEF Rotates, TypeOK
  <2>2. ASSUME tracker \in Steps
        PROVE  shard'[tracker][1][Rank0] \in {shard[tracker][1][Rank0], NoFile}
    <3>1. 1 \in Role /\ Rank0 \in Ranks
      BY RanksAssumption, SizesAssumption
    <3>2. shard'[tracker] = shard[tracker]
          \/ shard'[tracker] = [shard[tracker] EXCEPT ![group] = [r \in Ranks |-> NoFile]]
      BY <1>4, <2>2 DEF Rotates
    <3>3. shard[tracker] \in [Role -> [Ranks -> File]]
      BY <2>2 DEF TypeOK
    <3>4. CASE shard'[tracker] = shard[tracker]
      BY <3>4
    <3>5. CASE shard'[tracker] = [shard[tracker] EXCEPT ![group] = [r \in Ranks |-> NoFile]]
      <4>1. [r \in Ranks |-> NoFile][Rank0] = NoFile
        BY <3>1
      <4> QED
        BY <2>1, <3>1, <3>3, <3>5, <4>1
    <3> QED
      BY <3>2, <3>4, <3>5
  <2>3. tracker \in Steps => Tracked'
    BY <2>1, <2>2 DEF Tracked
  <2> QED
    BY <2>1, <2>3 DEF Saving, Tracked
<1>5. ASSUME NEW r \in Ranks, OpensShard(r) \/ ClosesShard(r) PROVE Behind'
  <2>1. pc = "shards" /\ UNCHANGED <<data, tracker, saved, step, pc>> /\ step \in Nat
    BY <1>5 DEF OpensShard, ClosesShard, TypeOK
  <2>2. ASSUME tracker \in Steps PROVE shard'[tracker] = shard[tracker]
    <3>1. tracker # step
      BY <2>1, <2>2 DEF Saving
    <3> QED
      BY <1>5, <2>2, <3>1 DEF OpensShard, ClosesShard, TypeOK
  <2>3. tracker \in Steps => Tracked'
    BY <1>a, <2>1, <2>2
  <2> QED
    BY <2>1, <2>3 DEF Saving, Tracked
<1>7. CASE GroupSaved
  <2>1. UNCHANGED <<shard, data, tracker, saved, step>> /\ pc = "shards" /\ pc' \in {"save", "data"}
    BY <1>7 DEF GroupSaved
  <2> QED
    BY <2>1 DEF Tracked, Saving
<1>8. CASE OpensData \/ ClosesData
  <2>1. /\ pc \in {"data", "dataOpen"} /\ pc' \in {"dataOpen", "tracker"}
        /\ UNCHANGED <<shard, tracker, saved, step>> /\ step \in Nat
    BY <1>8 DEF OpensData, ClosesData, TypeOK
  <2>2. ASSUME tracker \in Steps PROVE data'[tracker] = data[tracker]
    <3>1. tracker # step
      BY <2>1, <2>2 DEF Saving
    <3> QED
      BY <1>8, <2>2, <3>1 DEF OpensData, ClosesData, TypeOK
  <2>3. tracker \in Steps => Tracked'
    BY <1>a, <2>1, <2>2
  <2> QED
    BY <2>1, <2>3 DEF Saving, Tracked
<1>9. CASE OpensTracker
  BY <1>9 DEF OpensTracker, Saving
<1>10. CASE ClosesTracker
  <2>1. /\ pc = "trackerOpen" /\ pc' \in {"train", "ended"} /\ tracker' = step /\ saved' = step
        /\ UNCHANGED <<shard, data, step>>
    BY <1>10 DEF ClosesTracker, NextStep
  <2>2. step \in Steps
    BY <2>1 DEF TypeOK
  <2>3. 1 \in Role /\ Rank0 \in Ranks
    BY RanksAssumption, SizesAssumption
  <2>4. data[step] \in Nat /\ shard[step][1][Rank0] = weights /\ weights \in Seq(Update) /\ Len(weights) = step
    BY <2>1, <2>3 DEF Progress, TypeOK
  <2>5. Tracked'
    BY <2>1, <2>4 DEF Tracked
  <2> QED
    BY <2>1, <2>2, <2>5 DEF Saving
<1>12. CASE Crashes
  BY <1>12 DEF Crashes, Tracked, Saving
<1>13. CASE StartsFromScratch
  <2>1. tracker \notin Steps
    BY <1>13 DEF StartsFromScratch, FromScratch, FolderExists, Tracked
  <2> QED
    BY <1>13, <2>1 DEF StartsFromScratch, Saving
<1>14. CASE Resumes
  <2>1. /\ step' = tracker /\ pc' \in {"train", "ended"} /\ tracker \in Steps
        /\ UNCHANGED <<shard, data, tracker, saved>>
    BY <1>14 DEF Resumes
  <2> QED
    BY <2>1 DEF Tracked, Saving
<1>15. CASE FailsToResume
  BY <1>15 DEF FailsToResume, Tracked, Saving
<1>16. CASE Stops \/ UNCHANGED vars
  BY <1>16 DEF Stops, vars, job, batches, Tracked, Saving
<1> QED
  BY <1>1, <1>s, <1>2, <1>3, <1>4, <1>5, <1>7, <1>8, <1>9, <1>10, <1>12, <1>13, <1>14, <1>15, <1>16 DEF Next
-----------------------------------------------------------------------------
(* Where the tracked step may stand among the paths to remove. *)

\* The strictly increasing lists stay so when a larger element is appended.
LEMMA OrderPreserved == CInv /\ [Next]_vars => Order'
<1> SUFFICES ASSUME TypeOK, Behind, Order, [Next]_vars PROVE Order'
  BY DEF CInv
<1> USE FilesApart DEF Order, Unsaved
<1>0. step \in Nat /\ \A g \in Role : Len(kept[g]) \in Nat /\ kept[g] \in Seq(Steps)
  BY DEF TypeOK
<1>b. \A g \in Role : \A i \in 1..Len(kept[g]) : kept[g][i] \in Steps
  BY <1>0, ElementOfSeq
<1>1. CASE ReadsAhead \/ Drops
  BY <1>1 DEF ReadsAhead, Drops, job
<1>s. CASE RunsShort
  BY <1>s DEF RunsShort
<1>2. CASE Trains
  <2>1. UNCHANGED <<kept, tracker, group>> /\ pc' = "trained" /\ step' = step + 1 /\ pc = "train"
    BY <1>2 DEF Trains
  <2>2. \A g \in Role : \A i \in 1..Len(kept[g]) : kept[g][i] < step'
    BY <1>0, <1>b, <2>1
  <2>3. \A g \in Role : \A i \in 1..Len(kept[g]) : kept[g][i] <= step'
    BY <1>0, <1>b, <2>2, <2>1
  <2> QED
    BY <2>1, <2>2, <2>3
<1>3. CASE Decides
  <2>1. UNCHANGED <<kept, tracker, group, step>> /\ pc = "trained" /\ group = 1
        /\ pc' \in {"save", "train", "ended"}
    BY <1>3 DEF Decides, NextStep
  <2>2. \A g \in Role : group <= g
    BY <2>1
  <2> QED
    BY <2>1, <2>2
<1>4. CASE Rotates
  <2> DEFINE E == Excess(group)
  <2>1. /\ pc = "save" /\ pc' = "shards" /\ group \in Role
        /\ UNCHANGED <<tracker, group, step>>
    BY <1>4 DEF Rotates, TypeOK
  <2>2. E \in 0..Len(kept[group])
    BY <2>1, ExcessBounds DEF TypeOK
  <2>3. kept' = [kept EXCEPT ![group] = SubSeq(kept[group], E + 1, Len(kept[group]))]
    BY <1>4 DEF Rotates
  <2>4. /\ kept'[group] = SubSeq(kept[group], E + 1, Len(kept[group]))
        /\ \A g \in Role : g # group => kept'[g] = kept[g]
    BY <2>1, <2>3 DEF TypeOK
  <2> HIDE DEF E
  <2>5. /\ Len(kept'[group]) = Len(kept[group]) - E
        /\ \A i \in 1..Len(kept'[group]) : kept'[group][i] = kept[group][i + E]
    <3>1. E + 1 \in Int /\ Len(kept[group]) \in Int
      BY <1>0, <2>1, <2>2
    <3>2. \A i \in E + 1 .. Len(kept[group]) : kept[group][i] \in Steps
      BY <1>0, <1>b, <2>1, <2>2
    <3>3. /\ Len(SubSeq(kept[group], E + 1, Len(kept[group])))
                = (IF E + 1 <= Len(kept[group]) THEN Len(kept[group]) - (E + 1) + 1 ELSE 0)
          /\ \A i \in 1 .. Len(kept[group]) - (E + 1) + 1 :
               SubSeq(kept[group], E + 1, Len(kept[group]))[i] = kept[group][E + 1 + i - 1]
      BY <3>1, <3>2, SubSeqProperties
    <3>4. Len(kept'[group]) = Len(kept[group]) - E
      BY <1>0, <2>1, <2>2, <2>4, <3>3
    <3>5. ASSUME NEW i \in 1..Len(kept'[group]) PROVE kept'[group][i] = kept[group][i + E]
      <4>1. i \in 1 .. Len(kept[group]) - (E + 1) + 1 /\ E + 1 + i - 1 = i + E
        BY <1>0, <2>1, <2>2, <3>4
      <4> QED
        BY <2>4, <3>3, <4>1
    <3> QED
      BY <3>4, <3>5
  <2>6. \A i \in 1..Len(kept'[group]) :
          i + E \in 1..Len(kept[group])
          /\ (i < Len(kept'[group]) => i + E < Len(kept[group]))
    BY <1>0, <2>1, <2>2, <2>5
  <2>7. ASSUME NEW g \in Role, g = group
        PROVE  /\ \A i, j \in 1..Len(kept'[g]) : i < j => kept'[g][i] < kept'[g][j]
               /\ \A i \in 1..Len(kept'[g]) : kept'[g][i] <= step /\ kept'[g][i] < step
               /\ \A i \in 1..Len(kept'[g]) : i < Len(kept'[g]) => kept'[g][i] # tracker
    <3>1. group <= group
      BY <2>1
    <3>2. ASSUME NEW i \in 1..Len(kept'[group]), NEW j \in 1..Len(kept'[group]), i < j
          PROVE  kept'[group][i] < kept'[group][j]
      <4>1. i + E \in 1..Len(kept[group]) /\ j + E \in 1..Len(kept[group]) /\ i + E < j + E
        BY <1>0, <2>1, <2>2, <2>6, <3>2
      <4>2. kept[group][i + E] < kept[group][j + E]
        BY <2>1, <4>1
      <4> QED
        BY <2>5, <4>2
    <3>3. ASSUME NEW i \in 1..Len(kept'[group])
          PROVE  kept'[group][i] < step /\ (i < Len(kept'[group]) => kept'[group][i] # tracker)
      BY <2>1, <2>5, <2>6, <3>1
    <3>4. \A i \in 1..Len(kept'[group]) : kept'[group][i] <= step
      BY <2>1, <2>5, <2>6
    <3> HIDE DEF Order
    <3> QED
      BY <2>7, <3>2, <3>3, <3>4
  <2>8. ASSUME NEW g \in Role, g # group
        PROVE  /\ \A i, j \in 1..Len(kept'[g]) : i < j => kept'[g][i] < kept'[g][j]
               /\ \A i \in 1..Len(kept'[g]) :
                    kept'[g][i] <= step /\ (group <= g => kept'[g][i] < step)
               /\ group <= g =>
                    \A i \in 1..Len(kept'[g]) : i < Len(kept'[g]) => kept'[g][i] # tracker
    BY <2>1, <2>4, <2>8
  <2> QED
    BY <2>1, <2>7, <2>8
<1>5. CASE \E r \in Ranks : OpensShard(r) \/ ClosesShard(r)
  BY <1>5 DEF OpensShard, ClosesShard
<1>7. CASE GroupSaved
  <2>1. /\ pc = "shards" /\ group \in Role /\ step \in Steps
        /\ UNCHANGED <<tracker, step>>
    BY <1>7 DEF GroupSaved, TypeOK
  <2>2. kept' = [kept EXCEPT ![group] = Append(kept[group], step)]
    BY <1>7 DEF GroupSaved
  <2>3. /\ kept'[group] = Append(kept[group], step)
        /\ \A g \in Role : g # group => kept'[g] = kept[g]
    BY <2>1, <2>2 DEF TypeOK
  <2>4. /\ Len(kept'[group]) = Len(kept[group]) + 1
        /\ \A i \in 1..Len(kept[group]) : kept'[group][i] = kept[group][i]
        /\ kept'[group][Len(kept[group]) + 1] = step
    BY <1>0, <2>1, <2>3, AppendProperties
  <2>5. \A i \in 1..Len(kept[group]) : kept[group][i] < step
    BY <2>1
  <2>6. /\ \A i, j \in 1..Len(kept'[group]) : i < j => kept'[group][i] < kept'[group][j]
        /\ \A i \in 1..Len(kept'[group]) : kept'[group][i] <= step
    <3>1. \A i \in 1..Len(kept'[group]) :
            i \in 1..Len(kept[group]) \/ i = Len(kept[group]) + 1
      BY <1>0, <2>1, <2>4
    <3>2. ASSUME NEW i \in 1..Len(kept'[group]) PROVE kept'[group][i] <= step
      <4>1. CASE i \in 1..Len(kept[group])
        BY <2>1, <2>4, <4>1
      <4>2. CASE i = Len(kept[group]) + 1
        BY <1>0, <2>4, <4>2
      <4> QED
        BY <3>1, <4>1, <4>2
    <3>3. ASSUME NEW i \in 1..Len(kept'[group]), NEW j \in 1..Len(kept'[group]), i < j
          PROVE  kept'[group][i] < kept'[group][j]
      <4>1. i \in 1..Len(kept[group])
        BY <1>0, <2>1, <2>4, <3>3
      <4>2. CASE j \in 1..Len(kept[group])
        BY <2>1, <2>4, <3>3, <4>1, <4>2
      <4>3. CASE j = Len(kept[group]) + 1
        BY <2>4, <2>5, <4>1, <4>3
      <4> QED
        BY <3>1, <4>2, <4>3
    <3> QED
      BY <3>2, <3>3
  <2>7. \/ group' = group + 1 /\ pc' = "save"
        \/ group' = 1 /\ pc' = "data"
    BY <1>7 DEF GroupSaved
  <2>8. ASSUME NEW g \in Role
        PROVE  /\ \A i, j \in 1..Len(kept'[g]) : i < j => kept'[g][i] < kept'[g][j]
               /\ \A i \in 1..Len(kept'[g]) : kept'[g][i] <= step
    BY <2>1, <2>3, <2>6
  <2>9. ASSUME NEW g \in Role, Unsaved(g)'
        PROVE  /\ \A i \in 1..Len(kept'[g]) : kept'[g][i] < step
               /\ \A i \in 1..Len(kept'[g]) : i < Len(kept'[g]) => kept'[g][i] # tracker
    <3>1. group' = group + 1 /\ group' <= g
      BY <2>7, <2>9
    <3>2. g # group /\ group <= g
      BY <2>1, <3>1
    <3> QED
      BY <2>1, <2>3, <3>2
  <2> QED
    BY <2>1, <2>7, <2>8, <2>9
<1>8. CASE OpensData \/ ClosesData \/ OpensTracker
  BY <1>8 DEF OpensData, ClosesData, OpensTracker
<1>9. CASE ClosesTracker
  <2>1. /\ pc = "trackerOpen" /\ pc' \in {"train", "ended"} /\ tracker' = step
        /\ UNCHANGED <<kept, group, step>>
    BY <1>9 DEF ClosesTracker, NextStep
  <2>2. ASSUME NEW g \in Role, NEW i \in 1..Len(kept[g]), i < Len(kept[g])
        PROVE  kept[g][i] # step
    <3>1. Len(kept[g]) \in 1..Len(kept[g])
      BY <1>0
    <3>2. kept[g][i] < kept[g][Len(kept[g])] /\ kept[g][Len(kept[g])] <= step
      BY <2>2, <3>1
    <3>3. kept[g][i] \in Nat /\ kept[g][Len(kept[g])] \in Nat
      BY <1>b, <3>1
    <3> QED
      BY <1>0, <3>2, <3>3
  <2> QED
    BY <2>1, <2>2
<1>12. CASE Crashes
  BY <1>12 DEF Crashes
<1>13. CASE StartsFromScratch
  BY <1>13 DEF StartsFromScratch
<1>14. CASE Resumes
  BY <1>14 DEF Resumes
<1>15. CASE FailsToResume
  BY <1>15 DEF FailsToResume
<1>16. CASE Stops \/ UNCHANGED vars
  BY <1>16 DEF Stops, vars, job, batches
<1> QED
  BY <1>1, <1>s, <1>2, <1>3, <1>4, <1>5, <1>7, <1>8, <1>9, <1>12, <1>13, <1>14, <1>15, <1>16 DEF Next
-----------------------------------------------------------------------------
(* The theorems. *)

LEMMA InvInitial == Init => CInv
<1> SUFFICES ASSUME Init PROVE CInv
  OBVIOUS
<1>1. TypeOK
  BY TypeInitial
<1>2. Progress /\ Behind /\ Order
  BY FilesApart, SizesAssumption DEF Init, Progress, Behind, Order, Unsaved, Saving
<1> QED
  BY <1>1, <1>2 DEF CInv

LEMMA InvPreserved == CInv /\ [Next]_vars => CInv'
  BY TypePreserved, ProgressPreserved, BehindPreserved, OrderPreserved DEF CInv

LEMMA CInvariance == Spec => []CInv
  BY InvInitial, InvPreserved, PTL DEF Spec

\* With at least two checkpoints kept the rotation never reaches the tracked one.
KeepsTwo == \A g \in Role : MaxKeep[g] # 1

LEMMA CompletePreserved ==
    ASSUME KeepsTwo PROVE CInv /\ TrackerNamesComplete /\ [Next]_vars => TrackerNamesComplete'
<1> SUFFICES ASSUME TypeOK, Progress, Behind, Order, TrackerNamesComplete, [Next]_vars, tracker' \in Steps
             PROVE  Complete(tracker)'
  BY DEF CInv, TrackerNamesComplete
<1>a. ASSUME tracker' = tracker, shard'[tracker] = shard[tracker], data'[tracker] = data[tracker]
      PROVE  Complete(tracker)'
  BY <1>a DEF Complete, TrackerNamesComplete
<1>1. CASE UNCHANGED <<shard, data, tracker>>
  BY <1>1, <1>a
<1>2. CASE Rotates
  <2>1. pc = "save" /\ group \in Role /\ UNCHANGED <<data, tracker>>
    BY <1>2 DEF Rotates, TypeOK
  <2>2. ASSUME NEW i \in 1..Excess(group) PROVE kept[group][i] # tracker
    <3>1. Excess(group) \in Nat /\ Len(kept[group]) \in Nat /\ Excess(group) <= Len(kept[group])
      BY <2>1, ExcessBounds DEF TypeOK
    <3>2. Excess(group) < Len(kept[group])
      BY <2>1, <3>1, ExcessBounds DEF KeepsTwo, TypeOK
    <3>3. i \in 1..Len(kept[group]) /\ i < Len(kept[group])
      BY <3>1, <3>2
    <3>4. group <= group
      BY <2>1
    <3> QED
      BY <2>1, <3>3, <3>4 DEF Order, Unsaved
  <2>3. shard'[tracker] = shard[tracker]
    BY <1>2, <2>1, <2>2 DEF Rotates
  <2> QED
    BY <1>a, <2>1, <2>3
<1>3. CASE \E r \in Ranks : OpensShard(r) \/ ClosesShard(r)
  <2>1. pc = "shards" /\ UNCHANGED <<data, tracker>> /\ step \in Nat
    BY <1>3 DEF OpensShard, ClosesShard, TypeOK
  <2>2. tracker # step
    BY <2>1 DEF Behind, Saving
  <2>3. shard'[tracker] = shard[tracker]
    BY <1>3, <2>1, <2>2 DEF OpensShard, ClosesShard, TypeOK
  <2> QED
    BY <1>a, <2>1, <2>3
<1>4. CASE OpensData \/ ClosesData
  <2>1. pc \in {"data", "dataOpen"} /\ UNCHANGED <<shard, tracker>> /\ step \in Nat
    BY <1>4 DEF OpensData, ClosesData, TypeOK
  <2>2. tracker # step
    BY <2>1 DEF Behind, Saving
  <2>3. data'[tracker] = data[tracker]
    BY <1>4, <2>1, <2>2 DEF OpensData, ClosesData, TypeOK
  <2> QED
    BY <1>a, <2>1, <2>3
<1>5. CASE OpensTracker
  BY <1>5, FilesApart DEF OpensTracker
<1>6. CASE ClosesTracker
  <2>1. pc = "trackerOpen" /\ tracker' = step /\ UNCHANGED <<shard, data, step>>
    BY <1>6 DEF ClosesTracker
  <2>2. 1 \in Role /\ Rank0 \in Ranks
    BY RanksAssumption, SizesAssumption
  <2>3. Complete(step)
    BY <2>1, <2>2 DEF Progress, TypeOK, Complete
  <2> QED
    BY <2>1, <2>3 DEF Complete
<1> QED
  BY <1>1, <1>2, <1>3, <1>4, <1>5, <1>6
  DEF Next, ReadsAhead, Drops, Trains, RunsShort, Decides, GroupSaved, Crashes, StartsFromScratch, Resumes, FailsToResume, Stops,
      vars, job, batches

LEMMA CompleteInitial == Init => TrackerNamesComplete
  BY FilesApart DEF Init, TrackerNamesComplete

\* With at least two checkpoints kept, or all of them, whatever instant the job is
\* killed at, the step in the tracker file has all its files, of one job and one
\* step: the rotation never reaches the checkpoint a restart would load
\* (ray_trainer.py 938-1005, fsdp_checkpoint_manager.py 203-214).
THEOREM RestartIsPossible ==
    ASSUME KeepsTwo PROVE Spec => []TrackerNamesComplete
<1> QED
  BY CInvariance, CompleteInitial, CompletePreserved, PTL DEF Spec

\* Then a restart is refused only if the job was killed while it wrote the tracker
\* file itself: exactly what the comment at ray_trainer.py:991 hopes to exclude.
THEOREM RestartIsRefusedOnlyIfTorn ==
    ASSUME KeepsTwo PROVE Spec => []RestartsFromTracker
<1>1. Init => RestartsFromTracker
  BY DEF Init, RestartsFromTracker
<1>2. CInv /\ TrackerNamesComplete /\ RestartsFromTracker /\ [Next]_vars => RestartsFromTracker'
  <2> SUFFICES ASSUME TypeOK, TrackerNamesComplete, RestartsFromTracker, [Next]_vars, pc' = "failed"
               PROVE  tracker' = Torn
    BY DEF CInv, RestartsFromTracker
  <2>1. FailsToResume \/ (pc = "failed" /\ UNCHANGED tracker)
    BY DEF Next, ReadsAhead, Drops, Trains, RunsShort, Decides, NextStep, Rotates, OpensShard, ClosesShard, GroupSaved, OpensData,
           ClosesData, OpensTracker, ClosesTracker, Crashes, StartsFromScratch, Resumes, Stops, vars, job, batches
  <2>2. CASE FailsToResume
    <3>1. ASSUME tracker \in Steps PROVE Loads(tracker)
      <4>1. Complete(tracker)
        BY <3>1 DEF TrackerNamesComplete
      <4>2. shard[tracker][1][Rank0] \notin {NoFile, Torn} /\ data[tracker] # Torn
        BY <4>1, FilesAssumption DEF Complete
      <4> QED
        BY <4>1, <4>2 DEF Complete, Loads
    <3> QED
      BY <2>2, <3>1 DEF FailsToResume
  <2> QED
    BY <2>1, <2>2 DEF RestartsFromTracker
<1> QED
  BY <1>1, <1>2, CInvariance, RestartIsPossible, PTL DEF Spec

\* A restart goes on from the last save that ended, and only from there, however few
\* checkpoints are kept (ray_trainer.py 1007-1060).
THEOREM RestartIsLatest == Spec => ResumesLatestSave
<1>1. CInv /\ [Next]_vars =>
        [pc = "down" /\ pc' \in {"train", "ended"} => step' = saved /\ Len(weights') = saved]_vars
  <2> SUFFICES ASSUME CInv, Next, pc = "down", pc' \in {"train", "ended"}
               PROVE  step' = saved /\ Len(weights') = saved
    BY DEF vars, job, batches
  <2> USE DEF CInv
  <2>1. StartsFromScratch \/ Resumes
    BY DEF Next, ReadsAhead, Drops, Trains, RunsShort, Decides, Rotates, OpensShard, ClosesShard, GroupSaved,
           OpensData, ClosesData, OpensTracker, ClosesTracker, Crashes, FailsToResume, Stops, vars, job, batches
  <2>2. CASE StartsFromScratch
    <3>1. tracker \notin Steps
      BY <2>2, FilesApart DEF StartsFromScratch, FromScratch, FolderExists, Behind, Tracked
    <3>2. tracker = NoFile
      BY <2>2, <3>1 DEF StartsFromScratch, FromScratch
    <3>3. UNCHANGED <<step, weights>> /\ saved = 0
      BY <2>2, <3>2 DEF StartsFromScratch, Behind
    <3> QED
      BY <3>3 DEF Progress
  <2>3. CASE Resumes
    <3>1. 1 \in Role /\ Rank0 \in Ranks
      BY RanksAssumption, SizesAssumption
    <3> QED
      BY <2>3, <3>1 DEF Resumes, Loads, Behind, Tracked
  <2> QED
    BY <2>1, <2>2, <2>3
<1> QED
  BY <1>1, CInvariance, PTL DEF Spec, ResumesLatestSave
-----------------------------------------------------------------------------
(* The batches a job trained on. *)

\* No batch twice, and those of an earlier job before those of a later one.
Once(w) ==
    \A i, j \in 1..Len(w) : i < j =>
        w[i][2] # w[j][2] /\ (w[i][1] # w[j][1] => w[i][2] < w[j][2])
Upto(w, p) == \A i \in 1..Len(w) : w[i][2] <= p

\* A batch in flight has not been trained on, and comes after all those of earlier jobs.
Pending ==
    /\ IsFiniteSet(ahead) /\ Cardinality(ahead) <= MaxAhead
    /\ \A b \in ahead :
         /\ b <= position
         /\ \A i \in 1..Len(weights) :
              weights[i][2] # b /\ (weights[i][1] # crashes => weights[i][2] < b)

\* What the jobs before this one may have skipped.
Skipped == MaxAhead * crashes + dropped

JobLineage ==
    /\ Pending
    /\ Once(weights) /\ Upto(weights, position)
    /\ position <= step + Cardinality(ahead) + Skipped
    /\ pc = "down" => ahead = {}
    /\ pc \in {"tracker", "trackerOpen"} =>
         Upto(weights, data[step]) /\ data[step] <= step + MaxAhead + Skipped

\* A checkpoint may skip what its job had in flight: it is resumed after one more crash.
Reach == MaxAhead * (IF pc \in {"down", "failed"} THEN crashes ELSE crashes + 1) + dropped
TrackedLineage ==
    tracker \in Steps /\ shard[tracker][1][Rank0] # NoFile =>
        /\ Once(shard[tracker][1][Rank0]) /\ Upto(shard[tracker][1][Rank0], data[tracker])
        /\ data[tracker] <= tracker + Reach

LineageInv == CInv /\ JobLineage /\ TrackedLineage

LEMMA FirstFile == 1 \in Role /\ Rank0 \in Ranks
  BY RanksAssumption, SizesAssumption

LEMMA Products ==
    /\ \A c \in Nat : MaxAhead * c \in Nat /\ MaxAhead * (c + 1) = MaxAhead * c + MaxAhead
    /\ MaxAhead \in Nat
  BY SizesAssumption

LEMMA NumbersTyped ==
    ASSUME CInv
    PROVE  /\ {step, position, crashes, dropped} \subseteq Nat /\ Len(weights) = step
           /\ weights \in Seq(Update) /\ ahead \in SUBSET Nat /\ Skipped \in Nat /\ MaxAhead \in Nat
           /\ \A i \in 1..Len(weights) : weights[i][1] \in Nat /\ weights[i][2] \in Nat
<1>1. TypeOK /\ Progress
  BY DEF CInv
<1>2. /\ {step, position, crashes, dropped} \subseteq Nat /\ weights \in Seq(Update) /\ ahead \in SUBSET Nat
      /\ Len(weights) = step
  BY <1>1 DEF TypeOK, Progress
<1>3. Skipped \in Nat /\ MaxAhead \in Nat
  BY <1>2, Products DEF Skipped
<1>4. ASSUME NEW i \in 1..Len(weights) PROVE weights[i][1] \in Nat /\ weights[i][2] \in Nat
  <2>1. weights[i] \in Nat \X Nat
    BY <1>2, ElementOfSeq DEF Update
  <2> QED
    BY <2>1
<1> QED
  BY <1>2, <1>3, <1>4

\* The weights after a batch that they had not seen, from a job that comes after those they know.
LEMMA NextBatch ==
    ASSUME NEW w \in Seq(Update), NEW p \in Nat, NEW c \in Nat, NEW b \in Nat,
           Once(w), Upto(w, p), b <= p,
           \A i \in 1..Len(w) : w[i][2] # b /\ (w[i][1] # c => w[i][2] < b)
    PROVE  LET w2 == Append(w, <<c, b>>)
           IN  /\ Once(w2) /\ Upto(w2, p) /\ Len(w2) = Len(w) + 1 /\ w2[Len(w) + 1] = <<c, b>>
               /\ \A i \in 1..Len(w) : w2[i] = w[i]
<1> DEFINE w2 == Append(w, <<c, b>>)
<1>1. <<c, b>> \in Update /\ Len(w) \in Nat
  BY DEF Update
<1>2. /\ Len(w2) = Len(w) + 1 /\ w2[Len(w) + 1] = <<c, b>>
      /\ \A i \in 1..Len(w) : w2[i] = w[i]
  BY <1>1, AppendProperties
<1>3. w2[Len(w) + 1][1] = c /\ w2[Len(w) + 1][2] = b
  BY <1>2
<1> HIDE DEF w2
<1>4. \A i \in 1..Len(w2) : i \in 1..Len(w) \/ i = Len(w) + 1
  BY <1>1, <1>2
<1>5. Upto(w2, p)
  <2> SUFFICES ASSUME NEW i \in 1..Len(w2) PROVE w2[i][2] <= p
    BY DEF Upto
  <2>1. CASE i \in 1..Len(w)
    BY <1>2, <2>1 DEF Upto
  <2>2. CASE i = Len(w) + 1
    BY <1>3, <2>2
  <2> QED
    BY <1>4, <2>1, <2>2
<1>6. Once(w2)
  <2> SUFFICES ASSUME NEW i \in 1..Len(w2), NEW j \in 1..Len(w2), i < j
               PROVE  w2[i][2] # w2[j][2] /\ (w2[i][1] # w2[j][1] => w2[i][2] < w2[j][2])
    BY DEF Once
  <2>1. i \in 1..Len(w)
    BY <1>1, <1>2
  <2>2. CASE j \in 1..Len(w)
    BY <1>2, <2>1, <2>2 DEF Once
  <2>3. CASE j = Len(w) + 1
    BY <1>2, <1>3, <2>1, <2>3
  <2> QED
    BY <1>4, <2>2, <2>3
<1> QED
  BY <1>2, <1>5, <1>6 DEF w2

LEMMA JobLineagePreserved ==
    ASSUME LineageInv, CInv', [Next]_vars PROVE JobLineage'
<1>0. /\ CInv /\ JobLineage /\ TrackedLineage /\ Pending /\ TypeOK
      /\ {step, position, crashes, dropped} \subseteq Nat /\ Len(weights) = step
      /\ weights \in Seq(Update) /\ ahead \in SUBSET Nat /\ Skipped \in Nat /\ MaxAhead \in Nat
      /\ IsFiniteSet(ahead) /\ Cardinality(ahead) \in Nat /\ Cardinality(ahead) <= MaxAhead
      /\ \A i \in 1..Len(weights) : weights[i][1] \in Nat /\ weights[i][2] \in Nat
  <2>1. CInv /\ JobLineage /\ TrackedLineage /\ Pending /\ TypeOK /\ IsFiniteSet(ahead)
        /\ Cardinality(ahead) <= MaxAhead
    BY DEF LineageInv, JobLineage, Pending, CInv
  <2> QED
    BY <2>1, NumbersTyped, FS_CardinalityType
<1>a. ASSUME UNCHANGED <<weights, step, position, ahead, crashes, dropped>>, pc' # "down" \/ pc = "down",
             pc' \in {"tracker", "trackerOpen"} =>
               Upto(weights, data'[step]) /\ data'[step] <= step + MaxAhead + Skipped
      PROVE  JobLineage'
  <2>1. Skipped' = Skipped /\ Pending'
    BY <1>0, <1>a DEF Skipped, Pending
  <2> QED
    BY <1>0, <1>a, <2>1 DEF JobLineage, Once, Upto
<1>b. ASSUME UNCHANGED <<disk, pc, step, weights, crashes>>, Pending', Skipped <= Skipped', Skipped' \in Nat,
             pc # "down", position' \in Nat, position <= position',
             position' <= step + Cardinality(ahead') + Skipped'
      PROVE  JobLineage'
  <2>1. Once(weights)' /\ Upto(weights, position)'
    <3>1. Once(weights) /\ Upto(weights, position) /\ weights' = weights
      BY <1>0, <1>b DEF JobLineage
    <3>2. Once(weights)'
      BY <3>1 DEF Once
    <3>3. ASSUME NEW i \in 1..Len(weights) PROVE weights[i][2] <= position'
      <4>1. weights[i][2] \in Nat /\ weights[i][2] <= position
        BY <1>0, <3>1 DEF Upto
      <4> QED
        BY <1>0, <1>b, <4>1
    <3> QED
      BY <3>1, <3>2, <3>3 DEF Upto
  <2>2. ASSUME pc \in {"tracker", "trackerOpen"}
        PROVE  Upto(weights, data[step])' /\ data'[step'] <= step' + MaxAhead + Skipped'
    <3>1. data[step] \in Nat /\ Upto(weights, data[step]) /\ data[step] <= step + MaxAhead + Skipped
      BY <1>0, <2>2 DEF JobLineage, CInv, Progress
    <3>2. UNCHANGED <<data, step, weights>>
      BY <1>b
    <3>3. Upto(weights, data[step])'
      BY <3>1, <3>2 DEF Upto
    <3> QED
      BY <1>0, <1>b, <3>1, <3>2, <3>3
  <2> QED
    BY <1>b, <2>1, <2>2 DEF JobLineage
<1>1. CASE ReadsAhead
  <2>1. /\ position' = position + 1 /\ ahead' = ahead \cup {position + 1} /\ Cardinality(ahead) < MaxAhead
        /\ pc # "down" /\ UNCHANGED <<disk, pc, step, weights, crashes, dropped>>
    BY <1>1 DEF ReadsAhead, Up, job
  <2>2. \A b \in ahead : b <= position /\ b \in Nat
    BY <1>0 DEF Pending
  <2>3. position + 1 \notin ahead
    BY <1>0, <2>2
  <2>4. IsFiniteSet(ahead') /\ Cardinality(ahead') = Cardinality(ahead) + 1
    BY <1>0, <2>1, <2>3, FS_AddElement
  <2>5. \A i \in 1..Len(weights) : weights[i][2] \in Nat /\ weights[i][2] <= position
    BY <1>0 DEF JobLineage, Upto
  <2>6. Pending'
    <3>1. Cardinality(ahead') <= MaxAhead
      BY <1>0, <2>1, <2>4
    <3>2. ASSUME NEW b \in ahead'
          PROVE  /\ b <= position'
                 /\ \A i \in 1..Len(weights) :
                      weights[i][2] # b /\ (weights[i][1] # crashes => weights[i][2] < b)
      <4>1. CASE b \in ahead
        BY <1>0, <2>1, <2>2, <4>1 DEF Pending
      <4>2. CASE b = position + 1
        BY <1>0, <2>1, <2>5, <4>2
      <4> QED
        BY <2>1, <4>1, <4>2
    <3> QED
      BY <2>1, <2>4, <3>1, <3>2 DEF Pending
  <2>7. Skipped' = Skipped
    BY <2>1 DEF Skipped
  <2>8. position' <= step + Cardinality(ahead') + Skipped'
    BY <1>0, <2>1, <2>4, <2>7 DEF JobLineage
  <2> QED
    BY <1>0, <1>b, <2>1, <2>6, <2>7, <2>8
<1>2. CASE Drops
  <2>1. PICK b \in ahead : ahead' = ahead \ {b}
    BY <1>2 DEF Drops
  <2>2. pc # "down" /\ dropped' = dropped + 1 /\ UNCHANGED <<disk, pc, step, weights, position, crashes>>
    BY <1>2 DEF Drops, Up, job
  <2>3. IsFiniteSet(ahead') /\ Cardinality(ahead') = Cardinality(ahead) - 1
    BY <1>0, <2>1, FS_RemoveElement
  <2>4. Pending'
    BY <1>0, <2>1, <2>2, <2>3 DEF Pending
  <2>5. Skipped' = Skipped + 1
    <3>1. MaxAhead * crashes \in Nat
      BY <1>0, Products
    <3> QED
      BY <1>0, <2>2, <3>1 DEF Skipped
  <2>6. position' <= step + Cardinality(ahead') + Skipped'
    BY <1>0, <2>2, <2>3, <2>5 DEF JobLineage
  <2> QED
    BY <1>0, <1>b, <2>2, <2>4, <2>5, <2>6
<1>3. CASE Trains
  <2>1. PICK b \in Nat :
             /\ weights' = Append(weights, <<crashes, b>>) /\ ahead' = ahead \ {b}
             /\ \/ b \in ahead /\ position' = position
                \/ ahead = {} /\ b = position + 1 /\ position' = position + 1
    BY <1>0, <1>3, TrainsOn
  <2>2. pc' = "trained" /\ step' = step + 1 /\ UNCHANGED <<crashes, dropped>>
    BY <1>3 DEF Trains
  <2>3. Skipped' = Skipped
    BY <2>2 DEF Skipped
  <2>4. /\ position' \in Nat /\ b <= position' /\ position <= position'
        /\ \A i \in 1..Len(weights) : weights[i][2] # b /\ (weights[i][1] # crashes => weights[i][2] < b)
    <3>1. CASE b \in ahead /\ position' = position
      BY <1>0, <3>1 DEF Pending
    <3>2. CASE b = position + 1 /\ position' = position + 1
      BY <1>0, <3>2 DEF JobLineage, Upto
    <3> QED
      BY <2>1, <3>1, <3>2
  <2>5. Once(weights) /\ Upto(weights, position')
    BY <1>0, <2>4 DEF JobLineage, Upto
  <2>6. /\ Once(weights') /\ Upto(weights', position') /\ Len(weights') = Len(weights) + 1
        /\ weights'[Len(weights) + 1] = <<crashes, b>>
        /\ \A i \in 1..Len(weights) : weights'[i] = weights[i]
    BY <1>0, <2>1, <2>4, <2>5, NextBatch
  <2>7. /\ IsFiniteSet(ahead') /\ Cardinality(ahead') <= Cardinality(ahead) /\ Cardinality(ahead') \in Nat
        /\ position' <= step' + Cardinality(ahead') + Skipped'
    <3>1. CASE b \in ahead /\ position' = position
      <4>1. IsFiniteSet(ahead') /\ Cardinality(ahead') = Cardinality(ahead) - 1 /\ Cardinality(ahead') \in Nat
        BY <1>0, <2>1, <3>1, FS_RemoveElement, FS_CardinalityType
      <4> QED
        BY <1>0, <2>2, <2>3, <3>1, <4>1 DEF JobLineage
    <3>2. CASE ahead = {} /\ position' = position + 1
      <4>1. ahead' = ahead
        BY <2>1, <3>2
      <4> QED
        BY <1>0, <2>2, <2>3, <3>2, <4>1 DEF JobLineage
    <3> QED
      BY <2>1, <3>1, <3>2
  <2>8. ASSUME NEW a \in ahead'
        PROVE  /\ a <= position'
               /\ \A i \in 1..Len(weights') :
                    weights'[i][2] # a /\ (weights'[i][1] # crashes => weights'[i][2] < a)
    <3>1. a \in ahead /\ a # b
      BY <2>1
    <3>2. ASSUME NEW i \in 1..Len(weights')
          PROVE  weights'[i][2] # a /\ (weights'[i][1] # crashes => weights'[i][2] < a)
      <4>1. CASE i \in 1..Len(weights)
        BY <1>0, <2>6, <3>1, <4>1 DEF Pending
      <4>2. CASE i = Len(weights) + 1
        BY <2>6, <3>1, <4>2
      <4> QED
        BY <1>0, <2>6, <4>1, <4>2
    <3>3. a \in Nat /\ a <= position
      BY <1>0, <3>1 DEF Pending
    <3> QED
      BY <1>0, <2>4, <3>2, <3>3
  <2>9. Pending'
    <3>1. Cardinality(ahead') <= MaxAhead
      BY <1>0, <2>7
    <3> QED
      BY <2>2, <2>7, <2>8, <3>1 DEF Pending
  <2>10. Once(weights)' /\ Upto(weights, position)'
    BY <2>6 DEF Once, Upto
  <2> QED
    BY <2>2, <2>7, <2>9, <2>10 DEF JobLineage
<1>4. CASE RunsShort \/ Decides \/ Rotates \/ (\E r \in Ranks : OpensShard(r) \/ ClosesShard(r)) \/ GroupSaved
           \/ StartsFromScratch \/ FailsToResume
  <2>1. UNCHANGED <<weights, step, batches, crashes>> /\ (pc' # "down" \/ pc = "down")
        /\ pc' \notin {"tracker", "trackerOpen"}
    BY <1>4 DEF RunsShort, Decides, NextStep, Rotates, OpensShard, ClosesShard, GroupSaved, StartsFromScratch,
                FailsToResume
  <2> QED
    BY <1>a, <2>1 DEF batches
<1>5. CASE OpensData \/ OpensTracker \/ ClosesTracker
  <2>1. UNCHANGED <<weights, step, batches, crashes>> /\ pc' # "down"
    BY <1>5 DEF OpensData, OpensTracker, ClosesTracker, NextStep
  <2>2. pc' \in {"tracker", "trackerOpen"} => UNCHANGED data /\ pc = "tracker"
    BY <1>5 DEF OpensData, OpensTracker, ClosesTracker, NextStep
  <2>3. pc' \in {"tracker", "trackerOpen"} =>
          Upto(weights, data'[step]) /\ data'[step] <= step + MaxAhead + Skipped
    BY <1>0, <2>2 DEF JobLineage
  <2> QED
    BY <1>a, <2>1, <2>3 DEF batches
<1>6. CASE ClosesData
  <2>1. UNCHANGED <<weights, step, batches, crashes>> /\ pc' # "down" /\ data' = [data EXCEPT ![step] = position]
        /\ pc = "dataOpen"
    BY <1>6 DEF ClosesData
  <2>2. data'[step] = position
    BY <1>0, <2>1 DEF CInv, TypeOK
  <2>3. Upto(weights, position) /\ position <= step + MaxAhead + Skipped
    BY <1>0 DEF JobLineage
  <2> QED
    BY <1>a, <2>1, <2>2, <2>3 DEF batches
<1>7. CASE Crashes
  <2>1. /\ pc' = "down" /\ step' = 0 /\ weights' = <<>> /\ position' = 0 /\ ahead' = {} /\ crashes' = crashes + 1
        /\ dropped' = dropped
    BY <1>7 DEF Crashes
  <2>2. Len(weights') = 0 /\ IsFiniteSet(ahead') /\ Cardinality(ahead') = 0
    BY <2>1, EmptySeq, FS_EmptySet
  <2>3. Skipped' \in Nat
    BY <1>0, <2>1, Products DEF Skipped
  <2>4. Once(weights)' /\ Upto(weights, position)'
    BY <2>2 DEF Once, Upto
  <2>5. Pending'
    BY <1>0, <2>1, <2>2 DEF Pending
  <2> QED
    BY <2>1, <2>2, <2>3, <2>4, <2>5 DEF JobLineage
<1>8. CASE Resumes
  <2>1. /\ pc = "down" /\ tracker \in Steps /\ Loads(tracker) /\ step' = tracker
        /\ weights' = shard[tracker][1][Rank0] /\ position' = ResumedPosition(tracker)
        /\ pc' \in {"train", "ended"} /\ UNCHANGED <<data, ahead, crashes, dropped>>
    BY <1>8 DEF Resumes
  <2>2. shard[tracker][1][Rank0] # NoFile /\ data[tracker] \in Nat
    BY <1>0, <2>1, FirstFile DEF Loads, CInv, Behind, Tracked
  <2>3. position' = data[tracker] /\ ahead' = {}
    BY <1>0, <2>1, <2>2, FilesApart DEF ResumedPosition, JobLineage
  <2>4. IsFiniteSet(ahead') /\ Cardinality(ahead') = 0
    BY <2>3, FS_EmptySet
  <2>5. /\ Once(shard[tracker][1][Rank0]) /\ Upto(shard[tracker][1][Rank0], data[tracker])
        /\ data[tracker] <= tracker + Skipped
    BY <1>0, <2>1, <2>2 DEF TrackedLineage, Reach, Skipped
  <2>6. Once(weights)' /\ Upto(weights, position)'
    BY <2>1, <2>3, <2>5 DEF Once, Upto
  <2>7. position' <= step' + Cardinality(ahead') + Skipped'
    <3>1. Skipped' = Skipped
      BY <2>1 DEF Skipped
    <3> QED
      BY <1>0, <2>1, <2>2, <2>3, <2>4, <2>5, <3>1
  <2>8. Pending'
    BY <1>0, <2>3, <2>4 DEF Pending
  <2> QED
    BY <2>1, <2>3, <2>6, <2>7, <2>8 DEF JobLineage
<1>9. CASE Stops \/ UNCHANGED vars
  <2>1. UNCHANGED <<weights, step, position, ahead, crashes, dropped, pc, data>>
    BY <1>9 DEF Stops, vars, job, batches
  <2> QED
    BY <1>0, <1>a, <2>1 DEF JobLineage
<1> QED
  BY <1>1, <1>2, <1>3, <1>4, <1>5, <1>6, <1>7, <1>8, <1>9 DEF Next

\* The tracked files are written and removed with a save, never changed.
LEMMA TrackedStays ==
    ASSUME CInv, [Next]_vars, tracker \in Steps, tracker' = tracker
    PROVE  /\ data'[tracker] = data[tracker]
           /\ shard'[tracker][1][Rank0] \in {shard[tracker][1][Rank0], NoFile}
<1>0. TypeOK /\ Behind /\ 1 \in Role /\ Rank0 \in Ranks
  BY FirstFile DEF CInv
<1>1. CASE Rotates
  <2>1. UNCHANGED data /\ group \in Role
    BY <1>0, <1>1 DEF Rotates, TypeOK
  <2>2. \/ shard'[tracker] = shard[tracker]
        \/ shard'[tracker] = [shard[tracker] EXCEPT ![group] = [r \in Ranks |-> NoFile]]
    BY <1>1 DEF Rotates
  <2>3. shard[tracker] \in [Role -> [Ranks -> File]] /\ [r \in Ranks |-> NoFile][Rank0] = NoFile
    BY <1>0 DEF TypeOK
  <2>4. CASE shard'[tracker] = shard[tracker]
    BY <2>1, <2>4
  <2>5. CASE shard'[tracker] = [shard[tracker] EXCEPT ![group] = [r \in Ranks |-> NoFile]]
    BY <1>0, <2>1, <2>3, <2>5
  <2> QED
    BY <2>2, <2>4, <2>5
<1>2. CASE \E r \in Ranks : OpensShard(r) \/ ClosesShard(r)
  <2>1. pc = "shards" /\ UNCHANGED data /\ step \in Nat
    BY <1>0, <1>2 DEF OpensShard, ClosesShard, TypeOK
  <2>2. tracker # step
    BY <1>0, <2>1 DEF Behind, Saving
  <2>3. shard'[tracker] = shard[tracker]
    BY <1>0, <1>2, <2>1, <2>2 DEF OpensShard, ClosesShard, TypeOK
  <2> QED
    BY <2>1, <2>3
<1>3. CASE OpensData \/ ClosesData
  <2>1. pc \in {"data", "dataOpen"} /\ UNCHANGED shard /\ step \in Nat
    BY <1>0, <1>3 DEF OpensData, ClosesData, TypeOK
  <2>2. tracker # step
    BY <1>0, <2>1 DEF Behind, Saving
  <2>3. data'[tracker] = data[tracker]
    BY <1>0, <1>3, <2>1, <2>2 DEF OpensData, ClosesData, TypeOK
  <2> QED
    BY <2>1, <2>3
<1>4. CASE ~Rotates /\ ~(\E r \in Ranks : OpensShard(r) \/ ClosesShard(r)) /\ ~OpensData /\ ~ClosesData
  <2>1. UNCHANGED <<shard, data>>
    BY <1>4 DEF Next, ReadsAhead, Drops, Trains, RunsShort, Decides, GroupSaved, OpensTracker, ClosesTracker, Crashes,
                StartsFromScratch, Resumes, FailsToResume, Stops, vars, job, batches
  <2> QED
    BY <2>1
<1> QED
  BY <1>1, <1>2, <1>3, <1>4

\* A job that is killed has what it wrote still in reach.
LEMMA ReachGrows ==
    ASSUME CInv, [Next]_vars
    PROVE  Reach \in Nat /\ Reach' \in Nat /\ Reach <= Reach'
<1> DEFINE m == MaxAhead * crashes
<1>0. crashes \in Nat /\ MaxAhead \in Nat /\ dropped \in Nat /\ m \in Nat /\ MaxAhead * (crashes + 1) = m + MaxAhead
  BY NumbersTyped, Products
<1>1. CASE Crashes
  <2>1. pc \notin {"down", "failed"} /\ pc' = "down" /\ crashes' = crashes + 1 /\ dropped' = dropped
    BY <1>1 DEF Crashes, Up
  <2>2. Reach' = m + MaxAhead + dropped /\ Reach = m + MaxAhead + dropped
    BY <1>0, <2>1 DEF Reach
  <2> QED
    BY <1>0, <2>2
<1>2. CASE ~Crashes
  <2>1. /\ crashes' = crashes /\ (pc' \in {"down", "failed"} => pc \in {"down", "failed"})
        /\ dropped' \in {dropped, dropped + 1}
    BY <1>2 DEF Next, ReadsAhead, Drops, Trains, RunsShort, Decides, NextStep, Rotates, OpensShard, ClosesShard, GroupSaved, OpensData,
                ClosesData, OpensTracker, ClosesTracker, StartsFromScratch, Resumes, FailsToResume, Stops, vars, job, batches
  <2>2. /\ Reach = (IF pc \in {"down", "failed"} THEN m ELSE m + MaxAhead) + dropped
        /\ Reach' = (IF pc' \in {"down", "failed"} THEN m ELSE m + MaxAhead) + dropped'
    BY <1>0, <2>1 DEF Reach
  <2> HIDE DEF m
  <2>3. CASE dropped' = dropped
    BY <1>0, <2>1, <2>2, <2>3
  <2>4. CASE dropped' = dropped + 1
    BY <1>0, <2>1, <2>2, <2>4
  <2> QED
    BY <2>1, <2>3, <2>4
<1> QED
  BY <1>1, <1>2

LEMMA TrackedLineagePreserved ==
    ASSUME LineageInv, CInv', [Next]_vars PROVE TrackedLineage'
<1>0. /\ CInv /\ JobLineage /\ TrackedLineage /\ {step, position, crashes, dropped} \subseteq Nat
      /\ Len(weights) = step /\ Skipped \in Nat /\ MaxAhead \in Nat
  BY NumbersTyped DEF LineageInv
<1>1. CASE tracker' = tracker
  <2> SUFFICES ASSUME tracker \in Steps, shard'[tracker][1][Rank0] # NoFile
               PROVE  /\ Once(shard'[tracker][1][Rank0]) /\ Upto(shard'[tracker][1][Rank0], data'[tracker])
                      /\ data'[tracker] <= tracker + Reach'
    BY <1>1 DEF TrackedLineage, Once, Upto
  <2>1. data'[tracker] = data[tracker] /\ shard'[tracker][1][Rank0] = shard[tracker][1][Rank0]
    BY <1>0, <1>1, TrackedStays
  <2>2. /\ Once(shard[tracker][1][Rank0]) /\ Upto(shard[tracker][1][Rank0], data[tracker])
        /\ data[tracker] <= tracker + Reach
    BY <1>0, <2>1 DEF TrackedLineage
  <2>3. data[tracker] \in Nat
    BY <1>0 DEF CInv, Behind, Tracked
  <2>4. Reach \in Nat /\ Reach' \in Nat /\ Reach <= Reach'
    BY <1>0, ReachGrows
  <2> QED
    BY <2>1, <2>2, <2>3, <2>4
<1>2. CASE OpensTracker
  <2>1. tracker' = Torn
    BY <1>2 DEF OpensTracker
  <2> QED
    BY <2>1, FilesApart DEF TrackedLineage
<1>3. CASE ClosesTracker
  <2>1. /\ pc = "trackerOpen" /\ tracker' = step /\ pc' \notin {"down", "failed"}
        /\ UNCHANGED <<shard, data, crashes, dropped>>
    BY <1>3 DEF ClosesTracker, NextStep, batches
  <2>2. shard[step][1][Rank0] = weights /\ data[step] \in Nat
    BY <1>0, <2>1, FirstFile DEF CInv, Progress
  <2>3. Once(weights) /\ Upto(weights, data[step]) /\ data[step] <= step + MaxAhead + Skipped
    BY <1>0, <2>1 DEF JobLineage
  <2>4. Reach' = MaxAhead + Skipped
    <3>1. Reach' = MaxAhead * (crashes + 1) + dropped
      BY <2>1 DEF Reach
    <3>2. MaxAhead * crashes \in Nat /\ MaxAhead * (crashes + 1) = MaxAhead * crashes + MaxAhead
      BY <1>0, Products
    <3> QED
      BY <1>0, <3>1, <3>2 DEF Skipped
  <2>5. data[step] <= step + Reach'
    BY <1>0, <2>2, <2>3, <2>4
  <2> QED
    BY <2>1, <2>2, <2>3, <2>5 DEF TrackedLineage, Once, Upto
<1> QED
  BY <1>1, <1>2, <1>3 DEF Next, ReadsAhead, Drops, Trains, RunsShort, Decides, Rotates, OpensShard, ClosesShard, GroupSaved, OpensData,
      ClosesData, Crashes, StartsFromScratch, Resumes, FailsToResume, Stops, vars, job, batches

LEMMA LineageInitial == Init => LineageInv
<1> SUFFICES ASSUME Init PROVE LineageInv
  OBVIOUS
<1>1. /\ position = 0 /\ ahead = {} /\ weights = <<>> /\ step = 0 /\ crashes = 0 /\ dropped = 0 /\ pc = "train"
      /\ tracker = NoFile
  BY DEF Init
<1>2. Len(weights) = 0 /\ IsFiniteSet(ahead) /\ Cardinality(ahead) = 0
  BY <1>1, EmptySeq, FS_EmptySet
<1>3. MaxAhead \in Nat /\ MaxAhead * crashes \in Nat /\ Skipped \in Nat
  BY <1>1, Products DEF Skipped
<1>4. Pending /\ Once(weights) /\ Upto(weights, position)
  BY <1>1, <1>2, <1>3 DEF Pending, Once, Upto
<1>5. JobLineage
  BY <1>1, <1>2, <1>3, <1>4 DEF JobLineage
<1>6. TrackedLineage
  BY <1>1, FilesApart DEF TrackedLineage
<1> QED
  BY <1>5, <1>6, InvInitial DEF LineageInv

LEMMA LineagePreserved == LineageInv /\ [Next]_vars => LineageInv'
<1> SUFFICES ASSUME LineageInv, [Next]_vars PROVE LineageInv'
  OBVIOUS
<1>1. CInv'
  BY InvPreserved DEF LineageInv
<1> QED
  BY <1>1, JobLineagePreserved, TrackedLineagePreserved DEF LineageInv

\* However often the job is killed, and at whatever instant, in whatever order batches in flight end and
\* whichever are dropped: the weights in use never saw a batch twice, nor one that a job before the
\* present one had read, and they lack at most what was dropped and what was in flight at a crash
\* (ray_trainer.py 985-1060, fully_async_rollouter.py 251-322).
THEOREM BatchesTrainedOnce == Spec => []LineageTrained
<1>1. LineageInv => LineageTrained
  <2> SUFFICES ASSUME LineageInv PROVE LineageTrained
    OBVIOUS
  <2>1. /\ JobLineage /\ {step, position, crashes, dropped} \subseteq Nat /\ Len(weights) = step
        /\ Skipped \in Nat /\ IsFiniteSet(ahead)
    BY NumbersTyped DEF LineageInv, JobLineage, Pending
  <2>2. Cardinality(ahead) \in Nat
    BY <2>1, FS_CardinalityType
  <2>3. Once(weights) /\ position <= step + Cardinality(ahead) + Skipped
    BY <2>1 DEF JobLineage
  <2>4. position - (Len(weights) + Cardinality(ahead)) <= MaxAhead * crashes + dropped
    <3>1. position - (step + Cardinality(ahead)) <= Skipped
      BY <2>1, <2>2, <2>3
    <3> QED
      BY <2>1, <3>1 DEF Skipped
  <2> QED
    BY <2>3, <2>4 DEF LineageTrained, Once
<1> QED
  BY <1>1, LineageInitial, LineagePreserved, PTL DEF Spec
-----------------------------------------------------------------------------
(* The folders on the disk. *)

Paths(q) == {q[i] : i \in 1..Len(q)}
Folders(g) == {n \in Steps : \E r \in Ranks : shard[n][g][r] # NoFile}

\* What the job knows of: the paths it keeps, and the one it writes.
Writing(g) == IF pc = "shards" /\ group = g THEN {step} ELSE {}
Own(g) == Paths(kept[g]) \cup Writing(g)

\* A job keeps room for the one it writes; the others were left by the jobs before it.
Kept(g) ==
    Len(kept[g]) <= MaxKeep[g] /\ (pc = "shards" /\ group = g => Len(kept[g]) < MaxKeep[g])
Left(g) == Cardinality(Folders(g) \ Own(g)) <= MaxKeep[g] * crashes

DiskInv == \A g \in Role : MaxKeep[g] > 0 => Kept(g) /\ Left(g)

LEMMA PathsBounded ==
    ASSUME NEW E, NEW q \in Seq(E)
    PROVE  IsFiniteSet(Paths(q)) /\ Cardinality(Paths(q)) <= Len(q) /\ Cardinality(Paths(q)) \in Nat
<1> DEFINE f == [i \in 1..Len(q) |-> q[i]]
<1>1. Len(q) \in Nat
  BY LenProperties
<1>2. f \in Surjection(1..Len(q), Paths(q))
  <2>1. f \in [1..Len(q) -> Paths(q)]
    BY DEF Paths
  <2>2. \A t \in Paths(q) : \E i \in 1..Len(q) : f[i] = t
    BY DEF Paths
  <2> QED
    BY <2>1, <2>2, Fun_IsSurj
<1>3. IsFiniteSet(1..Len(q))
  BY <1>1, FS_Interval
<1>4. IsFiniteSet(Paths(q))
  BY <1>2, <1>3, FS_Surjection
<1>5. Cardinality(Paths(q)) <= Len(q)
  <2>1. ExistsSurjection(1..Len(q), Paths(q))
    BY <1>2 DEF ExistsSurjection
  <2> QED
    BY <1>1, <2>1, FS_SurjCardinalityBound
<1> QED
  BY <1>4, <1>5, FS_CardinalityType

LEMMA FoldersFinite ==
    ASSUME NEW g
    PROVE  /\ IsFiniteSet(Folders(g)) /\ Cardinality(Folders(g)) \in Nat
           /\ \A S \in SUBSET Folders(g) : /\ IsFiniteSet(S) /\ Cardinality(S) \in Nat
                                           /\ \A T \in SUBSET S : Cardinality(T) <= Cardinality(S)
<1>1. IsFiniteSet(1..TotalSteps)
  BY SizesAssumption, FS_Interval
<1>2. IsFiniteSet(Folders(g))
  BY <1>1, FS_Subset DEF Folders
<1> HIDE DEF Folders
<1>3. ASSUME NEW S \in SUBSET Folders(g) PROVE IsFiniteSet(S)
  BY <1>2, FS_Subset
<1> QED
  BY <1>2, <1>3, FS_Subset, FS_CardinalityType

\* The job itself accounts for MaxKeep folders at most.
LEMMA OwnBounded ==
    ASSUME CInv, NEW g \in Role, MaxKeep[g] > 0, Kept(g)
    PROVE  Cardinality(Folders(g)) <= Cardinality(Folders(g) \ Own(g)) + MaxKeep[g]
<1> DEFINE A == Folders(g) \ Own(g)
           B == Paths(kept[g])
           C == Writing(g)
<1>1. kept[g] \in Seq(Steps) /\ Len(kept[g]) \in Nat /\ MaxKeep[g] \in Nat
  BY SizesAssumption DEF CInv, TypeOK
<1>2. IsFiniteSet(B) /\ Cardinality(B) <= Len(kept[g]) /\ Cardinality(B) \in Nat
  BY <1>1, PathsBounded
<1>3. /\ IsFiniteSet(C) /\ Cardinality(C) \in Nat
      /\ Cardinality(C) <= IF pc = "shards" /\ group = g THEN 1 ELSE 0
  BY FS_EmptySet, FS_Singleton DEF Writing
<1>4. IsFiniteSet(A) /\ Cardinality(A) \in Nat
  BY FoldersFinite
<1>5. Folders(g) \subseteq A \cup (B \cup C)
  BY DEF Own
<1> HIDE DEF A, B, C
<1>6. /\ IsFiniteSet(B \cup C)
      /\ Cardinality(B \cup C) = Cardinality(B) + Cardinality(C) - Cardinality(B \cap C)
  BY <1>2, <1>3, FS_Union
<1>7. /\ IsFiniteSet(A \cup (B \cup C))
      /\ Cardinality(A \cup (B \cup C)) = Cardinality(A) + Cardinality(B \cup C) - Cardinality(A \cap (B \cup C))
  BY <1>4, <1>6, FS_Union
<1>8. Cardinality(B \cap C) \in Nat /\ Cardinality(A \cap (B \cup C)) \in Nat /\ Cardinality(B \cup C) \in Nat
  <2>1. IsFiniteSet(B \cap C) /\ IsFiniteSet(A \cap (B \cup C))
    BY <1>2, <1>4, FS_Subset
  <2> QED
    BY <1>6, <2>1, FS_CardinalityType
<1>9. Cardinality(B) + Cardinality(C) <= MaxKeep[g]
  BY <1>1, <1>2, <1>3 DEF Kept
<1>10. Cardinality(Folders(g)) <= Cardinality(A \cup (B \cup C)) /\ Cardinality(Folders(g)) \in Nat
  BY <1>5, <1>7, FS_Subset, FoldersFinite
<1>11. Cardinality(B \cup C) <= MaxKeep[g]
  BY <1>1, <1>2, <1>3, <1>6, <1>8, <1>9
<1>12. Cardinality(A \cup (B \cup C)) <= Cardinality(A) + Cardinality(B \cup C)
  BY <1>4, <1>7, <1>8
<1>13. Cardinality(Folders(g)) <= Cardinality(A) + MaxKeep[g]
  <2>1. Cardinality(A \cup (B \cup C)) \in Nat
    BY <1>7, FS_CardinalityType
  <2> QED
    BY <1>1, <1>4, <1>8, <1>10, <1>11, <1>12, <2>1
<1> QED
  BY <1>13 DEF A

LEMMA TailKept ==
    ASSUME NEW E, NEW s \in Seq(E), NEW k \in 0..Len(s), NEW t, t = SubSeq(s, k + 1, Len(s))
    PROVE  /\ Len(t) = Len(s) - k
           /\ \A i \in 1..Len(s) : i > k => i - k \in 1..Len(t) /\ t[i - k] = s[i]
<1>1. Len(s) \in Nat /\ k \in Nat /\ k <= Len(s) /\ k + 1 \in Int /\ Len(s) \in Int
  OBVIOUS
<1>2. \A i \in k + 1 .. Len(s) : s[i] \in E
  <2> SUFFICES ASSUME NEW i \in k + 1 .. Len(s) PROVE s[i] \in E
    OBVIOUS
  <2>1. i \in 1..Len(s)
    BY <1>1
  <2> QED
    BY <2>1, ElementOfSeq
<1>3. /\ Len(t) = (IF k + 1 <= Len(s) THEN Len(s) - (k + 1) + 1 ELSE 0)
      /\ \A i \in 1 .. Len(s) - (k + 1) + 1 : t[i] = s[k + 1 + i - 1]
  BY <1>1, <1>2, SubSeqProperties
<1>4. Len(t) = Len(s) - k
  BY <1>1, <1>3
<1>5. ASSUME NEW i \in 1..Len(s), i > k PROVE i - k \in 1..Len(t) /\ t[i - k] = s[i]
  <2>1. /\ i - k \in 1..Len(t) /\ i - k \in 1 .. Len(s) - (k + 1) + 1
        /\ k + 1 + (i - k) - 1 = i
    BY <1>1, <1>4, <1>5
  <2> QED
    BY <1>3, <2>1
<1> QED
  BY <1>4, <1>5

LEMMA KeptPreserved ==
    ASSUME CInv, NEW g \in Role, MaxKeep[g] > 0, Kept(g), [Next]_vars
    PROVE  Kept(g)'
<1>1. /\ TypeOK /\ kept[g] \in Seq(Steps) /\ Len(kept[g]) \in Nat /\ MaxKeep[g] \in Nat /\ group \in Role
      /\ step \in Nat
  BY SizesAssumption DEF CInv, TypeOK
<1>2. CASE Rotates
  <2>1. /\ kept' = [kept EXCEPT ![group] = SubSeq(kept[group], Excess(group) + 1, Len(kept[group]))]
        /\ group' = group
    BY <1>2 DEF Rotates
  <2>2. CASE g = group
    <3>1. Excess(g) \in 0..Len(kept[g])
      BY <1>1, ExcessBounds DEF TypeOK
    <3>2. kept'[g] = SubSeq(kept[g], Excess(g) + 1, Len(kept[g]))
      BY <1>1, <2>1, <2>2 DEF TypeOK
    <3>5. Len(kept'[g]) = Len(kept[g]) - Excess(g)
      BY <1>1, <3>1, <3>2, TailKept
    <3>6. Len(kept[g]) - Excess(g) < MaxKeep[g]
      BY <1>1 DEF Excess
    <3> QED
      BY <1>1, <3>5, <3>6 DEF Kept
  <2>3. CASE g # group
    <3>1. kept'[g] = kept[g]
      BY <1>1, <2>1, <2>3 DEF TypeOK
    <3> QED
      BY <2>1, <2>3, <3>1 DEF Kept
  <2> QED
    BY <2>2, <2>3
<1>3. CASE GroupSaved
  <2>1. pc = "shards" /\ kept' = [kept EXCEPT ![group] = Append(kept[group], step)] /\ pc' # "shards"
    BY <1>3 DEF GroupSaved
  <2>2. CASE g = group
    <3>1. kept'[g] = Append(kept[g], step)
      BY <1>1, <2>1, <2>2 DEF TypeOK
    <3>2. Len(kept'[g]) = Len(kept[g]) + 1
      BY <1>1, <3>1
    <3> QED
      BY <1>1, <2>1, <2>2, <3>2 DEF Kept
  <2>3. CASE g # group
    <3>1. kept'[g] = kept[g]
      BY <1>1, <2>1, <2>3 DEF TypeOK
    <3> QED
      BY <2>1, <3>1 DEF Kept
  <2> QED
    BY <2>2, <2>3
<1>4. CASE Crashes
  <2>1. kept'[g] = <<>> /\ pc' = "down"
    BY <1>4 DEF Crashes
  <2>2. Len(kept'[g]) = 0
    BY <2>1, EmptySeq
  <2> QED
    BY <1>1, <2>1, <2>2 DEF Kept
<1>5. CASE ~Rotates /\ ~GroupSaved /\ ~Crashes
  <2>1. kept' = kept /\ (pc' = "shards" => pc = "shards" /\ group' = group)
    BY <1>5 DEF Next, ReadsAhead, Drops, Trains, RunsShort, Decides, NextStep, OpensShard, ClosesShard, OpensData, ClosesData,
                OpensTracker, ClosesTracker, StartsFromScratch, Resumes, FailsToResume, Stops, vars, job, batches
  <2> QED
    BY <2>1 DEF Kept
<1> QED
  BY <1>2, <1>3, <1>4, <1>5

\* But for a crash, a step leaves no folder that it does not know of.
LEMMA LeftKeeps ==
    ASSUME CInv, CInv', NEW g \in Role, [Next]_vars, ~Crashes
    PROVE  crashes' = crashes /\ (Folders(g) \ Own(g))' \subseteq Folders(g) \ Own(g)
<1>1. /\ TypeOK /\ kept[g] \in Seq(Steps) /\ Len(kept[g]) \in Nat /\ group \in Role
      /\ step \in Nat
  <2>1. TypeOK
    BY DEF CInv
  <2>2. kept[g] \in Seq(Steps) /\ group \in Role /\ step \in Nat
    BY SizesAssumption, <2>1 DEF TypeOK
  <2> QED
    BY <2>1, <2>2
<1>2. CASE Rotates
  <2>1. /\ pc = "save" /\ pc' = "shards" /\ UNCHANGED <<group, step, crashes>>
        /\ kept' = [kept EXCEPT ![group] = SubSeq(kept[group], Excess(group) + 1, Len(kept[group]))]
    BY <1>2 DEF Rotates
  <2> DEFINE old == {kept[group][i] : i \in 1..Excess(group)}
  <2>2. shard' = [n \in Steps |-> IF n \in old THEN [shard[n] EXCEPT ![group] = [r \in Ranks |-> NoFile]] ELSE shard[n]]
    BY <1>2 DEF Rotates
  <2>3. \A n \in Steps : shard[n] \in [Role -> [Ranks -> File]]
    BY <1>1 DEF TypeOK
  <2>4. CASE g = group
    <3>1. Folders(g)' \subseteq Folders(g) \ old
      <4> SUFFICES ASSUME NEW n \in Steps, NEW r \in Ranks, shard'[n][g][r] # NoFile
                   PROVE  n \notin old /\ shard[n][g][r] # NoFile
        BY DEF Folders
      <4>1. CASE n \in old
        <5>1. shard'[n][g] = [q \in Ranks |-> NoFile]
          BY <1>1, <2>2, <2>3, <2>4, <4>1
        <5> QED
          BY <5>1
      <4>2. CASE n \notin old
        BY <2>2, <4>2
      <4> QED
        BY <4>1, <4>2
    <3>2. Paths(kept[g]) \subseteq old \cup Paths(kept'[g])
      <4>1. Excess(g) \in 0..Len(kept[g])
        BY <1>1, ExcessBounds DEF TypeOK
      <4>2. kept'[g] = SubSeq(kept[g], Excess(g) + 1, Len(kept[g]))
        BY <1>1, <2>1, <2>4 DEF TypeOK
      <4>3. \A i \in 1..Len(kept[g]) :
              i > Excess(g) => i - Excess(g) \in 1..Len(kept'[g]) /\ kept'[g][i - Excess(g)] = kept[g][i]
        <5> HIDE DEF Steps
        <5>1. kept[g] \in Seq(Steps)
          BY <1>1
        <5> QED
          BY <4>1, <4>2, <5>1, TailKept
      <4> SUFFICES ASSUME NEW i \in 1..Len(kept[g]), kept[g][i] \notin old PROVE kept[g][i] \in Paths(kept'[g])
        BY DEF Paths
      <4>4. i > Excess(g)
        BY <1>1, <2>4, <4>1
      <4> QED
        BY <4>3, <4>4 DEF Paths
    <3>3. Own(g)' = Paths(kept'[g]) \cup {step} /\ Own(g) = Paths(kept[g])
      BY <2>1, <2>4 DEF Own, Writing, Paths
    <3> HIDE DEF old
    <3> QED
      BY <2>1, <3>1, <3>2, <3>3
  <2>5. CASE g # group
    <3>1. kept'[g] = kept[g]
      BY <1>1, <2>1, <2>5 DEF TypeOK
    <3>2. \A n \in Steps : shard'[n][g] = shard[n][g]
      BY <1>1, <2>2, <2>3, <2>5
    <3>3. Folders(g)' = Folders(g)
      BY <3>2 DEF Folders
    <3>4. Own(g)' = Own(g)
      BY <2>1, <2>5, <3>1 DEF Own, Writing, Paths
    <3> QED
      BY <2>1, <3>3, <3>4
  <2> QED
    BY <2>4, <2>5
<1>3. ASSUME NEW q \in Ranks, OpensShard(q) \/ ClosesShard(q)
      PROVE  crashes' = crashes /\ (Folders(g) \ Own(g))' \subseteq Folders(g) \ Own(g)
  <2>1. pc = "shards" /\ UNCHANGED <<pc, group, step, kept, crashes>>
    BY <1>3 DEF OpensShard, ClosesShard
  <2>2. Own(g)' = Own(g)
    BY <2>1 DEF Own, Writing, Paths
  <2>3. \E f : shard' = [shard EXCEPT ![step][group][q] = f]
    BY <1>3 DEF OpensShard, ClosesShard
  <2>4. \A n \in Steps : \A r \in Ranks : n # step \/ g # group => shard'[n][g][r] = shard[n][g][r]
    BY <1>1, <2>3 DEF TypeOK
  <2>5. Folders(g)' \subseteq Folders(g) \cup Writing(g)
    BY <2>1, <2>4 DEF Folders, Writing
  <2> QED
    BY <2>1, <2>2, <2>5 DEF Own
<1>4. CASE GroupSaved
  <2>1. /\ pc = "shards" /\ pc' # "shards" /\ UNCHANGED <<shard, step, crashes>>
        /\ kept' = [kept EXCEPT ![group] = Append(kept[group], step)] /\ step \in Steps
    BY <1>1, <1>4 DEF GroupSaved, TypeOK
  <2>2. Folders(g)' = Folders(g)
    BY <2>1 DEF Folders
  <2>3. Own(g) \subseteq Own(g)'
    <3>1. CASE g = group
      <4>1. kept'[g] = Append(kept[g], step)
        BY <1>1, <2>1, <3>1 DEF TypeOK
      <4>2. /\ Len(kept'[g]) = Len(kept[g]) + 1 /\ kept'[g][Len(kept[g]) + 1] = step
            /\ \A i \in 1..Len(kept[g]) : kept'[g][i] = kept[g][i]
        BY <1>1, <2>1, <4>1, AppendProperties
      <4>3. \A i \in 1..Len(kept[g]) : i \in 1..Len(kept'[g])
        BY <1>1, <4>2
      <4>4. Paths(kept[g]) \subseteq Paths(kept'[g])
        BY <4>2, <4>3 DEF Paths
      <4>5. step \in Paths(kept'[g])
        <5>1. Len(kept[g]) + 1 \in 1..Len(kept'[g])
          BY <1>1, <4>2
        <5> QED
          BY <4>2, <5>1 DEF Paths
      <4> QED
        BY <4>4, <4>5 DEF Own, Writing
    <3>2. CASE g # group
      <4>1. kept'[g] = kept[g]
        BY <1>1, <2>1, <3>2 DEF TypeOK
      <4> QED
        BY <3>2, <4>1 DEF Own, Writing, Paths
    <3> QED
      BY <3>1, <3>2
  <2> QED
    BY <2>1, <2>2, <2>3
<1>5. CASE ~Rotates /\ ~(\E r \in Ranks : OpensShard(r) \/ ClosesShard(r)) /\ ~GroupSaved
  <2>1. /\ UNCHANGED <<shard, kept, crashes>>
        /\ pc = "shards" => UNCHANGED <<pc, group, step>>
    BY <1>5 DEF Next, ReadsAhead, Drops, Trains, RunsShort, Decides, OpensData, ClosesData, OpensTracker, ClosesTracker,
                StartsFromScratch, Resumes, FailsToResume, Stops, vars, job, batches
  <2>2. Folders(g)' = Folders(g) /\ Own(g) \subseteq Own(g)'
    BY <2>1 DEF Folders, Own, Writing, Paths
  <2> QED
    BY <2>1, <2>2
<1> QED
  BY <1>2, <1>3, <1>4, <1>5

LEMMA DiskInitial == Init => DiskInv
<1> SUFFICES ASSUME Init, NEW g \in Role, MaxKeep[g] > 0 PROVE Kept(g) /\ Left(g)
  BY DEF DiskInv
<1>1. /\ kept[g] = <<>> /\ pc = "train" /\ crashes = 0 /\ MaxKeep[g] \in Nat
      /\ \A n \in Steps : \A r \in Ranks : shard[n][g][r] = NoFile
  BY SizesAssumption DEF Init
<1>2. Len(kept[g]) = 0
  BY <1>1, EmptySeq
<1>3. Folders(g) \ Own(g) = {}
  BY <1>1 DEF Folders
<1>4. Cardinality(Folders(g) \ Own(g)) = 0 /\ MaxKeep[g] * crashes = 0
  <2>1. Cardinality({}) = 0
    BY FS_EmptySet
  <2>2. MaxKeep[g] * crashes = 0
    BY <1>1
  <2> QED
    BY <1>3, <2>1, <2>2
<1> QED
  BY <1>1, <1>2, <1>4 DEF Kept, Left

LEMMA Rooms ==
    ASSUME NEW k \in Nat, NEW c \in Nat
    PROVE  k * c \in Nat /\ k * (c + 1) = k * c + k
  OBVIOUS

\* A crash makes all that the job knew of folders left behind.
LEMMA DiskPreserved == CInv /\ CInv' /\ DiskInv /\ [Next]_vars => DiskInv'
<1> SUFFICES ASSUME CInv, CInv', DiskInv, [Next]_vars, NEW g \in Role, MaxKeep[g] > 0
             PROVE  Kept(g)' /\ Left(g)'
  BY DEF DiskInv
<1>1. Kept(g) /\ Left(g)
  BY DEF DiskInv
<1>2. Kept(g)'
  BY <1>1, KeptPreserved
<1>3. MaxKeep[g] \in Nat /\ crashes \in Nat
  BY SizesAssumption DEF CInv, TypeOK
<1>4. CASE Crashes
  <2>1. crashes' = crashes + 1 /\ shard' = shard /\ kept'[g] = <<>> /\ pc' = "down"
    BY <1>4 DEF Crashes
  <2>2. Folders(g)' = Folders(g)
    BY <2>1 DEF Folders
  <2>3. Cardinality(Folders(g)) <= Cardinality(Folders(g) \ Own(g)) + MaxKeep[g]
    BY <1>1, OwnBounded
  <2>4. /\ Cardinality((Folders(g) \ Own(g))') <= Cardinality(Folders(g))
        /\ {Cardinality((Folders(g) \ Own(g))'), Cardinality(Folders(g)), Cardinality(Folders(g) \ Own(g))}
             \subseteq Nat
    BY <2>2, FoldersFinite
  <2>5. Cardinality((Folders(g) \ Own(g))') <= MaxKeep[g] * crashes + MaxKeep[g]
    <3>1. MaxKeep[g] * crashes \in Nat /\ Cardinality(Folders(g) \ Own(g)) <= MaxKeep[g] * crashes
      BY <1>1, <1>3, Rooms DEF Left
    <3> QED
      BY <1>3, <2>3, <2>4, <3>1
  <2>6. MaxKeep[g] * (crashes + 1) = MaxKeep[g] * crashes + MaxKeep[g]
    BY <1>3, Rooms
  <2>7. Left(g)'
    BY <2>1, <2>5, <2>6 DEF Left
  <2> QED
    BY <1>2, <2>7
<1>5. CASE ~Crashes
  <2>1. crashes' = crashes /\ (Folders(g) \ Own(g))' \subseteq Folders(g) \ Own(g)
    BY <1>5, LeftKeeps
  <2>2. /\ Cardinality((Folders(g) \ Own(g))') <= Cardinality(Folders(g) \ Own(g))
        /\ {Cardinality((Folders(g) \ Own(g))'), Cardinality(Folders(g) \ Own(g))} \subseteq Nat
    <3>1. Folders(g) \ Own(g) \in SUBSET Folders(g)
      OBVIOUS
    <3> DEFINE S == Folders(g) \ Own(g)
               T == (Folders(g) \ Own(g))'
    <3>2. T \in SUBSET S /\ S \in SUBSET Folders(g) /\ T \in SUBSET Folders(g)
      BY <2>1
    <3> HIDE DEF S, T
    <3>3. Cardinality(T) <= Cardinality(S) /\ Cardinality(T) \in Nat /\ Cardinality(S) \in Nat
      BY <3>2, FoldersFinite
    <3> QED
      BY <3>3 DEF S, T
  <2>3. MaxKeep[g] * crashes \in Nat /\ Cardinality(Folders(g) \ Own(g)) <= MaxKeep[g] * crashes
    BY <1>1, <1>3, Rooms DEF Left
  <2>4. Cardinality((Folders(g) \ Own(g))') <= MaxKeep[g] * crashes
    BY <1>3, <2>2, <2>3
  <2>5. Left(g)'
    BY <2>1, <2>4 DEF Left
  <2> QED
    BY <1>2, <2>5
<1> QED
  BY <1>4, <1>5

\* "Rotates old checkpoints, keeping at most max_ckpt_to_keep"
\* (fsdp_checkpoint_manager.py:190): of one job.  A crash forgets the paths, so the
\* folders on the disk are at most that many for each job there has been, however
\* many saves each of them made and wherever it was cut off.
THEOREM DiskStaysBounded == Spec => []DiskBounded
<1>1. CInv /\ DiskInv => DiskBounded
  <2> SUFFICES ASSUME CInv, DiskInv, NEW g \in Role, MaxKeep[g] > 0
               PROVE  Cardinality(Folders(g)) <= MaxKeep[g] * (crashes + 1)
    BY DEF DiskBounded, Folders
  <2>1. Kept(g) /\ Left(g)
    BY DEF DiskInv
  <2>2. MaxKeep[g] \in Nat /\ crashes \in Nat
    BY SizesAssumption DEF CInv, TypeOK
  <2>3. Cardinality(Folders(g)) <= Cardinality(Folders(g) \ Own(g)) + MaxKeep[g]
    BY <2>1, OwnBounded
  <2>4. {Cardinality(Folders(g)), Cardinality(Folders(g) \ Own(g))} \subseteq Nat
    BY FoldersFinite
  <2>5. /\ Cardinality(Folders(g) \ Own(g)) <= MaxKeep[g] * crashes
        /\ MaxKeep[g] * crashes \in Nat /\ MaxKeep[g] * (crashes + 1) = MaxKeep[g] * crashes + MaxKeep[g]
    BY <2>1, <2>2, Rooms DEF Left
  <2> QED
    BY <2>2, <2>3, <2>4, <2>5
<1> QED
  BY <1>1, CInvariance, DiskInitial, DiskPreserved, PTL DEF Spec
=============================================================================
