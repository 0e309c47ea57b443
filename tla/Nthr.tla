--------------------------------- MODULE Nthr ----------------------------------
(***************************************************************************)
(* The NTHR correction of a training batch (examples/nthr_trainer): the     *)
(* driver cuts the batch into one part per rank, every rank checks its part *)
(* and runs the actor over it, and the driver scales the advantages by what *)
(* they return.  A rank that makes a collective call (the all_reduce of a   *)
(* check, the gathers of an FSDP forward pass) leaves it when every rank    *)
(* has made the same one.                                                   *)
(***************************************************************************)
EXTENDS Integers, Sequences, FiniteSets, SequencesExt, NthrGroup, TLAPS

CONSTANTS
    DPSize,          \* ranks of the actor
    GroupSize,       \* rollout.n
    MicroBatchSize,  \* nthr_forward_micro_batch_size
    Batches          \* the batches of the model

ASSUME SizesAssumption ==
    /\ DPSize \in Nat \ {0} /\ GroupSize \in Nat \ {0} /\ MicroBatchSize \in Nat \ {0}
\* Every prompt is repeated n times under a uid of its own (ray_trainer.py fit), and
\* the size of the batch is a multiple of that of the group of ranks (main_nthr.py).
ASSUME BatchAssumption ==
    \A b \in Batches :
      /\ Len(b) % DPSize = 0
      /\ \A i \in DOMAIN b : Cardinality({j \in DOMAIN b : b[j].uid = b[i].uid}) = GroupSize

Ranks == 1..DPSize

VARIABLES
    batch, requireBinary,  \* what the driver sends
    pc,       \* pc[r]: where rank r is
    waiting,  \* waiting[r]: it is inside of a collective call
    calls,    \* calls[r]: the collective calls it made
    groups,   \* groups[r]: grouped_indices
    turn,     \* turn[r]: number of groups it is done with
    features, \* features[r]: hidden states and probabilities of the responses so far
    forwarded,\* forwarded[r]: number of responses of the group that went through the actor
    mask,     \* mask[i]: tokens of row i that were selected
    eta,      \* eta[i]
    outcome, scale \* of the driver

wvars == <<pc, waiting, calls, groups, turn, features, forwarded, mask, eta>>
vars == <<batch, requireBinary, wvars, outcome, scale>>

Init ==
    /\ batch \in Batches /\ requireBinary \in BOOLEAN
    /\ pc = [r \in Ranks |-> "idle"] /\ waiting = [r \in Ranks |-> FALSE]
    /\ calls = [r \in Ranks |-> <<>>]
    /\ groups = [r \in Ranks |-> <<>>]
    /\ turn = [r \in Ranks |-> 0] /\ forwarded = [r \in Ranks |-> 0]
    /\ features = [r \in Ranks |-> <<>>]
    /\ mask = [i \in DOMAIN batch |-> [k \in DOMAIN batch[i].ids |-> FALSE]]
    /\ eta = [i \in DOMAIN batch |-> GroupSize]
    /\ outcome = "pending" /\ scale = <<>>

-----------------------------------------------------------------------------
(* A rank. *)

PartSize == Len(batch) \div DPSize
\* DataProto.chunk: consecutive rows.
Part(r) == (r - 1) * PartSize + 1 .. r * PartSize

RowsOf(r, uid) == {i \in Part(r) : batch[i].uid = uid}

\* The groups of a part, by the row they first appear in.
GroupedIndices(r) ==
    LET first == {i \in Part(r) : \A j \in Part(r) : batch[j].uid = batch[i].uid => i <= j}
    IN [g \in 1..Cardinality(first) |->
          SetToSortSeq(RowsOf(r, batch[SetToSortSeq(first, <)[g]].uid), <)]

\* What a rank finds wrong with its own part, at each check.
LocalError(check, r) ==
    CASE check = "malformed" -> \E i \in Part(r) : Cardinality(RowsOf(r, batch[i].uid)) # GroupSize
      [] check = "empty" -> \E i \in Part(r) : batch[i].ids = <<>>
      [] check = "nonbinary" -> \E i \in Part(r) : batch[i].score \notin {0, 1}

\* Mutant of AnyRankHas: the check is not synchronized.
AnyRankHasLocal(check, r) == LocalError(check, r)

\* all_reduce(MAX).
AnyRankHas(check, r) == \E q \in Ranks : LocalError(check, q)

Checks == {"malformed", "empty", "nonbinary"}

NextCheck(check) ==
    IF check = "malformed" THEN "empty"
    ELSE IF check = "empty" /\ requireBinary THEN "nonbinary"
    ELSE "forward"

Dispatches ==
    /\ \A r \in Ranks : pc[r] = "idle"
    /\ pc' = [r \in Ranks |-> "malformed"]
    /\ groups' = [r \in Ranks |-> GroupedIndices(r)]
    /\ UNCHANGED <<batch, requireBinary, waiting, calls, turn, features, forwarded, mask, eta, outcome, scale>>

\* Mutant of NeedsForward: only mixed groups are run through the actor.
NeedsForwardMixed(r) ==
    turn[r] < Len(groups[r])
    /\ Mixed([i \in 1..GroupSize |-> batch[groups[r][turn[r] + 1][i]].score])

NeedsForward(r) == turn[r] < Len(groups[r])

\* A rank enters a collective call.
Enters(r) ==
    /\ pc[r] \in Checks \/ (pc[r] = "forward" /\ NeedsForward(r))
    /\ ~waiting[r]
    /\ waiting' = [waiting EXCEPT ![r] = TRUE]
    /\ calls' = [calls EXCEPT ![r] = Append(@, pc[r])]
    /\ UNCHANGED <<batch, requireBinary, pc, groups, turn, features, forwarded, mask, eta, outcome, scale>>

Met(r) ==
    \A q \in Ranks : Len(calls[q]) >= Len(calls[r]) /\ calls[q][Len(calls[r])] = Last(calls[r])

LeavesCheck(r) ==
    /\ pc[r] \in Checks /\ waiting[r] /\ Met(r)
    /\ waiting' = [waiting EXCEPT ![r] = FALSE]
    /\ pc' = [pc EXCEPT ![r] = IF AnyRankHas(pc[r], r) THEN "raised" ELSE NextCheck(pc[r])]
    /\ UNCHANGED <<batch, requireBinary, calls, groups, turn, features, forwarded, mask, eta, outcome, scale>>

\* The rows of the group in turn, and of these the ones of the next forward pass.
Group(r) == groups[r][turn[r] + 1]

Chunk(r) == SubSeq(Group(r), forwarded[r] + 1, Min({forwarded[r] + MicroBatchSize, Len(Group(r))}))

Collected(r) == features[r] \o [l \in 1..Len(Chunk(r)) |-> batch[Chunk(r)[l]].features]

Scores(r) == [l \in 1..Len(Group(r)) |-> batch[Group(r)[l]].score]
Ids(r) == [l \in 1..Len(Group(r)) |-> batch[Group(r)[l]].ids]

\* A forward pass of a group whose last responses are still to come. What it checks of the
\* model for mixed groups only (an output embedding that runs once) is left out: whether
\* it raises depends on the model's type, not on the batch.
LeavesForward(r) ==
    /\ pc[r] = "forward" /\ waiting[r] /\ Met(r)
    /\ waiting' = [waiting EXCEPT ![r] = FALSE]
    /\ forwarded[r] + MicroBatchSize < Len(Group(r))
    /\ forwarded' = [forwarded EXCEPT ![r] = @ + MicroBatchSize]
    /\ features' = IF Mixed(Scores(r)) THEN [features EXCEPT ![r] = Collected(r)] ELSE features
    /\ UNCHANGED <<batch, requireBinary, pc, calls, groups, turn, mask, eta, outcome, scale>>

\* The last one of a group: the mask and eta of its rows are written.
LeavesGroup(r) ==
    /\ pc[r] = "forward" /\ waiting[r] /\ Met(r)
    /\ waiting' = [waiting EXCEPT ![r] = FALSE]
    /\ forwarded[r] + MicroBatchSize >= Len(Group(r))
    /\ IF Mixed(Scores(r))
       THEN LET selected == Selected(Scores(r), Ids(r), Collected(r))
                row(i) == CHOOSE l \in 1..Len(Group(r)) : Group(r)[l] = i
            IN /\ mask' = [i \in DOMAIN batch |->
                             IF i \in ToSet(Group(r)) THEN selected[row(i)] ELSE mask[i]]
               /\ eta' = [i \in DOMAIN batch |->
                             IF i \in ToSet(Group(r)) THEN Eta(Scores(r)) ELSE eta[i]]
       ELSE UNCHANGED <<mask, eta>>
    /\ turn' = [turn EXCEPT ![r] = @ + 1]
    /\ forwarded' = [forwarded EXCEPT ![r] = 0] /\ features' = [features EXCEPT ![r] = <<>>]
    /\ UNCHANGED <<batch, requireBinary, pc, calls, groups, outcome, scale>>

Returns(r) ==
    /\ pc[r] = "forward" /\ ~waiting[r] /\ ~NeedsForward(r)
    /\ pc' = [pc EXCEPT ![r] = "returned"]
    /\ UNCHANGED <<batch, requireBinary, waiting, calls, groups, turn, features, forwarded, mask, eta, outcome, scale>>

-----------------------------------------------------------------------------
(* The driver: NTHRRayPPOTrainer._update_actor. *)

Scales ==
    /\ outcome = "pending" /\ \A r \in Ranks : pc[r] = "returned"
    /\ outcome' = "scaled"
    /\ scale' = [i \in DOMAIN batch |-> [k \in DOMAIN batch[i].ids |->
                   IF mask[i][k] THEN eta[i] ELSE GroupSize]]
    /\ UNCHANGED <<batch, requireBinary, wvars>>

\* ray.get raises what a rank raised.
Raises ==
    /\ outcome = "pending" /\ \E r \in Ranks : pc[r] = "raised"
    /\ outcome' = "failed"
    /\ UNCHANGED <<batch, requireBinary, wvars, scale>>

Stops ==
    /\ outcome # "pending" /\ \A r \in Ranks : pc[r] \in {"returned", "raised"}
    /\ UNCHANGED vars

RankStep(r) == Enters(r) \/ LeavesCheck(r) \/ LeavesForward(r) \/ LeavesGroup(r) \/ Returns(r)

Next ==
    \/ Dispatches
    \/ \E r \in Ranks : Enters(r) \/ LeavesCheck(r) \/ LeavesForward(r) \/ LeavesGroup(r) \/ Returns(r)
    \/ Scales \/ Raises \/ Stops

\* A rank that can go on does; the driver waits for the answers.
Fairness ==
    /\ WF_vars(Dispatches) /\ WF_vars(Scales \/ Raises)
    /\ \A r \in 1..DPSize : WF_vars(RankStep(r))

Spec == Init /\ [][Next]_vars /\ Fairness
-----------------------------------------------------------------------------
(* Properties. *)

Promised == INSTANCE NthrStep

\* Cutting the batch into parts, grouping by uid within each, running the actor in
\* micro-batches, computing scores by matrices and putting rows back together gives
\* every token the scale that the definition of the method gives it, and fails
\* exactly when the batch is not one the method applies to (nthr.py 96-215,
\* fsdp_worker.py 157-315, ray_trainer.py 26-63).
ScalesAsDefined == Promised!SSpec

\* "Synchronize pre-forward validation so one bad rank cannot deadlock FSDP"
\* (fsdp_worker.py:45): no rank goes on to the forward passes, or to the answer,
\* when another has raised.
RaiseTogether ==
    \A r, q \in Ranks : pc[r] = "raised" => pc[q] \notin {"forward", "returned"}

\* "Every rank executes the same number of forwards" (fsdp_worker.py:253): no rank
\* is left inside of a collective call that the others never make.
EveryRankEnds == <>(outcome # "pending" /\ \A r \in Ranks : pc[r] \in {"returned", "raised"})

-----------------------------------------------------------------------------
(* The checks of the ranks agree, for any number of ranks and any batch. *)

Place == Checks \cup {"idle", "forward", "returned", "raised"}

\* What the synchronized checks found, which is the same for every rank.
Found(check) == \E q \in Ranks : LocalError(check, q)

\* Where a rank is says what the checks before it found.
Past ==
    /\ pc \in [Ranks -> Place]
    /\ \A r \in Ranks :
         /\ pc[r] \in {"empty", "nonbinary", "forward", "returned"} => ~Found("malformed")
         /\ pc[r] \in {"nonbinary", "forward", "returned"} => ~Found("empty")
         /\ pc[r] \in {"forward", "returned"} /\ requireBinary => ~Found("nonbinary")
         /\ pc[r] = "nonbinary" => requireBinary
         /\ pc[r] = "raised" =>
              \/ Found("malformed")
              \/ Found("empty")
              \/ requireBinary /\ Found("nonbinary")

\* A check depends on the batch alone, which nobody changes.
LEMMA FoundStays ==
    ASSUME NEW check, UNCHANGED batch PROVE Found(check)' = Found(check)
  BY DEF Found, LocalError, Part, PartSize, RowsOf

LEMMA BatchStays == [Next]_vars => UNCHANGED <<batch, requireBinary>>
  BY DEF Next, Dispatches, Enters, LeavesCheck, LeavesForward, LeavesGroup, Returns,
         Scales, Raises, Stops, vars, wvars

LEMMA PastPreserved == Past /\ [Next]_vars => Past'
<1> SUFFICES ASSUME Past, [Next]_vars PROVE Past'
  OBVIOUS
<1>1. UNCHANGED requireBinary /\ UNCHANGED batch
  BY BatchStays
<1>2. \A check : Found(check)' = Found(check)
  BY <1>1, FoundStays
<1>3. CASE UNCHANGED pc
  BY <1>1, <1>2, <1>3 DEF Past
<1>4. CASE Dispatches
  BY <1>1, <1>2, <1>4 DEF Dispatches, Past, Place, Checks
<1>5. ASSUME NEW r \in Ranks, LeavesCheck(r) PROVE Past'
  <2>1. pc[r] \in Checks
        /\ pc' = [pc EXCEPT ![r] = IF Found(pc[r]) THEN "raised" ELSE NextCheck(pc[r])]
    BY <1>5 DEF LeavesCheck, AnyRankHas, Found
  <2>2. \A q \in Ranks : q # r => pc'[q] = pc[q]
    BY <2>1 DEF Past
  <2>3. pc' \in [Ranks -> Place]
    BY <2>1 DEF Past, Place, Checks, NextCheck
  <2>4. CASE Found(pc[r])
    <3>1. pc'[r] = "raised"
      BY <2>1, <2>4 DEF Past
    <3> QED
      BY <1>1, <1>2, <2>1, <2>2, <2>3, <2>4, <3>1 DEF Past, Checks
  <2>5. CASE ~Found(pc[r])
    <3>1. pc'[r] = NextCheck(pc[r])
      BY <2>1, <2>5 DEF Past
    <3> QED
      BY <1>1, <1>2, <2>1, <2>2, <2>3, <2>5, <3>1 DEF Past, Checks, NextCheck
  <2> QED
    BY <2>4, <2>5
<1>6. ASSUME NEW r \in Ranks, Returns(r) PROVE Past'
  BY <1>1, <1>2, <1>6 DEF Returns, Past, Place
<1> QED
  <2>1. Dispatches \/ (\E r \in Ranks : LeavesCheck(r) \/ Returns(r)) \/ UNCHANGED pc
    BY DEF Next, Enters, LeavesForward, LeavesGroup, Scales, Raises, Stops, vars, wvars
  <2> QED
    BY <1>3, <1>4, <1>5, <1>6, <2>1

\* One rank that raises means that all of them do: none goes on to the collective
\* calls of the forward passes, or answers.
THEOREM RanksRaiseTogether == Spec => []RaiseTogether
<1>1. Init => Past
  BY DEF Init, Past, Place
<1>2. Past => RaiseTogether
  BY DEF Past, RaiseTogether
<1> QED
  BY <1>1, <1>2, PastPreserved, PTL DEF Spec
=============================================================================
