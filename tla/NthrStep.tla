------------------------------- MODULE NthrStep --------------------------------
(***************************************************************************)
(* What the NTHR correction of one training batch promises, whatever the    *)
(* ranks it is spread over: the step fails, or every token of the batch     *)
(* gets the scale that examples/nthr.md defines by comparing pairs of       *)
(* tokens of its group.                                                     *)
(***************************************************************************)
EXTENDS Integers, Sequences, FiniteSets, FiniteSetsExt

CONSTANTS
    DPSize,     \* the batch is cut into this many equal parts
    GroupSize,  \* rollout.n
    Hidden, Unit, Threshold, Beta

VARIABLES batch, requireBinary, outcome, scale

svars == <<batch, requireBinary, outcome, scale>>

Rows == DOMAIN batch
GroupOf(i) == {j \in Rows : batch[j].uid = batch[i].uid}
PartOf(i) == (i - 1) \div (Len(batch) \div DPSize)

Acceptable ==
    \A i \in Rows :
      /\ \A j \in GroupOf(i) : PartOf(j) = PartOf(i)
      /\ batch[i].ids # <<>>
      /\ requireBinary => batch[i].score \in {0, 1}

Correct(i) == {j \in GroupOf(i) : batch[j].score >= Threshold}

TokensOf(S) == UNION {{j} \X DOMAIN batch[j].ids : j \in S}

Vocabulary(i) == {batch[t[1]].ids[t[2]] : t \in TokensOf(GroupOf(i))}

Error(t, v) ==
    (IF v = batch[t[1]].ids[t[2]] THEN Unit ELSE 0) - batch[t[1]].features[t[2]].q[v]

\* <g, g'> <h, h'> of two tokens.
Pair(t, u) ==
    MapThenSumSet(LAMBDA v : Error(t, v) * Error(u, v), Vocabulary(t[1]))
    * MapThenSumSet(LAMBDA d : batch[t[1]].features[t[2]].h[d] * batch[u[1]].features[u[2]].h[d], Hidden)

Interference(t) == MapThenSumSet(LAMBDA u : Pair(t, u), TokensOf(Correct(t[1])))

\* In units of 1 / GroupSize.
ScaleOf(i, k) ==
    IF /\ i \notin Correct(i)
       /\ \E j \in Correct(i) :
            Interference(<<i, k>>) * Len(batch[j].ids)
              > Beta * MapThenSumSet(LAMBDA l : Interference(<<j, l>>), DOMAIN batch[j].ids)
    THEN LET n == GroupSize - 2 * Cardinality(Correct(i)) IN IF n < 0 THEN -n ELSE n
    ELSE GroupSize

SInit == outcome = "pending" /\ scale = <<>>

Answers ==
    /\ outcome = "pending" /\ Acceptable
    /\ outcome' = "scaled"
    /\ scale' = [i \in Rows |-> [k \in DOMAIN batch[i].ids |-> ScaleOf(i, k)]]
    /\ UNCHANGED <<batch, requireBinary>>

Fails ==
    /\ outcome = "pending" /\ ~Acceptable
    /\ outcome' = "failed"
    /\ UNCHANGED <<batch, requireBinary, scale>>

SSpec == SInit /\ [][Answers \/ Fails]_svars

=============================================================================
