----------------------------- MODULE MCCheckpoint -----------------------------
(* Instances of Checkpoint for TLC. *)
EXTENDS Checkpoint

CONSTANTS r0, r1

MCRanks == {r0, r1}
MCKeepTwo == [g \in Role |-> 2]
MCKeepOne == [g \in Role |-> 1]

\* What the synchronous trainer has at any time: nothing in flight, nothing skipped.
MCSynchronous == ahead = {} /\ \A i \in 1..Len(weights) : weights[i][2] = i

\* Bound of the run checkpoint. The synchronous trainer is explored to its end; with
\* batches in flight, the first job to its fourth step and the second to its third,
\* without the saves that the end of the instance forces.
MCInFlight ==
    \/ MCSynchronous
    \/ crashes < 2 /\ step + crashes <= 4 /\ (pc = "save" => SaveDue)
=============================================================================
