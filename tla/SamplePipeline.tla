--------------------------- MODULE SamplePipeline ---------------------------
(***************************************************************************)
(* What the recipe promises about the samples, without saying how: a       *)
(* sample that was fed is generated, waits in the queue, is fetched into a *)
(* batch and trained on with a full batch, each once and never backwards;  *)
(* until it is fetched it may be lost, and then it never comes back.       *)
(***************************************************************************)
EXTENDS Integers, FiniteSets

CONSTANTS Samples, BatchSize

VARIABLE place   \* "new", "rollout", "queue", "batch", "trained" or "lost"

In(p) == {s \in Samples : place[s] = p}

\* The samples of S go to p, those of L are lost.
Go(S, p, L) == place' = [s \in Samples |-> IF s \in L THEN "lost" ELSE IF s \in S THEN p ELSE place[s]]

Feed == \E s \in In("new") : Go({s}, "rollout", {})
Send == \E s \in In("rollout") : \E L \in SUBSET In("queue") :
            Cardinality(L) <= 1 /\ Go({s}, "queue", L)
Fetch == /\ Cardinality(In("batch")) < BatchSize
         /\ \E s \in In("queue") : Go({s}, "batch", {})
Train == /\ Cardinality(In("batch")) = BatchSize
         /\ Go(In("batch"), "trained", {})
Lose == \E s \in In("rollout") \cup In("queue") : Go({}, "lost", {s})
Clear == Go({}, "lost", In("queue"))

Next == Feed \/ Send \/ Fetch \/ Train \/ Lose \/ Clear

Spec == place = [s \in Samples |-> "new"] /\ [][Next]_place
=============================================================================
