------------------------------- MODULE NthrGroup -------------------------------
(***************************************************************************)
(* One prompt's group of responses: examples/nthr_trainer/nthr.py.          *)
(*                                                                          *)
(* ids[i][k] is token k of response i; features[i][k] is what the forward   *)
(* pass says of the position that predicts it: the hidden state h and the    *)
(* probabilities q, here in units of 1/Unit.  Scores are then in units of    *)
(* 1/Unit^2, which their comparison does not see.                           *)
(***************************************************************************)
EXTENDS Integers, Sequences, FiniteSetsExt

CONSTANTS
    Hidden,     \* the coordinates of a hidden state
    Unit,       \* what probabilities are a multiple of the inverse of
    Threshold,  \* reward_threshold
    Beta

Positive(scores) == {i \in DOMAIN scores : scores[i] >= Threshold}

\* A group with nothing to tell correct from incorrect keeps its advantages.
Mixed(scores) == Positive(scores) # {} /\ Positive(scores) # DOMAIN scores

\* The tokens of the group, <<response, position>>.
Tokens(ids) == UNION {{i} \X DOMAIN ids[i] : i \in DOMAIN ids}

VStar(ids) == {ids[t[1]][t[2]] : t \in Tokens(ids)}

\* one_hot(sample) - probabilities on the sampled vocabulary, not renormalized.
PredictionError(id, q, V) == [v \in V |-> (IF v = id THEN Unit ELSE 0) - q[v]]

\* M+ = (G+)^T H+, over the tokens of the positive responses.
PositiveAggregate(scores, ids, features) ==
    LET positive == {t \in Tokens(ids) : t[1] \in Positive(scores)}
        error(t) == PredictionError(ids[t[1]][t[2]], features[t[1]][t[2]].q, VStar(ids))
    IN [v \in VStar(ids) |-> [d \in Hidden |->
          MapThenSumSet(LAMBDA t : error(t)[v] * features[t[1]][t[2]].h[d], positive)]]

\* (error @ M+) * hidden, summed.
TokenScore(id, feature, M) ==
    LET error == PredictionError(id, feature.q, DOMAIN M)
    IN MapThenSumSet(LAMBDA d :
           feature.h[d] * MapThenSumSet(LAMBDA v : error[v] * M[v][d], DOMAIN M), Hidden)

\* Mutant of Selected: the threshold itself is selected.
SelectedAtThreshold(scores, ids, features) ==
    LET M == PositiveAggregate(scores, ids, features)
        score == [i \in DOMAIN ids |-> [k \in DOMAIN ids[i] |-> TokenScore(ids[i][k], features[i][k], M)]]
        anchor == [j \in Positive(scores) |-> MapThenSumSet(LAMBDA k : score[j][k], DOMAIN ids[j])]
    IN [i \in DOMAIN ids |-> [k \in DOMAIN ids[i] |->
          i \notin Positive(scores)
          /\ \E j \in Positive(scores) : score[i][k] * Len(ids[j]) >= Beta * anchor[j]]]

\* The tokens of negative responses above tau, beta times the least mean score of a
\* positive response; comparing with a mean is comparing with a sum over a length.
Selected(scores, ids, features) ==
    LET M == PositiveAggregate(scores, ids, features)
        score == [i \in DOMAIN ids |-> [k \in DOMAIN ids[i] |-> TokenScore(ids[i][k], features[i][k], M)]]
        anchor == [j \in Positive(scores) |-> MapThenSumSet(LAMBDA k : score[j][k], DOMAIN ids[j])]
    IN [i \in DOMAIN ids |-> [k \in DOMAIN ids[i] |->
          i \notin Positive(scores)
          /\ \E j \in Positive(scores) : score[i][k] * Len(ids[j]) > Beta * anchor[j]]]

\* eta = 2 * |0.5 - p| in units of 1 / size of the group.
Eta(scores) ==
    LET n == Len(scores) - 2 * Cardinality(Positive(scores))
    IN IF n < 0 THEN -n ELSE n

=============================================================================
