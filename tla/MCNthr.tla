-------------------------------- MODULE MCNthr ---------------------------------
(***************************************************************************)
(* Batches of four prompts, three responses each, on two ranks.             *)
(***************************************************************************)
EXTENDS Nthr

Feature(h1, h2, qa, qb) == [h |-> [d \in {1, 2} |-> IF d = 1 THEN h1 ELSE h2],
                            q |-> [v \in {"a", "b"} |-> IF v = "a" THEN qa ELSE qb]]

\* Responses: the sampled ids and what the actor says of each position.
A == [ids |-> <<"a">>, features |-> <<Feature(1, 0, 1, 2)>>]
B == [ids |-> <<"b">>, features |-> <<Feature(1, 1, 3, 1)>>]
AB == [ids |-> <<"a", "b">>, features |-> <<Feature(1, -1, 0, 4), Feature(2, 1, 2, 1)>>]
BA == [ids |-> <<"b", "a">>, features |-> <<Feature(0, 1, 1, 1), Feature(-1, 1, 2, 2)>>]
None == [ids |-> <<>>, features |-> <<>>]

Row(uid, score, response) ==
    [uid |-> uid, score |-> score, ids |-> response.ids, features |-> response.features]

Prompt(uid, scores, responses) == [i \in 1..3 |-> Row(uid, scores[i], responses[i])]

\* Three prompts of every kind: mixed, all incorrect, mixed.
Others ==
    Prompt("u2", <<0, 1, 0>>, <<A, AB, BA>>)
      \o Prompt("u3", <<0, 0, 0>>, <<A, A, B>>) \o Prompt("u4", <<1, 0, 1>>, <<B, BA, AB>>)

Base == Prompt("u1", <<1, 0, 0>>, <<AB, BA, A>>) \o Others

\* Every outcome of the first prompt.
Outcomes ==
    {Prompt("u1", s, Append(t, BA)) \o Others :
        s \in [1..3 -> {0, 1}], t \in [1..2 -> {A, AB, BA}]}

\* A batch that was not left in order: two rows exchanged, within a part or across.
Reordered ==
    {[Base EXCEPT ![i] = Base[j], ![j] = Base[i]] : i \in 1..12, j \in 1..12}

\* A row without tokens, or with a reward that is not binary.
Odd ==
    {[Base EXCEPT ![i] = Row(@.uid, 1, None)] : i \in 1..12}
    \cup {[Base EXCEPT ![i] = Row(@.uid, -1, A)] : i \in 1..12}

MCBatches == Outcomes \cup Reordered \cup Odd
MCHidden == {1, 2}
=============================================================================
