------------------------- MODULE MessageQueueSystem -------------------------
(***************************************************************************)
(* The message queue with callers that may call any method at any time.    *)
(***************************************************************************)
EXTENDS MessageQueue

CONSTANTS MaxPuts,     \* bound of the model: how many puts are explored
          MaxVersion   \* bound of the model: the largest version set

ASSUME BoundsAssumption == MaxPuts \in Nat /\ MaxVersion \in Nat

MQNext ==
    \/ totalProduced < MaxPuts /\ \E s \in Items : PutSample(s)
    \/ \E c \in Consumers : GetSample(c)
    \/ \E v \in 0..MaxVersion : UpdateParamVersion(v)
    \/ ClearQueue
    \/ Shutdown
    \/ \E v \in 0..MaxVersion : Len(valQueue) <= MaxVersion /\ PutValidate(v)
    \/ GetValidate

MQSpec == MQInit /\ [][MQNext]_mqVars
=============================================================================
