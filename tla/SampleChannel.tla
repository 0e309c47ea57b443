---------------------------- MODULE SampleChannel ----------------------------
(***************************************************************************)
(* What the sample queue promises: a bounded channel that delivers in the  *)
(* order of sending, each entry at most once, and that loses entries only  *)
(* from the old end, one at a time to make room or all together when it is *)
(* cleared.  It is an abstract specification: no code, only the promise.   *)
(***************************************************************************)
EXTENDS Integers, Sequences

CONSTANTS Item, Capacity

VARIABLES sent,   \* everything ever sent, in order
          next,   \* the position in sent of the oldest entry not yet gone
          got     \* the positions delivered, in the order of delivery

InFlight == Len(sent) - next + 1

Init == sent = <<>> /\ next = 1 /\ got = <<>>

Send(m) ==
    /\ sent' = Append(sent, m)
    /\ next' = IF InFlight = Capacity THEN next + 1 ELSE next
    /\ got' = got

Receive ==
    /\ InFlight > 0
    /\ got' = Append(got, next)
    /\ next' = next + 1
    /\ sent' = sent

Discard ==
    /\ next' = Len(sent) + 1
    /\ UNCHANGED <<sent, got>>

Next == (\E m \in Item : Send(m)) \/ Receive \/ Discard

Spec == Init /\ [][Next]_<<sent, next, got>>
=============================================================================
