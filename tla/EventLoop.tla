------------------------------ MODULE EventLoop ------------------------------
(***************************************************************************)
(* What the Rollouter uses of asyncio: one event loop that runs its ready  *)
(* coroutines in the order they became ready, and one lock that is handed  *)
(* over in the order it was asked for.                                     *)
(*                                                                         *)
(* The head of "ready" is the coroutine that runs, until it suspends.  The *)
(* head of "lockQueue" owns the lock; a coroutine that waits for it        *)
(* becomes ready again when the lock is handed to it.                      *)
(***************************************************************************)
EXTENDS Integers, Sequences, FiniteSets

VARIABLES ready, lockQueue

loopVars == <<ready, lockQueue>>

Runs(c) == ready # <<>> /\ Head(ready) = c
IsReady(c) == \E i \in 1..Len(ready) : ready[i] = c

\* An event from outside the loop (a reply, a call, a timer) makes c ready.
Wake(c) == /\ ~IsReady(c)
           /\ ready' = Append(ready, c)

\* The running coroutine goes on, or suspends; it has made "woken" ready.
Continue(woken) == ready' = ready \o woken
Suspend(woken) == ready' = Tail(ready) \o woken

Acquire(c) ==
    /\ lockQueue' = Append(lockQueue, c)
    /\ IF lockQueue = <<>> THEN Continue(<<>>) ELSE Suspend(<<>>)

\* c runs, and the lock it asked for is its own.
Owns(c) == Runs(c) /\ lockQueue # <<>> /\ Head(lockQueue) = c

NextOwner == SubSeq(lockQueue, 2, IF Len(lockQueue) > 1 THEN 2 ELSE 1)

\* The owner gives up the lock and goes on, or suspends.
ReleaseContinue(woken) == lockQueue' = Tail(lockQueue) /\ Continue(woken \o NextOwner)
ReleaseSuspend(woken) == lockQueue' = Tail(lockQueue) /\ Suspend(woken \o NextOwner)
=============================================================================
