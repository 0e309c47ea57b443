------------------------------ MODULE RateLimiter ------------------------------
(***************************************************************************)
(* The rate-limited reward manager                                          *)
(* (verl/experimental/reward_loop/reward_manager/limited.py): every reward   *)
(* request is decoded in a thread of the default executor, passes the bucket *)
(* of requests per minute, the bucket of tokens per minute and a semaphore,  *)
(* and then calls the reward function under a timeout: in another thread of  *)
(* the same executor, if the function is not a coroutine.                    *)
(*                                                                           *)
(* The tokens of a bucket are measured by the time it takes to refill them.  *)
(* Both buckets hold what one second refills (init_class), so that they have *)
(* the same Capacity; the cost of a request is its tokens over the rate.     *)
(***************************************************************************)
EXTENDS Integers, Sequences, FiniteSetsExt

CONSTANTS
    Requests,
    Capacity,       \* ticks in a second
    Cost,           \* Cost[b]: ticks to refill one request; 0 if b is not configured
    MaxConcurrent,  \* max_concurrent
    Timeout,        \* timeout, in ticks
    Workers         \* threads of the default executor, for decoding and for calls

Buckets == {"rpm", "tpm"}

ASSUME LimitsAssumption ==
    /\ Capacity \in Nat \ {0} /\ Cost \in [Buckets -> Nat]
    /\ MaxConcurrent \in Nat \ {0} /\ Timeout \in Nat \ {0} /\ Workers \in Nat \ {0}

VARIABLES
    sync,    \* the reward function is not a coroutine: it runs in a thread
    stage,   \* stage[r]: the layer the request is in
    paid,    \* requests that sleep with their tokens taken
    sleep,   \* sleep[r]: ticks left of asyncio.sleep
    tokens,  \* tokens[b], below 0 after a request larger than the bucket
    since,   \* since[b]: ticks since last_update
    queue,   \* waiters of the semaphore
    timer,   \* timer[r]: ticks left of wait_for
    api,     \* api[r]: none, pending (waits for a thread) or running
    load     \* history: what bucket b has granted and time has not yet paid for

vars == <<sync, stage, paid, sleep, tokens, since, queue, timer, api, load>>
bucketVars == <<paid, sleep, tokens, since, load>>
callVars == <<queue, timer, api>>

Init ==
    /\ sync \in BOOLEAN
    /\ stage = [r \in Requests |-> "decode"]
    /\ paid = {}
    /\ sleep = [r \in Requests |-> 0]
    /\ tokens = [b \in Buckets |-> Capacity]
    /\ since = [b \in Buckets |-> 0]
    /\ queue = <<>>
    /\ timer = [r \in Requests |-> 0]
    /\ api = [r \in Requests |-> "none"]
    /\ load = [b \in Buckets |-> 0]

Running == {r \in Requests : api[r] = "running"}

\* The threads that calls of the reward function keep.
Threads == IF sync THEN Running ELSE {}

\* The responses are decoded in a thread, before any limit and any timeout: decoding
\* itself takes no time that matters.
Decodes(r) ==
    /\ stage[r] = "decode" /\ Cardinality(Threads) < Workers
    /\ stage' = [stage EXCEPT ![r] = "rpm"]
    /\ UNCHANGED <<sync, bucketVars, callVars>>

-----------------------------------------------------------------------------
(* The buckets: AsyncTokenBucket.acquire.                                   *)

Waits(r, b) == stage[r] = b /\ r \notin paid /\ sleep[r] = 0

Large(b) == Cost[b] > Capacity

Refilled(b) == Min({Capacity, tokens[b] + since[b]})

\* Mutant of Debt: the bucket never goes below zero.
DebtForgiven(b) == Max({0, Refilled(b) - Cost[b]})

\* What is left when a request has taken its tokens.
Debt(b) == Refilled(b) - Cost[b]

\* The next layer: the other bucket, then the semaphore.
Passes(r, b) ==
    /\ stage' = [stage EXCEPT ![r] = IF b = "rpm" THEN "tpm" ELSE "queued"]
    /\ queue' = IF b = "tpm" THEN Append(queue, r) ELSE queue

\* A request larger than the bucket takes its tokens at once, and then sleeps
\* until they are refilled.
Borrows(r, b) ==
    /\ Waits(r, b) /\ Large(b)
    /\ tokens' = [tokens EXCEPT ![b] = Debt(b)]
    /\ since' = [since EXCEPT ![b] = 0]
    /\ sleep' = [sleep EXCEPT ![r] = Cost[b] - Refilled(b)]
    /\ paid' = paid \cup {r}
    /\ UNCHANGED <<sync, stage, load, callVars>>

Repaid(r, b) ==
    /\ stage[r] = b /\ r \in paid /\ sleep[r] = 0
    /\ paid' = paid \ {r}
    /\ Passes(r, b)
    /\ UNCHANGED <<sync, sleep, tokens, since, load, timer, api>>

\* Otherwise it takes them when they are all there.
Takes(r, b) ==
    /\ Waits(r, b) /\ ~Large(b) /\ Refilled(b) >= Cost[b]
    /\ tokens' = [tokens EXCEPT ![b] = Debt(b)]
    /\ since' = [since EXCEPT ![b] = 0]
    /\ load' = [load EXCEPT ![b] = @ + Cost[b]]
    /\ Passes(r, b)
    /\ UNCHANGED <<sync, paid, sleep, timer, api>>

\* Mutant of Missing: computed from the tokens before they are refilled.
MissingStale(b) == Cost[b] - tokens[b]

Missing(b) == Cost[b] - Refilled(b)

\* And sleeps while some are missing, to try again.
Sleeps(r, b) ==
    /\ Waits(r, b) /\ ~Large(b) /\ Refilled(b) < Cost[b]
    /\ tokens' = [tokens EXCEPT ![b] = Refilled(b)]
    /\ since' = [since EXCEPT ![b] = 0]
    /\ sleep' = [sleep EXCEPT ![r] = Missing(b)]
    /\ UNCHANGED <<sync, stage, paid, load, callVars>>

-----------------------------------------------------------------------------
(* The semaphore and the call: run_single, _compute_reward.                 *)

Holders == {r \in Requests : stage[r] = "held"}

SlotFree == Cardinality(Holders) < MaxConcurrent

Starts ==
    /\ queue # <<>> /\ SlotFree
    /\ LET r == Head(queue)
       IN /\ stage' = [stage EXCEPT ![r] = "held"]
          /\ timer' = [timer EXCEPT ![r] = Timeout]
          /\ api' = [api EXCEPT ![r] = IF sync THEN "pending" ELSE "running"]
    /\ queue' = Tail(queue)
    /\ UNCHANGED <<sync, bucketVars>>

\* A thread of the executor takes the call.
ThreadTakes(r) ==
    /\ api[r] = "pending" /\ Cardinality(Threads) < Workers
    /\ api' = [api EXCEPT ![r] = "running"]
    /\ UNCHANGED <<sync, stage, queue, timer, bucketVars>>

\* The reward function returns or raises. Nobody waits any more for one that timed out.
Returns(r) ==
    /\ api[r] = "running"
    /\ api' = [api EXCEPT ![r] = "none"]
    /\ stage' = [stage EXCEPT ![r] = "done"]
    /\ UNCHANGED <<sync, queue, timer, bucketVars>>

\* Mutant of Expired: wait_for has no timeout.
ExpiredNever(r) == FALSE

Expired(r) == timer[r] = 0

\* Mutant of Cancelled: the call goes on after the timeout.
CancelledNever(r) == api[r]

\* wait_for cancels a coroutine and a call that has no thread yet, never a thread.
Cancelled(r) == IF sync /\ api[r] = "running" THEN "running" ELSE "none"

TimesOut(r) ==
    /\ stage[r] = "held" /\ Expired(r)
    /\ stage' = [stage EXCEPT ![r] = "done"]
    /\ api' = [api EXCEPT ![r] = Cancelled(r)]
    /\ UNCHANGED <<sync, queue, timer, bucketVars>>

-----------------------------------------------------------------------------
Less(n) == IF n > 0 THEN n - 1 ELSE 0

\* The requests whose tokens are refilled with this tick.
Due(b) == {r \in paid : stage[r] = b /\ sleep[r] = 1}

\* Time. Timers may fire late: nothing here waits for those that are due.
Tick ==
    /\ since' = [b \in Buckets |->
          IF tokens[b] + since[b] < Capacity THEN since[b] + 1 ELSE since[b]]
    /\ sleep' = [r \in Requests |-> Less(sleep[r])]
    /\ timer' = [r \in Requests |-> Less(timer[r])]
    /\ load' = [b \in Buckets |-> Less(load[b]) + Cost[b] * Cardinality(Due(b))]
    /\ UNCHANGED <<sync, stage, paid, tokens, queue, api>>

Acquires(r, b) == Borrows(r, b) \/ Repaid(r, b) \/ Takes(r, b) \/ Sleeps(r, b)

Next ==
    \/ \E r \in Requests, b \in Buckets : Borrows(r, b) \/ Repaid(r, b) \/ Takes(r, b) \/ Sleeps(r, b)
    \/ Starts
    \/ \E r \in Requests : Decodes(r) \/ ThreadTakes(r) \/ Returns(r) \/ TimesOut(r)
    \/ Tick

\* The event loop runs what is ready and time passes. The reward function may never return.
Fairness ==
    /\ \A r \in Requests, b \in Buckets : WF_vars(Acquires(r, b))
    /\ \A r \in Requests : WF_vars(Decodes(r)) /\ WF_vars(TimesOut(r))
    /\ WF_vars(Starts) /\ WF_vars(Tick)

Spec == Init /\ [][Next]_vars /\ Fairness
-----------------------------------------------------------------------------
(* Properties. *)

TypeOK ==
    /\ sync \in BOOLEAN
    /\ stage \in [Requests -> Buckets \cup {"decode", "queued", "held", "done"}]
    /\ paid \subseteq Requests
    /\ sleep \in [Requests -> Nat] /\ timer \in [Requests -> Nat]
    /\ tokens \in [Buckets -> Int] /\ since \in [Buckets -> Nat]
    /\ load \in [Buckets -> Nat]
    /\ queue \in Seq(Requests)
    /\ api \in [Requests -> {"none", "pending", "running"}]

\* In any span of t ticks a bucket grants at most what it holds when it is full, or one
\* request if that is larger, and what t ticks refill (limited.py 77-83, 114-117: requests
\* larger than the bucket, which borrow from it, included). load is the largest
\* excess of the spans that end now.
WithinRate == \A b \in Buckets : load[b] <= Max({Capacity, Cost[b]})

\* A request that waits for a bucket sleeps no longer than the tokens it lacks need,
\* whatever the others that woke with it took (limited.py 166-167).
NoOversleep ==
    \A r \in Requests, b \in Buckets :
        stage[r] = b /\ ~Large(b) => sleep[r] <= Max({0, Cost[b] - Refilled(b)})

\* At most max_concurrent calls of the reward function run (limited.py 182-184). A function that
\* is not a coroutine keeps its thread after its timeout: only those that are still waited for count.
ConcurrencyLimited ==
    Cardinality({r \in Running : sync => stage[r] = "held"}) <= MaxConcurrent

\* Calls that nobody waits for any more keep every thread.
ThreadsGone == sync /\ Cardinality({r \in Running : stage[r] = "done"}) = Workers

\* Every request is answered, even if the reward function never returns, whoever wins the
\* race for the tokens (limited.py 405-453).  The one exception is a request that has not
\* been decoded: functions that are not coroutines and never return may keep all the
\* threads that it needs (limited.py 389, 414).
EveryRequestAnswered ==
    \A r \in Requests :
        <>(stage[r] = "done") \/ <>[](stage[r] = "decode" /\ ThreadsGone)

=============================================================================
