---------------------------- MODULE PartialRollout -----------------------------
(***************************************************************************)
(* Generation that can be interrupted (recipe/fully_async_policy): the      *)
(* agent loops of a sample's trajectories, the servers they send requests   *)
(* to, and the rollouter that cancels all of them to move new weights in.   *)
(*                                                                          *)
(* A token is the version of the weights that generated it.  A request is   *)
(* named by its trajectory and the version it was submitted under: its id   *)
(* is new each time a trajectory is run.  The synchronizer pauses the        *)
(* rollouter, moves the weights, updates the version, and resumes it; the    *)
(* rollouter's monitor may undo the pause before the resume.  FullyAsync has *)
(* the rest of the rollouter: here any sample may be submitted whenever the  *)
(* rollouter runs and nobody holds its lock.                                 *)
(***************************************************************************)
EXTENDS Naturals, Sequences, FiniteSetsExt, SequencesExt

CONSTANTS
    Samples, Trajectories,  \* Trajectories: of each sample
    Servers,
    ResponseLength,  \* response_length
    MaxTokens,       \* tokens a server generates at most before it stops by itself
    MaxVersion,      \* bound of the model: synchronizations
    MaxFailures      \* bound of the model: generations that raise

ASSUME SizesAssumption ==
    /\ ResponseLength \in Nat \ {0} /\ MaxTokens \in Nat /\ MaxTokens >= ResponseLength
    /\ MaxVersion \in Nat /\ MaxFailures \in Nat
    /\ Servers # {} /\ Trajectories # {}

VARIABLES
    phase,     \* of the rollouter's pause, the transfer, the update of the version, the resume
    rollouter, \* running, paused, or unpausing: the monitor waits for the lock to unpause it
    version,   \* of the weights on the servers, and current_param_version
    undone,    \* history: the versions whose transfer found the pause undone by the monitor
    paused,    \* paused[s] of server s
    entries,   \* keys of cancel_event and req_output of all servers
    sample,    \* sample[i]: pending, active, done or failed
    request,   \* request[i][j]: the request of a trajectory that is being run
    response,  \* response[i][j]: response_ids of its AgentLoopOutput
    finished,  \* finished[i][j]: it has an output that is not is_cancel
    bounds,    \* bounds[i][j]: param_version_start and param_version_end
    failures

vars == <<phase, rollouter, version, undone, paused, entries, sample, request, response, finished, bounds, failures>>

Tasks == Samples \X Trajectories

NoRequest == [st |-> "none"]
\* No output yet: an interval of versions that is empty.
NoBounds == [start |-> 1, end |-> 0]

Init ==
    /\ phase = "open" /\ rollouter = "running" /\ version = 0 /\ undone = {}
    /\ paused = [s \in Servers |-> FALSE]
    /\ entries = {}
    /\ sample = [i \in Samples |-> "pending"]
    /\ request = [t \in Tasks |-> NoRequest]
    /\ response = [t \in Tasks |-> <<>>]
    /\ finished = [t \in Tasks |-> FALSE]
    /\ bounds = [t \in Tasks |-> NoBounds]
    /\ failures = 0

HasOutput(t) == bounds[t] # NoBounds

-----------------------------------------------------------------------------
(* The worker runs the agent loops of a sample. *)

\* Mutant of ToRun: the trajectories that finished are run again.
ToRunAll(i) == {t \in Tasks : t[1] = i}

\* "Completed, return directly."
ToRun(i) == {t \in Tasks : t[1] = i /\ ~finished[t]}

\* Nobody holds the rollouter's lock: pause and resume do until they return.
LockFree == phase \in {"open", "transfer", "updated"}

\* The end of _processor_worker, _process_single_sample_streaming,
\* generate_sequences_no_post.  The new task reads the version before a later holder
\* of the lock changes it.
Submits(i) ==
    /\ LockFree /\ rollouter = "running" /\ sample[i] = "pending"
    /\ sample' = [sample EXCEPT ![i] = "active"]
    /\ request' = [t \in Tasks |-> IF t \in ToRun(i) THEN [st |-> "sent", v |-> version] ELSE request[t]]
    /\ UNCHANGED <<phase, rollouter, version, undone, paused, entries, response, finished, bounds, failures>>

\* Mutant of Start: each attempt is a beginning.
StartLast(t) == request[t].v

\* param_version_start of what is resumed is kept.
Start(t) == IF HasOutput(t) THEN bounds[t].start ELSE request[t].v

\* The end of PartialSingleTurnAgentLoop.run. The result of a task of a sample that
\* failed goes nowhere.
Receives(t) ==
    /\ request[t].st = "answered"
    /\ request' = [request EXCEPT ![t] = NoRequest]
    /\ IF sample[t[1]] = "active"
       THEN LET tokens == response[t] \o request[t].tokens
            IN /\ response' = [response EXCEPT ![t] =
                                 SubSeq(tokens, 1, Min({Len(tokens), ResponseLength}))]
               /\ finished' = [finished EXCEPT ![t] =
                                 ~request[t].cancelled \/ Len(tokens) >= ResponseLength]
               /\ bounds' = [bounds EXCEPT ![t] = [start |-> Start(t), end |-> request[t].v]]
       ELSE UNCHANGED <<response, finished, bounds>>
    /\ UNCHANGED <<phase, rollouter, version, undone, paused, entries, sample, failures>>

\* gather of the tasks of a sample: it goes to the message queue, or back to be resumed.
Gathers(i) ==
    /\ sample[i] = "active"
    /\ \A t \in Tasks : t[1] = i => request[t] = NoRequest
    /\ sample' = [sample EXCEPT ![i] =
                    IF \A t \in Tasks : t[1] = i => finished[t] THEN "done" ELSE "pending"]
    /\ UNCHANGED <<phase, rollouter, version, undone, paused, entries, request, response, finished, bounds, failures>>

-----------------------------------------------------------------------------
(* A server: vLLMHttpServerForPartial. *)

\* A trajectory is admitted at most once under the same weights: its entries are told
\* apart by the weights that the server had.
Key(t) == <<t, request[t].w>>

Answer(t, tokens, cancelled) ==
    request' = [request EXCEPT ![t] =
        [st |-> "answered", v |-> @.v, tokens |-> tokens, cancelled |-> cancelled]]

\* Mutant of TurnedAway: a server that is paused takes requests.
TurnedAwayNever(s) == FALSE

TurnedAway(s) == paused[s]

\* The request reaches the server chosen for it (nothing shows the choice before that):
\* generate_for_partial up to the wait.
Arrives(t, s) ==
    /\ request[t].st = "sent"
    /\ IF TurnedAway(s)
       THEN Answer(t, <<>>, TRUE) /\ UNCHANGED entries
       ELSE /\ request' = [request EXCEPT ![t] =
                 [st |-> "running", v |-> @.v, w |-> version, server |-> s, tokens |-> <<>>,
                  event |-> FALSE, over |-> FALSE]]
            /\ entries' = entries \cup {<<t, version>>}
    /\ UNCHANGED <<phase, rollouter, version, undone, paused, sample, response, finished, bounds, failures>>

\* An output of the engine, which may be its last.
Yields(t) ==
    /\ request[t].st = "running" /\ ~request[t].over
    /\ \E last \in BOOLEAN :
         /\ Len(response[t]) + Len(request[t].tokens) + 1 = MaxTokens => last
         /\ request' = [request EXCEPT ![t] =
              [st |-> "running", v |-> @.v, w |-> @.w, server |-> @.server,
               tokens |-> Append(@.tokens, version), event |-> @.event, over |-> last]]
    /\ UNCHANGED <<phase, rollouter, version, undone, paused, entries, sample, response, finished, bounds, failures>>

\* Mutant of Kept: an interrupted request keeps its entries.
KeptIfCancelled(t) ==
    IF request[t].tokens = <<>> \/ ~request[t].over THEN entries ELSE entries \ {Key(t)}

\* The entries of a request are removed if it has an output.
Kept(t) == IF request[t].tokens = <<>> THEN entries ELSE entries \ {Key(t)}

\* The wait ends: the generation is over, or cancel_event is set.
Answers(t) ==
    /\ request[t].st = "running" /\ (request[t].over \/ request[t].event)
    /\ Answer(t, request[t].tokens, ~request[t].over)
    /\ entries' = Kept(t)
    /\ UNCHANGED <<phase, rollouter, version, undone, paused, sample, response, finished, bounds, failures>>

\* The engine raises: so do the gather and the task of the sample, while the other
\* trajectories are left running.
Raises(t) ==
    /\ request[t].st = "running" /\ ~request[t].over /\ failures < MaxFailures
    /\ failures' = failures + 1
    /\ request' = [request EXCEPT ![t] = NoRequest]
    /\ sample' = [sample EXCEPT ![t[1]] = IF @ = "active" THEN "failed" ELSE @]
    /\ UNCHANGED <<phase, rollouter, version, undone, paused, entries, response, finished, bounds>>

-----------------------------------------------------------------------------
(* The rollouter pauses, the weights move, the rollouter resumes. *)

Pauses ==
    /\ phase = "open" /\ version < MaxVersion
    /\ phase' = "cancelling" /\ rollouter' = "paused"
    /\ UNCHANGED <<version, undone, paused, entries, sample, request, response, finished, bounds, failures>>

\* _async_monitor_loop: monitor_loop_trigger is cleared at the end of pause only, so the
\* monitor may find it set, and _should_pause_generation false, while pause holds the lock.
MonitorAsks ==
    /\ phase \in {"cancelling", "waiting"} /\ rollouter = "paused"
    /\ rollouter' = "unpausing"
    /\ UNCHANGED <<phase, version, undone, paused, entries, sample, request, response, finished, bounds, failures>>

\* It gets the lock after pause, and before update_param_version.
Unpauses ==
    /\ phase = "transfer" /\ rollouter = "unpausing"
    /\ rollouter' = "running"
    /\ undone' = undone \cup {version + 1}
    /\ UNCHANGED <<phase, version, paused, entries, sample, request, response, finished, bounds, failures>>

\* Server s: cancel().
Cancels(s) ==
    /\ phase = "cancelling" /\ ~paused[s]
    /\ paused' = [paused EXCEPT ![s] = TRUE]
    /\ request' = [t \in Tasks |->
         IF request[t].st = "running" /\ request[t].server = s
         THEN [request[t] EXCEPT !.event = TRUE] ELSE request[t]]
    /\ UNCHANGED <<phase, rollouter, version, undone, entries, sample, response, finished, bounds, failures>>

Cancelled ==
    /\ phase = "cancelling" /\ \A s \in Servers : paused[s]
    /\ phase' = "waiting"
    /\ UNCHANGED <<rollouter, version, undone, paused, entries, sample, request, response, finished, bounds, failures>>

\* Mutant of AllReturned: interrupted samples are waited for too.
AllReturnedFinished == \A i \in Samples : sample[i] \in {"done", "failed"}

AllReturned == \A i \in Samples : sample[i] # "active"

\* gather(*active_tasks); then the KV cache is cleared and the weights start to move.
Quiets ==
    /\ phase = "waiting" /\ AllReturned
    /\ phase' = "transfer"
    /\ UNCHANGED <<rollouter, version, undone, paused, entries, sample, request, response, finished, bounds, failures>>

\* The weights have moved; update_param_version.
Transfers ==
    /\ phase = "transfer" /\ rollouter # "unpausing"
    /\ version' = version + 1
    /\ phase' = "updated"
    /\ UNCHANGED <<rollouter, undone, paused, entries, sample, request, response, finished, bounds, failures>>

\* resume gets the lock.
BeginsResume ==
    /\ phase = "updated"
    /\ phase' = "resuming"
    /\ UNCHANGED <<rollouter, version, undone, paused, entries, sample, request, response, finished, bounds, failures>>

\* Server s: resume().
Resumes(s) ==
    /\ phase = "resuming" /\ paused[s]
    /\ paused' = [paused EXCEPT ![s] = FALSE]
    /\ UNCHANGED <<phase, rollouter, version, undone, entries, sample, request, response, finished, bounds, failures>>

\* Mutant of AllResumed: generation starts again before the servers do.
AllResumedEarly == TRUE

AllResumed == \A s \in Servers : ~paused[s]

Opens ==
    /\ phase = "resuming" /\ AllResumed
    /\ phase' = "open" /\ rollouter' = "running"
    /\ UNCHANGED <<version, undone, paused, entries, sample, request, response, finished, bounds, failures>>

Ended == \A i \in Samples : sample[i] \in {"done", "failed"}

\* Nothing is left to generate.
Rests ==
    /\ phase = "open" /\ Ended /\ \A t \in Tasks : request[t] = NoRequest
    /\ UNCHANGED vars

TaskStep(t) == (\E s \in Servers : Arrives(t, s)) \/ Yields(t) \/ Answers(t) \/ Receives(t)

PauseStep ==
    \/ \E s \in Servers : Cancels(s) \/ Resumes(s)
    \/ Cancelled \/ Quiets \/ Unpauses \/ Transfers \/ BeginsResume \/ Opens

Next ==
    \/ \E i \in Samples : Submits(i) \/ Gathers(i)
    \/ \E t \in Tasks :
         \/ \E s \in Servers : Arrives(t, s)
         \/ Yields(t) \/ Answers(t) \/ Receives(t) \/ Raises(t)
    \/ \E s \in Servers : Cancels(s) \/ Resumes(s)
    \/ Pauses \/ MonitorAsks \/ Unpauses
    \/ Cancelled \/ Quiets \/ Transfers \/ BeginsResume \/ Opens \/ Rests

\* Tasks and engines run, a pause that began goes on; nothing forces a pause, or a sample
\* to be submitted.
Fairness ==
    /\ \A i \in Samples : WF_vars(Gathers(i))
    /\ \A t \in Samples \X Trajectories : WF_vars(TaskStep(t))
    /\ WF_vars(PauseStep)

Spec == Init /\ [][Next]_vars /\ Fairness
-----------------------------------------------------------------------------
(* Properties. *)

Token == Nat
Request ==
    {NoRequest}
    \cup [st : {"sent"}, v : Nat]
    \cup [st : {"running"}, v : Nat, w : Nat, server : Servers, tokens : Seq(Token), event : BOOLEAN, over : BOOLEAN]
    \cup [st : {"answered"}, v : Nat, tokens : Seq(Token), cancelled : BOOLEAN]

TypeOK ==
    /\ phase \in {"open", "cancelling", "waiting", "transfer", "updated", "resuming"}
    /\ rollouter \in {"running", "paused", "unpausing"} /\ undone \subseteq Nat
    /\ version \in Nat /\ failures \in Nat
    /\ paused \in [Servers -> BOOLEAN]
    /\ entries \subseteq Tasks \X Nat
    /\ sample \in [Samples -> {"pending", "active", "done", "failed"}]
    /\ request \in [Tasks -> Request]
    /\ response \in [Tasks -> Seq(Token)]
    /\ finished \in [Tasks -> BOOLEAN]
    /\ bounds \in [Tasks -> [start : Nat, end : Nat]]

\* A response is put together from what several versions of the weights generated, in
\* the order of the versions, all of them between the two its batch is labelled with
\* (partial_single_turn_agent_loop.py 46-112): staleness is computed from these.  The one
\* exception is a last request that was submitted while the weights moved, after the
\* monitor had undone the pause, and was answered by the weights that came: the label is
\* then one version too old (fully_async_rollouter.py 500, 640-644).
VersionsBracketed ==
    \A t \in Tasks :
      /\ \A k \in DOMAIN response[t] :
           /\ bounds[t].start <= response[t][k]
           /\ \/ response[t][k] <= bounds[t].end
              \/ response[t][k] = bounds[t].end + 1 /\ response[t][k] \in undone
      /\ \A k, l \in DOMAIN response[t] : k < l => response[t][k] <= response[t][l]

\* What an interruption leaves of a trajectory is only ever continued, and a
\* trajectory that finished is not touched when the rest of its sample is resumed
\* (agent_loop.py 166-169, partial_single_turn_agent_loop.py 91-98).
OnlyContinued ==
    [][\A t \in Tasks :
         /\ IsPrefix(response[t], response'[t])
         /\ finished[t] => finished'[t] /\ response'[t] = response[t] /\ bounds'[t] = bounds[t]]_vars

\* From the moment the weights move until the rollouter resumes, a server generates at
\* most for tasks whose sample failed, and even those have been told to stop
\* (vllm_async_server.py 112-116): a request that arrives late, or that the processor sends
\* after the monitor has undone the pause, is turned away.
ServersQuiet ==
    phase \in {"transfer", "updated"} =>
        \A t \in Tasks : request[t].st = "running" =>
            sample[t[1]] = "failed" /\ request[t].event

\* The monitor undid the last pause, or the one that the rollouter is in.
LastUndone == (IF phase = "transfer" THEN version + 1 ELSE version) \in undone

\* A sample comes back unfinished (fully_async_rollouter.py 523-525) only because the
\* rollouter is pausing, or because it was submitted to servers that were still paused: the
\* monitor had undone the pause before its resume (640-644).
InterruptedByPause ==
    [][\A i \in Samples : sample[i] = "active" /\ sample'[i] = "pending" =>
         phase \in {"cancelling", "waiting"} \/ LastUndone]_vars

\* The entries of a request that was answered stay on the server only if it never had
\* an output, or if it raised (vllm_async_server.py:106): the servers forget the rest.
LeftoversEmpty ==
    \A e \in entries : LET t == e[1] IN
        \/ request[t].st = "running" /\ request[t].w = e[2]
        \/ sample[t[1]] = "failed"
        \/ e[2] \notin ToSet(response[t])

\* A pause always ends, whatever the tasks and the servers are doing when it begins
\* (fully_async_rollouter.py 670-694): none is left waiting for an answer.
PauseEnds == phase = "cancelling" ~> phase = "open"

=============================================================================
