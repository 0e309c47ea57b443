------------------------- MODULE PartialRolloutProofs -------------------------
(***************************************************************************)
(* Interrupted generation, for any number of samples, trajectories, servers *)
(* and synchronizations: what the labels, the servers and the continued     *)
(* responses keep.                                                          *)
(***************************************************************************)
EXTENDS PartialRollout, SequenceTheorems, TLAPS

\* A request that a server runs, and one that has its answer.
Waiting ==
    [st : {"running"}, v : Nat, w : Nat, server : Servers, tokens : Seq(Nat), event : BOOLEAN, over : BOOLEAN]
Replied == [st : {"answered"}, v : Nat, tokens : Seq(Nat), cancelled : BOOLEAN]

\* The records a request may be, by its state.
LEMMA RequestKinds ==
  ASSUME TypeOK, NEW t \in Tasks
  PROVE  /\ request[t] \in Request
         /\ request[t].st \in {"none", "sent", "running", "answered"}
         /\ request[t].st = "none" => request[t] = NoRequest
         /\ request[t].st = "sent" => request[t] \in [st : {"sent"}, v : Nat]
         /\ request[t].st = "running" => request[t] \in Waiting
         /\ request[t].st = "answered" => request[t] \in Replied
  BY DEF TypeOK, Request, NoRequest, Waiting, Replied, Token

\* Records that are requests.
LEMMA RequestShapes ==
  /\ NoRequest \in Request
  /\ \A v \in Nat : [st |-> "sent", v |-> v] \in Request
  /\ \A v, w \in Nat, s \in Servers, tokens \in Seq(Nat), event, over \in BOOLEAN :
       [st |-> "running", v |-> v, w |-> w, server |-> s, tokens |-> tokens,
        event |-> event, over |-> over] \in Request
  /\ \A v \in Nat, tokens \in Seq(Nat), cancelled \in BOOLEAN :
       [st |-> "answered", v |-> v, tokens |-> tokens, cancelled |-> cancelled] \in Request
  BY DEF Request, NoRequest, Token

\* The smaller of two integers.
LEMMA MinOfTwo == ASSUME NEW x \in Int, NEW y \in Int
                  PROVE  Min({x, y}) = IF x <= y THEN x ELSE y
<1> DEFINE m == IF x <= y THEN x ELSE y
           P(c) == c \in {x, y} /\ \A z \in {x, y} : c <= z
<1>1. P(m) OBVIOUS
<1>2. \A c : P(c) => c = m OBVIOUS
<1>3. Min({x, y}) = CHOOSE c : P(c)
  BY Zenon DEF Min
<1>4. P(CHOOSE c : P(c))
  <2> HIDE DEF P
  <2> QED BY <1>1, Zenon
<1> QED BY <1>2, <1>3, <1>4

\* The first m elements of a sequence.
LEMMA Cut ==
  ASSUME NEW s \in Seq(Nat), NEW m \in 0..Len(s)
  PROVE  /\ SubSeq(s, 1, m) \in Seq(Nat)
         /\ Len(SubSeq(s, 1, m)) = m
         /\ \A k \in 1..m : SubSeq(s, 1, m)[k] = s[k]
<1>1. \A i \in 1..m : s[i] \in Nat
  OBVIOUS
<1>2. /\ SubSeq(s, 1, m) \in Seq(Nat)
      /\ Len(SubSeq(s, 1, m)) = IF 1 <= m THEN m - 1 + 1 ELSE 0
      /\ \A i \in 1 .. m - 1 + 1 : SubSeq(s, 1, m)[i] = s[1 + i - 1]
  <2>1. 1 \in Int /\ m \in Int OBVIOUS
  <2> QED BY <2>1, <1>1, SubSeqProperties
<1>3. m - 1 + 1 = m /\ (IF 1 <= m THEN m - 1 + 1 ELSE 0) = m /\ \A i \in 1..m : 1 + i - 1 = i
  OBVIOUS
<1> QED BY <1>2, <1>3

\* A prefix, element by element.
LEMMA PrefixIs ==
  ASSUME NEW s \in Seq(Nat), NEW t \in Seq(Nat), Len(s) <= Len(t), \A k \in 1..Len(s) : s[k] = t[k]
  PROVE  IsPrefix(s, t)
<1>1. SubSeq(s, 1, Len(s)) = SubSeq(t, 1, Len(s))
  OBVIOUS
<1> QED BY <1>1 DEF IsPrefix

\* The type invariant is kept.
LEMMA TypeNext == TypeOK /\ Next => TypeOK'
<1> SUFFICES ASSUME TypeOK, Next PROVE TypeOK'
  OBVIOUS
<1> USE SizesAssumption
<1>1. ASSUME NEW i \in Samples, Submits(i) PROVE TypeOK'
  <2>1. [st |-> "sent", v |-> version] \in Request BY RequestShapes DEF TypeOK
  <2>2. request' \in [Tasks -> Request] BY <1>1, <2>1 DEF Submits, TypeOK
  <2> QED BY <1>1, <2>2 DEF Submits, TypeOK
<1>3. ASSUME NEW t \in Tasks, NEW s \in Servers, Arrives(t, s) PROVE TypeOK'
  <2>0. <<>> \in Seq(Nat) /\ TRUE \in BOOLEAN /\ FALSE \in BOOLEAN OBVIOUS
  <2>1. request[t].v \in Nat /\ version \in Nat BY <1>3, RequestKinds DEF Arrives, TypeOK
  <2>2. [st |-> "answered", v |-> request[t].v, tokens |-> <<>>, cancelled |-> TRUE] \in Request
    BY <2>0, <2>1, RequestShapes, Zenon
  <2>3. [st |-> "running", v |-> request[t].v, w |-> version, server |-> s, tokens |-> <<>>,
         event |-> FALSE, over |-> FALSE] \in Request
    BY <2>0, <2>1, RequestShapes, Zenon
  <2>4. request' \in [Tasks -> Request]
    BY <1>3, <2>2, <2>3 DEF Arrives, Answer, TypeOK
  <2>5. entries' \subseteq Tasks \X Nat
    <3>1. entries' = entries \/ entries' = entries \cup {<<t, version>>} BY <1>3 DEF Arrives
    <3> QED BY <2>1, <3>1 DEF TypeOK
  <2> QED BY <1>3, <2>4, <2>5 DEF Arrives, TypeOK
<1>4. ASSUME NEW t \in Tasks, Yields(t) PROVE TypeOK'
  <2>1. request[t] \in Waiting /\ version \in Nat BY <1>4, RequestKinds DEF Yields, TypeOK
  <2>2. \A last \in BOOLEAN :
          [st |-> "running", v |-> request[t].v, w |-> request[t].w, server |-> request[t].server,
           tokens |-> Append(request[t].tokens, version),
           event |-> request[t].event, over |-> last] \in Request
    <3>1. Append(request[t].tokens, version) \in Seq(Nat) BY <2>1 DEF Waiting
    <3>2. /\ request[t].v \in Nat /\ request[t].w \in Nat
          /\ request[t].server \in Servers /\ request[t].event \in BOOLEAN
      BY <2>1 DEF Waiting
    <3> QED BY <3>1, <3>2, RequestShapes, Zenon
  <2>3. request' \in [Tasks -> Request] BY <1>4, <2>2 DEF Yields, TypeOK
  <2> QED BY <1>4, <2>3 DEF Yields, TypeOK
<1>5. ASSUME NEW t \in Tasks, Answers(t) PROVE TypeOK'
  <2>1. request[t] \in Waiting BY <1>5, RequestKinds DEF Answers
  <2>2. [st |-> "answered", v |-> request[t].v, tokens |-> request[t].tokens,
         cancelled |-> ~request[t].over] \in Request
    BY <2>1, RequestShapes DEF Replied, Waiting
  <2>3. request' \in [Tasks -> Request] BY <1>5, <2>2 DEF Answers, Answer, TypeOK
  <2>4. entries' \subseteq entries BY <1>5 DEF Answers, Kept
  <2> QED BY <1>5, <2>3, <2>4 DEF Answers, TypeOK
<1>6. ASSUME NEW t \in Tasks, Receives(t) PROVE TypeOK'
  <2>1. request[t] \in Replied BY <1>6, RequestKinds DEF Receives
  <2>2. request' \in [Tasks -> Request] BY <1>6, RequestShapes DEF Receives, TypeOK
  <2>3. CASE sample[t[1]] = "active"
    <3> DEFINE tokens == response[t] \o request[t].tokens
    <3>1. tokens \in Seq(Nat) BY <2>1 DEF Replied, TypeOK, Token
    <3>3. SubSeq(tokens, 1, Min({Len(tokens), ResponseLength})) \in Seq(Nat)
      <4> HIDE DEF tokens
      <4>1. Len(tokens) \in Nat /\ ResponseLength \in Nat BY <3>1, SizesAssumption
      <4>2. Min({Len(tokens), ResponseLength}) \in 0..Len(tokens)
        BY <4>1, MinOfTwo
      <4> QED BY <3>1, <4>2, Cut
    <3>4. Start(t) \in Nat BY <2>1 DEF Start, Replied, TypeOK
    <3>5. [start |-> Start(t), end |-> request[t].v] \in [start : Nat, end : Nat]
      BY <2>1, <3>4 DEF Replied
    <3>6. response' \in [Tasks -> Seq(Nat)] BY <1>6, <2>3, <3>3 DEF Receives, TypeOK, Token
    <3>7. bounds' \in [Tasks -> [start : Nat, end : Nat]] BY <1>6, <2>3, <3>5 DEF Receives, TypeOK
    <3>8. finished' \in [Tasks -> BOOLEAN] BY <1>6, <2>1, <2>3 DEF Receives, TypeOK, Replied
    <3> QED BY <1>6, <2>2, <3>6, <3>7, <3>8 DEF Receives, TypeOK, Token
  <2>4. CASE sample[t[1]] # "active"
    BY <1>6, <2>2, <2>4 DEF Receives, TypeOK
  <2> QED BY <2>3, <2>4
<1>7. ASSUME NEW t \in Tasks, Raises(t) PROVE TypeOK'
  BY <1>7, RequestShapes DEF Raises, TypeOK, Tasks
<1>8. ASSUME NEW i \in Samples, Gathers(i) PROVE TypeOK'
  BY <1>8 DEF Gathers, TypeOK
<1>9. ASSUME NEW s \in Servers, Cancels(s) PROVE TypeOK'
  <2>1. \A t \in Tasks : request[t].st = "running" => [request[t] EXCEPT !.event = TRUE] \in Request
    <3> SUFFICES ASSUME NEW t \in Tasks, request[t].st = "running"
                 PROVE [request[t] EXCEPT !.event = TRUE] \in Request
      OBVIOUS
    <3>1. request[t] \in Waiting BY RequestKinds
    <3>2. [request[t] EXCEPT !.event = TRUE] \in Waiting BY <3>1 DEF Waiting
    <3> QED BY <3>2 DEF Waiting, Request, Token
  <2>2. request' \in [Tasks -> Request] BY <1>9, <2>1 DEF Cancels, TypeOK
  <2> QED BY <1>9, <2>2 DEF Cancels, TypeOK
<1>10. ASSUME NEW s \in Servers, Resumes(s) PROVE TypeOK'
  BY <1>10 DEF Resumes, TypeOK
<1>11. CASE Pauses \/ MonitorAsks \/ Cancelled \/ Quiets \/ BeginsResume \/ Opens
  BY <1>11 DEF Pauses, MonitorAsks, Cancelled, Quiets, BeginsResume, Opens, TypeOK
<1>13. CASE Transfers
  <2>1. version' \in Nat BY <1>13 DEF Transfers, TypeOK
  <2> QED BY <1>13, <2>1 DEF Transfers, TypeOK
<1>14. CASE Rests
  BY <1>14 DEF Rests, vars, TypeOK
<1>12. CASE Unpauses
  <2>1. undone' \subseteq Nat BY <1>12 DEF Unpauses, TypeOK
  <2> QED BY <1>12, <2>1 DEF Unpauses, TypeOK
<1> QED
  BY <1>1, <1>3, <1>4, <1>5, <1>6, <1>7, <1>8, <1>9, <1>10, <1>11, <1>12, <1>13, <1>14 DEF Next

-----------------------------------------------------------------------------
(* The invariant. *)

Pausing == phase \in {"cancelling", "waiting"}

\* Servers are open while the rollouter is, and closed from the moment it waits for its
\* tasks until it resumes; in between it runs, and generates, only if the pause was undone.
Gate ==
    /\ phase = "open" => \A s \in Servers : ~paused[s]
    /\ phase \in {"waiting", "transfer", "updated"} => \A s \in Servers : paused[s]
    /\ Pausing => rollouter # "running"
    /\ phase \in {"transfer", "updated", "resuming"} =>
         /\ rollouter = "running" => LastUndone
         /\ \A i \in Samples : sample[i] = "active" => LastUndone

\* A request belongs to a trajectory that is not finished, under the version it was
\* submitted with, and is only cut short by a pause.
Asked(t) ==
    /\ request[t].st # "none" => sample[t[1]] \in {"active", "failed"} /\ ~finished[t]
    /\ request[t].st = "running" /\ paused[request[t].server] => request[t].event
    /\ sample[t[1]] = "active" =>
         /\ request[t].st = "none" /\ ~finished[t] => Pausing \/ LastUndone
         /\ request[t].st # "none" =>
              \/ request[t].v = version
              \/ phase # "transfer" /\ request[t].v + 1 = version /\ version \in undone
         /\ request[t].st = "running" => request[t].w = version /\ (request[t].event => Pausing)
         /\ request[t].st = "answered" /\ request[t].cancelled => Pausing \/ LastUndone
         /\ request[t].st = "answered" /\ ~Pausing =>
              /\ request[t].cancelled => request[t].tokens = <<>>
              /\ phase = "transfer" => request[t].cancelled

\* What is being generated has the present version, what came before an older one.
Fresh(t) ==
    /\ sample[t[1]] = "active" /\ request[t].st \in {"running", "answered"} =>
         \A k \in 1..Len(request[t].tokens) : request[t].tokens[k] = version
    /\ sample[t[1]] \in {"active", "pending"} /\ ~finished[t] /\ (request[t].st # "none" \/ ~Pausing) =>
         \A k \in 1..Len(response[t]) :
           response[t][k] < version \/ (phase = "transfer" /\ response[t][k] = version)

\* VersionsBracketed, and labels that the present version does not precede.
Labelled(t) ==
    /\ Len(response[t]) <= ResponseLength
    /\ \A k \in 1..Len(response[t]) :
         /\ bounds[t].start <= response[t][k] /\ response[t][k] <= version
         /\ \/ response[t][k] <= bounds[t].end
            \/ response[t][k] = bounds[t].end + 1 /\ response[t][k] \in undone
    /\ \A k, l \in 1..Len(response[t]) : k < l => response[t][k] <= response[t][l]
    /\ bounds[t] = NoBounds => response[t] = <<>>
    /\ bounds[t] = NoBounds \/ bounds[t].start <= bounds[t].end
    /\ bounds[t].end <= version
    /\ sample[t[1]] = "active" /\ request[t].st # "none" => bounds[t].end <= request[t].v

\* LeftoversEmpty, and the keys of answers with tokens are gone.
Forgotten(t) ==
    /\ sample[t[1]] = "active" /\ request[t].st = "answered" /\ request[t].tokens # <<>> =>
         <<t, version>> \notin entries
    /\ \A v \in Nat : <<t, v>> \in entries =>
         \/ request[t].st = "running" /\ request[t].w = v
         \/ sample[t[1]] = "failed"
         \/ \A k \in 1..Len(response[t]) : response[t][k] # v

PInv == TypeOK /\ Gate /\ \A t \in Tasks : Asked(t) /\ Fresh(t) /\ Labelled(t) /\ Forgotten(t)

\* Each part of the invariant is kept.
LEMMA GateNext == PInv /\ Next => Gate'
<1> SUFFICES ASSUME PInv, Next PROVE Gate'
  OBVIOUS
<1>1. TypeOK /\ Gate BY DEF PInv
<1>2. ASSUME NEW i \in Samples, Submits(i) PROVE Gate'
  BY <1>1, <1>2 DEF Submits, LockFree, TypeOK, Gate, Pausing, LastUndone
<1>3. ASSUME NEW t \in Tasks, Raises(t) PROVE Gate'
  BY <1>1, <1>3 DEF Raises, TypeOK, Gate, Pausing, LastUndone, Tasks
<1>4. ASSUME NEW i \in Samples, Gathers(i) PROVE Gate'
  BY <1>1, <1>4 DEF Gathers, TypeOK, Gate, Pausing, LastUndone
<1>5. ASSUME NEW s \in Servers, Cancels(s) PROVE Gate'
  BY <1>1, <1>5 DEF Cancels, TypeOK, Gate, Pausing, LastUndone
<1>6. ASSUME NEW s \in Servers, Resumes(s) PROVE Gate'
  BY <1>1, <1>6 DEF Resumes, TypeOK, Gate, Pausing, LastUndone
<1>7. CASE Pauses \/ MonitorAsks \/ Cancelled \/ Opens
  BY <1>1, <1>7 DEF Pauses, MonitorAsks, Cancelled, Opens, AllResumed, Gate, Pausing, LastUndone
<1>8. CASE Quiets
  BY <1>1, <1>8 DEF Quiets, AllReturned, Gate, Pausing
<1>9. CASE Unpauses \/ Transfers \/ BeginsResume
  BY <1>1, <1>9 DEF Unpauses, Transfers, BeginsResume, Gate, Pausing, LastUndone
<1>10. CASE UNCHANGED <<phase, rollouter, version, undone, paused, sample>>
  BY <1>1, <1>10 DEF Gate, Pausing, LastUndone
<1> QED
  BY <1>2, <1>3, <1>4, <1>5, <1>6, <1>7, <1>8, <1>9, <1>10
  DEF Next, Arrives, Yields, Answers, Receives, Rests, vars

LEMMA AskedNext == PInv /\ Next => \A t \in Tasks : Asked(t)'
<1> SUFFICES ASSUME PInv, Next, NEW u \in Tasks PROVE Asked(u)'
  OBVIOUS
<1>1. TypeOK /\ Gate /\ Asked(u) BY DEF PInv
<1>3. u[1] \in Samples /\ version \in Nat BY <1>1 DEF Tasks, TypeOK
\* A step that leaves the trajectory and the pause alone.
<1>4. ASSUME UNCHANGED <<phase, version, undone, paused>>, request'[u] = request[u],
             finished'[u] = finished[u], sample'[u[1]] = sample[u[1]]
      PROVE  Asked(u)'
  BY <1>1, <1>4 DEF Asked, Pausing, LastUndone
<1>5. ASSUME NEW i \in Samples, Submits(i) PROVE Asked(u)'
  <2>1. CASE u[1] = i /\ ~finished[u]
    <3>1. /\ request'[u] = [st |-> "sent", v |-> version] /\ sample'[u[1]] = "active"
          /\ UNCHANGED <<phase, version, undone, paused, finished>>
      BY <1>1, <1>3, <1>5, <2>1 DEF Submits, ToRun, TypeOK
    <3> QED BY <2>1, <3>1 DEF Asked
  <2>2. CASE u[1] = i /\ finished[u]
    <3>1. request'[u] = request[u] /\ UNCHANGED <<paused, finished>>
      BY <1>1, <1>3, <1>5, <2>2 DEF Submits, ToRun, TypeOK
    <3>2. request[u].st = "none" BY <1>1, <2>2 DEF Asked
    <3> QED BY <2>2, <3>1, <3>2 DEF Asked
  <2>3. CASE u[1] # i
    BY <1>1, <1>3, <1>4, <1>5, <2>3 DEF Submits, ToRun, TypeOK
  <2> QED BY <2>1, <2>2, <2>3
<1>6. ASSUME NEW t \in Tasks, NEW s \in Servers, Arrives(t, s) PROVE Asked(u)'
  <2>2. paused[s] /\ sample[u[1]] = "active" => Pausing \/ LastUndone
    BY <1>1, <1>3 DEF Gate, TypeOK, Pausing
  <2>3. CASE u # t
    BY <1>1, <1>4, <1>6, <2>3 DEF Arrives, Answer, TypeOK
  <2>4. CASE u = t /\ paused[s]
    <3>1. request'[t] = [st |-> "answered", v |-> request[t].v, tokens |-> <<>>, cancelled |-> TRUE]
          /\ UNCHANGED <<phase, version, undone, paused, sample, finished>>
      BY <1>1, <1>6, <2>4 DEF Arrives, Answer, TurnedAway, TypeOK
    <3> QED BY <1>1, <1>6, <2>2, <2>4, <3>1 DEF Arrives, Asked, Pausing, LastUndone
  <2>5. CASE u = t /\ ~paused[s]
    <3>1. request'[t] = [st |-> "running", v |-> request[t].v, w |-> version, server |-> s, tokens |-> <<>>,
                         event |-> FALSE, over |-> FALSE]
          /\ UNCHANGED <<phase, version, undone, paused, sample, finished>>
      BY <1>1, <1>6, <2>5 DEF Arrives, TurnedAway, TypeOK
    <3> QED BY <1>1, <1>6, <2>5, <3>1 DEF Arrives, Asked, Pausing, LastUndone
  <2> QED BY <2>3, <2>4, <2>5
<1>7. ASSUME NEW t \in Tasks, Yields(t) PROVE Asked(u)'
  <2>1. CASE u # t
    BY <1>1, <1>4, <1>7, <2>1 DEF Yields, TypeOK
  <2>2. CASE u = t
    <3>1. /\ request[t].st = "running" /\ request'[t].st = "running" /\ request'[t].v = request[t].v
          /\ request'[t].w = request[t].w /\ request'[t].server = request[t].server
          /\ request'[t].event = request[t].event
          /\ UNCHANGED <<phase, version, undone, paused, sample, finished>>
      BY <1>1, <1>7, <2>2 DEF Yields, TypeOK
    <3> QED BY <1>1, <2>2, <3>1 DEF Asked, Pausing, LastUndone
  <2> QED BY <2>1, <2>2
<1>8. ASSUME NEW t \in Tasks, Answers(t) PROVE Asked(u)'
  <2>1. CASE u # t
    BY <1>1, <1>4, <1>8, <2>1 DEF Answers, Answer, TypeOK
  <2>2. CASE u = t
    <3>1. /\ request[t].st = "running" /\ (request[t].over \/ request[t].event)
          /\ request'[t] = [st |-> "answered", v |-> request[t].v, tokens |-> request[t].tokens,
                             cancelled |-> ~request[t].over]
          /\ UNCHANGED <<phase, version, undone, paused, sample, finished>>
      BY <1>1, <1>8, <2>2 DEF Answers, Answer, TypeOK
    <3>2. request'[t].cancelled /\ sample[t[1]] = "active" => Pausing
      <4>1. request[t].over \in BOOLEAN /\ request[t].event \in BOOLEAN
        BY <1>1, <3>1, RequestKinds DEF Waiting
      <4>2. request'[t].cancelled = ~request[t].over BY <3>1
      <4>3. request'[t].cancelled => request[t].event BY <3>1, <4>1, <4>2
      <4> QED BY <1>1, <2>2, <3>1, <4>3 DEF Asked
    <3>3. phase = "transfer" => ~(sample[t[1]] = "active")
      <4> SUFFICES ASSUME phase = "transfer", sample[t[1]] = "active" PROVE FALSE
        OBVIOUS
      <4>1. request[t].server \in Servers BY <1>1, <3>1, RequestKinds DEF Waiting
      <4>2. request[t].event BY <1>1, <2>2, <3>1, <4>1 DEF Gate, Asked
      <4> QED BY <1>1, <2>2, <3>1, <4>2 DEF Asked, Pausing
    <3> QED BY <1>1, <2>2, <3>1, <3>2, <3>3 DEF Asked, Pausing, LastUndone
  <2> QED BY <2>1, <2>2
<1>9. ASSUME NEW t \in Tasks, Receives(t) PROVE Asked(u)'
  <2>1. CASE u # t
    BY <1>1, <1>4, <1>9, <2>1 DEF Receives, TypeOK
  <2>2. CASE u = t
    <3>1. request[t].st = "answered" /\ request'[t].st = "none"
          /\ UNCHANGED <<phase, version, undone, paused, sample>>
      BY <1>1, <1>9, <2>2 DEF Receives, TypeOK, NoRequest
    <3>2. sample[t[1]] = "active" /\ ~finished'[t] => request[t].cancelled
      BY <1>1, <1>9, <2>2 DEF Receives, TypeOK
    <3> QED BY <1>1, <2>2, <3>1, <3>2 DEF Asked, Pausing, LastUndone
  <2> QED BY <2>1, <2>2
<1>10. ASSUME NEW t \in Tasks, Raises(t) PROVE Asked(u)'
  <2>1. CASE u = t
    <3>1. /\ request'[t].st = "none" /\ request[t].st = "running"
          /\ sample'[t[1]] = IF sample[t[1]] = "active" THEN "failed" ELSE sample[t[1]]
      BY <1>1, <1>3, <1>10, <2>1 DEF Raises, TypeOK, NoRequest
    <3> QED BY <1>1, <2>1, <3>1 DEF Asked
  <2>2. CASE u # t
    <3>1. request'[u] = request[u] /\ UNCHANGED <<phase, version, undone, paused, finished>>
      BY <1>1, <1>10, <2>2 DEF Raises, TypeOK
    <3>2. sample'[u[1]] = sample[u[1]] \/ (sample[u[1]] = "active" /\ sample'[u[1]] = "failed")
      BY <1>1, <1>3, <1>10 DEF Raises, TypeOK
    <3> QED BY <1>1, <1>4, <3>1, <3>2 DEF Asked
  <2> QED BY <2>1, <2>2
<1>11. ASSUME NEW i \in Samples, Gathers(i) PROVE Asked(u)'
  <2>1. CASE u[1] = i
    <3>1. request[u].st = "none" /\ request'[u] = request[u] /\ sample'[u[1]] \in {"done", "pending"}
      BY <1>1, <1>3, <1>11, <2>1 DEF Gathers, TypeOK, NoRequest
    <3> QED BY <3>1 DEF Asked
  <2>2. CASE u[1] # i
    BY <1>1, <1>3, <1>4, <1>11, <2>2 DEF Gathers, TypeOK
  <2> QED BY <2>1, <2>2
<1>12. ASSUME NEW s \in Servers, Cancels(s) PROVE Asked(u)'
  <2>1. phase = "cancelling" /\ UNCHANGED <<phase, version, undone, sample, finished>>
    BY <1>12 DEF Cancels
  <2>2. CASE request[u].st = "running" /\ request[u].server = s
    <3>1. request[u] \in Waiting BY <1>1, <2>2, RequestKinds
    <3>2. /\ request'[u].st = "running" /\ request'[u].v = request[u].v
          /\ request'[u].w = request[u].w /\ request'[u].event
      BY <1>12, <2>2, <3>1 DEF Cancels, Waiting
    <3> QED BY <1>1, <2>1, <2>2, <3>2 DEF Asked, Pausing, LastUndone
  <2>3. CASE ~(request[u].st = "running" /\ request[u].server = s)
    <3>1. request'[u] = request[u] BY <1>12, <2>3 DEF Cancels
    <3>2. request[u].st = "running" => request[u].server \in Servers
      BY <1>1, RequestKinds DEF Waiting
    <3>3. request[u].st = "running" => paused'[request[u].server] = paused[request[u].server]
      BY <1>1, <1>12, <2>3, <3>2 DEF Cancels, TypeOK
    <3> QED BY <1>1, <2>1, <3>1, <3>3 DEF Asked, Pausing, LastUndone
  <2> QED BY <2>2, <2>3
<1>13. ASSUME NEW s \in Servers, Resumes(s) PROVE Asked(u)'
  <2>1. phase = "resuming" /\ UNCHANGED <<phase, version, undone, request, sample, finished>>
    BY <1>13 DEF Resumes
  <2>2. request[u].st = "running" /\ paused'[request[u].server] => paused[request[u].server]
    <3>1. request[u].st = "running" => request[u].server \in Servers
      BY <1>1, RequestKinds DEF Waiting
    <3> QED BY <1>1, <1>13, <3>1 DEF Resumes, TypeOK
  <2> QED BY <1>1, <2>1, <2>2 DEF Asked, Pausing, LastUndone
<1>14. CASE Pauses \/ MonitorAsks \/ Cancelled \/ BeginsResume \/ Opens \/ Rests
  <2>1. /\ UNCHANGED <<version, undone, paused, request, sample, finished>>
        /\ (phase # "transfer" /\ phase' # "transfer") \/ UNCHANGED phase
        /\ Pausing => Pausing'
    BY <1>14 DEF Pauses, MonitorAsks, Cancelled, BeginsResume, Opens, Rests, vars, Pausing
  <2> QED BY <1>1, <2>1 DEF Asked, LastUndone
<1>15. CASE Quiets
  <2>1. sample[u[1]] # "active" /\ UNCHANGED <<paused, request, sample, finished>>
    BY <1>3, <1>15 DEF Quiets, AllReturned
  <2> QED BY <1>1, <2>1 DEF Asked
<1>16. CASE Unpauses
  BY <1>1, <1>16 DEF Unpauses, Asked, Pausing, LastUndone
<1>17. CASE Transfers
  <2>1. /\ phase = "transfer" /\ phase' = "updated" /\ version' = version + 1
        /\ UNCHANGED <<undone, paused, request, sample, finished>>
    BY <1>17 DEF Transfers
  <2>2. CASE sample[u[1]] # "active"
    BY <1>1, <2>1, <2>2 DEF Asked
  <2>3. CASE sample[u[1]] = "active"
    <3>1. LastUndone /\ version + 1 \in undone BY <1>1, <1>3, <2>1, <2>3 DEF Gate, LastUndone
    <3>2. LastUndone' BY <2>1, <3>1 DEF LastUndone
    <3>3. request[u].st # "running"
      <4> SUFFICES ASSUME request[u].st = "running" PROVE FALSE
        OBVIOUS
      <4>1. request[u].server \in Servers BY <1>1, RequestKinds DEF Waiting
      <4>2. request[u].event BY <1>1, <2>1, <4>1 DEF Gate, Asked
      <4> QED BY <1>1, <2>1, <2>3, <4>2 DEF Asked, Pausing
    <3>4. request[u].st # "none" => request[u].v = version BY <1>1, <2>1, <2>3 DEF Asked
    <3>5. request[u].st = "answered" => request[u].cancelled /\ request[u].tokens = <<>>
      BY <1>1, <2>1, <2>3 DEF Asked, Pausing
    <3> QED BY <1>1, <2>1, <2>3, <3>1, <3>2, <3>3, <3>4, <3>5 DEF Asked
  <2> QED BY <2>2, <2>3
<1> QED
  BY <1>5, <1>6, <1>7, <1>8, <1>9, <1>10, <1>11, <1>12, <1>13, <1>14, <1>15, <1>16, <1>17 DEF Next

\* What Receives adds to a response.
LEMMA Joined ==
  ASSUME PInv, NEW t \in Tasks, Receives(t), sample[t[1]] = "active"
  PROVE  /\ response'[t] \in Seq(Nat) /\ request[t].tokens \in Seq(Nat)
         /\ \A u \in Tasks : u # t => response'[u] = response[u]
         /\ Len(response'[t]) <= ResponseLength
         /\ Len(response[t]) <= Len(response'[t])
         /\ \A k \in 1..Len(response'[t]) :
              IF k <= Len(response[t]) THEN response'[t][k] = response[t][k]
              ELSE response'[t][k] = version /\ request[t].tokens # <<>>
<1> DEFINE a == response[t]
           b == request[t].tokens
           c == response'[t]
<1>1. TypeOK BY DEF PInv
<1>2. a \in Seq(Nat) BY <1>1 DEF TypeOK, Token
<1>3. b \in Seq(Nat) BY <1>1, RequestKinds DEF Receives, Replied
<1>4. c = SubSeq(a \o b, 1, Min({Len(a \o b), ResponseLength}))
  BY <1>1 DEF Receives, TypeOK
<1>5. Len(a) <= ResponseLength BY DEF PInv, Labelled
<1>6. \A k \in 1..Len(b) : b[k] = version BY DEF PInv, Fresh, Receives
<1>7. \A u \in Tasks : u # t => response'[u] = response[u] BY <1>1 DEF Receives, TypeOK
<1>8. version \in Nat BY <1>1 DEF TypeOK
<1> HIDE DEF a, b, c
<1>9. /\ a \o b \in Seq(Nat) /\ Len(a \o b) = Len(a) + Len(b)
      /\ \A k \in 1..Len(a) + Len(b) : (a \o b)[k] = IF k <= Len(a) THEN a[k] ELSE b[k - Len(a)]
  BY <1>2, <1>3
<1>10. ResponseLength \in Nat BY SizesAssumption
<1>11. /\ c \in Seq(Nat)
       /\ Len(c) = IF Len(a \o b) <= ResponseLength THEN Len(a \o b) ELSE ResponseLength
       /\ \A k \in 1..Len(c) : c[k] = (a \o b)[k]
  <2> DEFINE s == a \o b
             m == IF Len(s) <= ResponseLength THEN Len(s) ELSE ResponseLength
  <2>1. s \in Seq(Nat) /\ Len(s) \in Nat BY <1>9
  <2>2. m = Min({Len(s), ResponseLength})
    BY <1>10, <2>1, MinOfTwo
  <2>3. m \in 0..Len(s)
    BY <1>10, <2>1
  <2>4. c = SubSeq(s, 1, m)
    BY <1>4, <2>2
  <2> HIDE DEF s, m
  <2>5. c \in Seq(Nat) /\ Len(c) = m /\ \A k \in 1..m : c[k] = s[k]
    BY <2>1, <2>3, <2>4, Cut
  <2> QED BY <2>5 DEF s, m
<1>12. Len(a) \in Nat /\ Len(b) \in Nat /\ Len(c) \in Nat BY <1>2, <1>3, <1>11
<1>13. Len(c) <= ResponseLength /\ Len(a) <= Len(c) /\ Len(c) <= Len(a) + Len(b)
  BY <1>5, <1>9, <1>10, <1>11, <1>12
<1>14. \A k \in 1..Len(c) :
         IF k <= Len(a) THEN c[k] = a[k] ELSE c[k] = version /\ b # <<>>
  <2> SUFFICES ASSUME NEW k \in 1..Len(c)
               PROVE IF k <= Len(a) THEN c[k] = a[k] ELSE c[k] = version /\ b # <<>>
    OBVIOUS
  <2>1. k \in 1..Len(a) + Len(b) BY <1>12, <1>13
  <2>2. c[k] = IF k <= Len(a) THEN a[k] ELSE b[k - Len(a)] BY <1>9, <1>11, <2>1
  <2>3. CASE k <= Len(a) BY <2>2, <2>3
  <2>4. CASE ~(k <= Len(a))
    <3>1. k - Len(a) \in 1..Len(b) BY <1>12, <2>1, <2>4
    <3>2. Len(b) # 0 BY <1>12, <3>1
    <3>3. b # <<>> BY <3>2
    <3> QED BY <1>6, <2>2, <2>4, <3>1, <3>3
  <2> QED BY <2>3, <2>4
<1> USE DEF a, b, c
<1> QED BY <1>3, <1>7, <1>11, <1>13, <1>14

LEMMA FreshNext == PInv /\ Next => \A t \in Tasks : Fresh(t)'
<1> SUFFICES ASSUME PInv, Next, NEW u \in Tasks PROVE Fresh(u)'
  OBVIOUS
<1>1. TypeOK /\ Gate /\ Asked(u) /\ Fresh(u) /\ Labelled(u) BY DEF PInv
<1>2. u[1] \in Samples /\ version \in Nat /\ response[u] \in Seq(Nat) BY <1>1 DEF Tasks, TypeOK, Token
<1>3. \A k \in 1..Len(response[u]) : response[u][k] \in Nat BY <1>2
\* A step that leaves the trajectory alone.
<1>4. ASSUME UNCHANGED <<phase, version>>, request'[u] = request[u], response'[u] = response[u],
             finished'[u] = finished[u], sample'[u[1]] = sample[u[1]]
      PROVE  Fresh(u)'
  BY <1>1, <1>4 DEF Fresh, Pausing
<1>5. ASSUME NEW i \in Samples, Submits(i) PROVE Fresh(u)'
  <2>1. CASE u[1] = i
    <3>1. /\ sample[u[1]] = "pending" /\ ~Pausing /\ request'[u].st \in {"none", "sent"}
          /\ request[u].st = "none" /\ UNCHANGED <<phase, version, response, finished>>
      BY <1>1, <1>2, <1>5, <2>1 DEF Submits, LockFree, ToRun, TypeOK, Asked, Pausing
    <3> QED BY <1>1, <3>1 DEF Fresh
  <2>2. CASE u[1] # i
    BY <1>1, <1>2, <1>4, <1>5, <2>2 DEF Submits, ToRun, TypeOK
  <2> QED BY <2>1, <2>2
<1>6. ASSUME NEW t \in Tasks, NEW s \in Servers, Arrives(t, s) PROVE Fresh(u)'
  <2>1. CASE u # t
    BY <1>1, <1>4, <1>6, <2>1 DEF Arrives, Answer, TypeOK
  <2>2. CASE u = t
    <3>1. /\ request'[t].tokens = <<>> /\ request[t].st = "sent"
          /\ UNCHANGED <<phase, version, sample, finished, response>>
      BY <1>1, <1>6, <2>2 DEF Arrives, Answer, TypeOK
    <3> QED BY <1>1, <2>2, <3>1 DEF Fresh, Pausing
  <2> QED BY <2>1, <2>2
<1>7. ASSUME NEW t \in Tasks, Yields(t) PROVE Fresh(u)'
  <2>1. CASE u # t
    BY <1>1, <1>4, <1>7, <2>1 DEF Yields, TypeOK
  <2>2. CASE u = t
    <3>1. request[t].tokens \in Seq(Nat) BY <1>1, <1>7, RequestKinds DEF Yields, Waiting
    <3>2. /\ request'[t].st = "running" /\ request[t].st = "running"
          /\ request'[t].tokens = Append(request[t].tokens, version)
          /\ UNCHANGED <<phase, version, sample, finished, response>>
      BY <1>1, <1>7 DEF Yields, TypeOK
    <3>3. ASSUME sample[t[1]] = "active", NEW k \in 1..Len(request'[t].tokens)
          PROVE request'[t].tokens[k] = version
      <4>1. \A j \in 1..Len(request[t].tokens) : request[t].tokens[j] = version
        BY <1>1, <2>2, <3>2, <3>3 DEF Fresh
      <4> QED BY <1>2, <3>1, <3>2, <3>3, <4>1
    <3> QED BY <1>1, <2>2, <3>2, <3>3 DEF Fresh, Pausing
  <2> QED BY <2>1, <2>2
<1>8. ASSUME NEW t \in Tasks, Answers(t) PROVE Fresh(u)'
  <2>1. CASE u # t
    BY <1>1, <1>4, <1>8, <2>1 DEF Answers, Answer, TypeOK
  <2>2. CASE u = t
    <3>1. /\ request[t].st = "running" /\ request'[t].st = "answered"
          /\ request'[t].tokens = request[t].tokens
          /\ UNCHANGED <<phase, version, sample, finished, response>>
      BY <1>1, <1>8, <2>2 DEF Answers, Answer, TypeOK
    <3> QED BY <1>1, <2>2, <3>1 DEF Fresh, Pausing
  <2> QED BY <2>1, <2>2
<1>9. ASSUME NEW t \in Tasks, Receives(t) PROVE Fresh(u)'
  <2>1. CASE u # t
    BY <1>1, <1>4, <1>9, <2>1 DEF Receives, TypeOK
  <2>2. CASE u = t
    <3>1. /\ request[t].st = "answered" /\ request'[t].st = "none"
          /\ UNCHANGED <<phase, version, sample>>
      BY <1>1, <1>9, <2>2 DEF Receives, TypeOK, NoRequest
    <3>2. CASE sample[t[1]] # "active"
      <4>1. sample[t[1]] = "failed" BY <1>1, <2>2, <3>1, <3>2 DEF Asked
      <4> QED BY <2>2, <3>1, <4>1 DEF Fresh
    <3>3. CASE sample[t[1]] = "active" /\ (Pausing \/ finished'[t])
      BY <2>2, <3>1, <3>3 DEF Fresh, Pausing
    <3>4. CASE sample[t[1]] = "active" /\ ~Pausing /\ ~finished'[t]
      <4>1. request[t].cancelled BY <1>1, <1>9, <2>2, <3>4 DEF Receives, TypeOK
      <4>2. request[t].tokens = <<>> BY <1>1, <2>2, <3>1, <3>4, <4>1 DEF Asked
      <4>3. ~finished[t] BY <1>1, <2>2, <3>1 DEF Asked
      <4>4. ASSUME NEW k \in 1..Len(response'[t])
            PROVE  response'[t][k] < version \/ (phase = "transfer" /\ response'[t][k] = version)
        <5>1. k <= Len(response[t]) /\ response'[t][k] = response[t][k]
          BY <1>9, <2>2, <3>4, <4>2, Joined
        <5>2. k \in 1..Len(response[t]) BY <1>2, <2>2, <4>4, <5>1
        <5> QED BY <1>1, <2>2, <3>1, <3>4, <4>3, <5>1, <5>2 DEF Fresh
      <4> QED BY <2>2, <3>1, <4>4 DEF Fresh
    <3> QED BY <3>2, <3>3, <3>4
  <2> QED BY <2>1, <2>2
<1>10. ASSUME NEW t \in Tasks, Raises(t) PROVE Fresh(u)'
  <2>1. sample'[u[1]] = sample[u[1]] \/ sample'[u[1]] = "failed"
    BY <1>1, <1>2, <1>10 DEF Raises, TypeOK
  <2>2. CASE sample'[u[1]] = "failed"
    BY <2>2 DEF Fresh
  <2>3. CASE u = t /\ sample'[u[1]] = sample[u[1]]
    <3>1. sample'[u[1]] = "failed" BY <1>1, <1>2, <1>10, <2>3 DEF Raises, TypeOK, Asked
    <3> QED BY <2>2, <3>1
  <2>4. CASE u # t /\ sample'[u[1]] = sample[u[1]]
    BY <1>1, <1>4, <1>10, <2>4 DEF Raises, TypeOK
  <2> QED BY <2>1, <2>2, <2>3, <2>4
<1>11. ASSUME NEW i \in Samples, Gathers(i) PROVE Fresh(u)'
  <2>1. CASE u[1] = i
    <3>1. /\ request[u].st = "none" /\ request'[u] = request[u] /\ sample[u[1]] = "active"
          /\ sample'[u[1]] \in {"done", "pending"} /\ UNCHANGED <<phase, version, response, finished>>
      BY <1>1, <1>2, <1>11, <2>1 DEF Gathers, TypeOK, NoRequest
    <3> QED BY <1>1, <3>1 DEF Fresh, Pausing
  <2>2. CASE u[1] # i
    BY <1>1, <1>2, <1>4, <1>11, <2>2 DEF Gathers, TypeOK
  <2> QED BY <2>1, <2>2
<1>12. ASSUME NEW s \in Servers, Cancels(s) PROVE Fresh(u)'
  <2>1. UNCHANGED <<phase, version, sample, finished, response>> BY <1>12 DEF Cancels
  <2>2. request'[u].st = request[u].st /\ request'[u].tokens = request[u].tokens
    BY <1>1, <1>12, RequestKinds DEF Cancels, TypeOK, Waiting
  <2> QED BY <1>1, <2>1, <2>2 DEF Fresh, Pausing
<1>13. ASSUME NEW s \in Servers, Resumes(s) PROVE Fresh(u)'
  BY <1>4, <1>13 DEF Resumes
<1>14. CASE Transfers
  <2>1. /\ phase = "transfer" /\ version' = version + 1 /\ phase' = "updated"
        /\ UNCHANGED <<request, sample, finished, response>>
    BY <1>14 DEF Transfers
  <2>2. sample[u[1]] = "active" => request[u].st # "running"
    <3> SUFFICES ASSUME sample[u[1]] = "active", request[u].st = "running" PROVE FALSE
      OBVIOUS
    <3>1. request[u].server \in Servers BY <1>1, RequestKinds DEF Waiting
    <3>2. request[u].event BY <1>1, <2>1, <3>1 DEF Gate, Asked
    <3> QED BY <1>1, <2>1, <3>2 DEF Asked, Pausing
  <2>3. sample[u[1]] = "active" /\ request[u].st = "answered" => request[u].tokens = <<>>
    BY <1>1, <2>1 DEF Asked, Pausing
  <2>4. sample[u[1]] \in {"active", "pending"} /\ ~finished[u] =>
          \A k \in 1..Len(response[u]) : response[u][k] < version \/ response[u][k] = version
    BY <1>1, <2>1 DEF Fresh, Pausing
  <2>5. sample[u[1]] \in {"active", "pending"} /\ ~finished[u] =>
          \A k \in 1..Len(response[u]) : response[u][k] < version'
    BY <1>2, <1>3, <2>1, <2>4
  <2> QED BY <2>1, <2>2, <2>3, <2>5 DEF Fresh
<1>15. CASE Quiets
  <2>1. /\ phase' = "transfer" /\ sample[u[1]] # "active" /\ UNCHANGED <<version, request, sample, finished, response>>
    BY <1>2, <1>15 DEF Quiets, AllReturned
  <2>2. \A k \in 1..Len(response[u]) : response[u][k] <= version
    BY <1>1 DEF Labelled
  <2> QED BY <1>2, <1>3, <2>1, <2>2 DEF Fresh
<1>16. CASE Pauses \/ MonitorAsks \/ Cancelled \/ Unpauses \/ BeginsResume \/ Opens \/ Rests
  <2>1. /\ UNCHANGED <<version, request, sample, finished, response>>
        /\ Pausing => Pausing'
        /\ phase = "transfer" => phase' = "transfer"
    BY <1>16 DEF Pauses, MonitorAsks, Cancelled, Unpauses, BeginsResume, Opens, Rests, vars, Pausing
  <2> QED BY <1>1, <2>1 DEF Fresh
<1> QED
  BY <1>5, <1>6, <1>7, <1>8, <1>9, <1>10, <1>11, <1>12, <1>13, <1>14, <1>15, <1>16 DEF Next

LEMMA LabelledNext == PInv /\ Next => \A t \in Tasks : Labelled(t)'
<1> SUFFICES ASSUME PInv, Next, NEW u \in Tasks PROVE Labelled(u)'
  OBVIOUS
<1>1. TypeOK /\ Asked(u) /\ Fresh(u) /\ Labelled(u) BY DEF PInv
<1>2. u[1] \in Samples /\ version \in Nat /\ response[u] \in Seq(Nat) BY <1>1 DEF Tasks, TypeOK, Token
<1>3. bounds[u] \in [start : Nat, end : Nat] /\ \A k \in 1..Len(response[u]) : response[u][k] \in Nat
  BY <1>1, <1>2 DEF TypeOK
\* A step that leaves the response and its labels alone, and asks for no more.
<1>4. ASSUME response'[u] = response[u], bounds'[u] = bounds[u], undone \subseteq undone',
             version' = version \/ version' = version + 1,
             sample'[u[1]] = "active" /\ request'[u].st # "none" =>
               \/ request'[u].v = version
               \/ sample[u[1]] = "active" /\ request[u].st # "none" /\ request'[u].v = request[u].v
      PROVE  Labelled(u)'
  <2>1. version' \in Nat /\ version <= version' BY <1>2, <1>4
  <2>2. \A k \in 1..Len(response[u]) : response[u][k] <= version'
    <3>1. \A k \in 1..Len(response[u]) : response[u][k] <= version BY <1>1 DEF Labelled
    <3> QED BY <1>2, <1>3, <2>1, <3>1
  <2>3. bounds[u].end <= version /\ bounds[u].end <= version'
    BY <1>1, <1>2, <1>3, <2>1 DEF Labelled
  <2>4. sample'[u[1]] = "active" /\ request'[u].st # "none" => bounds[u].end <= request'[u].v
    BY <1>1, <1>4, <2>3 DEF Labelled
  <2> QED BY <1>1, <1>4, <2>2, <2>3, <2>4 DEF Labelled
<1>5. ASSUME NEW i \in Samples, Submits(i) PROVE Labelled(u)'
  <2>1. UNCHANGED <<response, bounds, undone, version>> BY <1>5 DEF Submits
  <2>2. CASE u[1] = i
    <3>1. request[u].st = "none" BY <1>1, <1>5, <2>2 DEF Submits, Asked
    <3>2. request'[u] = [st |-> "sent", v |-> version] \/ request'[u] = request[u]
      BY <1>1, <1>5 DEF Submits, TypeOK
    <3> QED BY <1>4, <2>1, <3>1, <3>2
  <2>3. CASE u[1] # i
    <3>1. request'[u] = request[u] /\ sample'[u[1]] = sample[u[1]]
      BY <1>1, <1>2, <1>5, <2>3 DEF Submits, ToRun, TypeOK
    <3> QED BY <1>4, <2>1, <3>1
  <2> QED BY <2>2, <2>3
<1>6. ASSUME NEW t \in Tasks, NEW s \in Servers, Arrives(t, s) PROVE Labelled(u)'
  <2>1. UNCHANGED <<response, bounds, undone, version, sample>> BY <1>6 DEF Arrives
  <2>2. request[t].st = "sent" /\ request'[t].v = request[t].v /\ \A q \in Tasks : q # t => request'[q] = request[q]
    BY <1>1, <1>6 DEF Arrives, Answer, TypeOK
  <2> QED BY <1>4, <2>1, <2>2
<1>7. ASSUME NEW t \in Tasks, Yields(t) PROVE Labelled(u)'
  <2>1. UNCHANGED <<response, bounds, undone, version, sample>> BY <1>7 DEF Yields
  <2>2. request[t].st = "running" /\ request'[t].v = request[t].v /\ \A q \in Tasks : q # t => request'[q] = request[q]
    BY <1>1, <1>7 DEF Yields, TypeOK
  <2> QED BY <1>4, <2>1, <2>2
<1>8. ASSUME NEW t \in Tasks, Answers(t) PROVE Labelled(u)'
  <2>1. UNCHANGED <<response, bounds, undone, version, sample>> BY <1>8 DEF Answers
  <2>2. request[t].st = "running" /\ request'[t].v = request[t].v /\ \A q \in Tasks : q # t => request'[q] = request[q]
    BY <1>1, <1>8 DEF Answers, Answer, TypeOK
  <2> QED BY <1>4, <2>1, <2>2
<1>9. ASSUME NEW t \in Tasks, Receives(t) PROVE Labelled(u)'
  <2>1. UNCHANGED <<undone, version, sample>> BY <1>9 DEF Receives
  <2>2. CASE u # t
    <3>1. response'[u] = response[u] /\ bounds'[u] = bounds[u] /\ request'[u] = request[u]
      BY <1>1, <1>9, <2>2 DEF Receives, TypeOK
    <3> QED BY <1>4, <2>1, <3>1
  <2>3. CASE u = t /\ sample[t[1]] # "active"
    <3>1. response'[u] = response[u] /\ bounds'[u] = bounds[u]
      BY <1>1, <1>9, <2>3 DEF Receives, TypeOK
    <3> QED BY <1>4, <2>1, <2>3, <3>1
  <2>4. CASE u = t /\ sample[t[1]] = "active"
    <3> DEFINE v == request[t].v
    <3>1. request[t].st = "answered" /\ request'[t].st = "none"
      BY <1>1, <1>9, <2>4 DEF Receives, TypeOK, NoRequest
    <3>2. v \in Nat BY <1>1, <3>1, RequestKinds DEF Replied
    <3>3. v = version \/ (phase # "transfer" /\ v + 1 = version /\ version \in undone)
      BY <1>1, <2>4, <3>1 DEF Asked
    <3>4. bounds'[t] = [start |-> Start(t), end |-> v]
      BY <1>1, <1>9, <2>4 DEF Receives, TypeOK
    <3>5. bounds[t].end <= v BY <1>1, <2>4, <3>1 DEF Labelled
    <3>6. Start(t) \in Nat /\ Start(t) <= v
      <4>1. CASE bounds[t] = NoBounds
        BY <3>2, <4>1 DEF Start, HasOutput
      <4>2. CASE bounds[t] # NoBounds
        <5>1. Start(t) = bounds[t].start BY <4>2 DEF Start, HasOutput
        <5>2. bounds[t].start <= bounds[t].end BY <1>1, <2>4, <4>2 DEF Labelled
        <5> QED BY <1>3, <2>4, <3>2, <3>5, <5>1, <5>2
      <4> QED BY <4>1, <4>2
    <3>7. v <= version BY <1>2, <3>2, <3>3
    \* What was there before is old enough for the new label.
    <3>8. ASSUME NEW k \in 1..Len(response[t]) PROVE Start(t) <= response[t][k] /\ response[t][k] <= v
      <4>1. bounds[t] # NoBounds
        <5> SUFFICES ASSUME bounds[t] = NoBounds PROVE FALSE
          OBVIOUS
        <5>1. response[t] = <<>> BY <1>1, <2>4 DEF Labelled
        <5> QED BY <3>8, <5>1
      <4>2. Start(t) = bounds[t].start BY <4>1 DEF Start, HasOutput
      <4>3. bounds[t].start <= response[t][k] BY <1>1, <2>4, <3>8 DEF Labelled
      <4>4. response[t][k] < version \/ (phase = "transfer" /\ response[t][k] = version)
        <5>1. ~finished[t] BY <1>1, <2>4, <3>1 DEF Asked
        <5> QED BY <1>1, <2>4, <3>1, <3>8, <5>1 DEF Fresh
      <4>5. response[t][k] \in Nat BY <1>3, <2>4, <3>8
      <4> QED BY <1>2, <3>2, <3>3, <4>2, <4>3, <4>4, <4>5
    <3>9. \A j \in 1..Len(response'[t]) :
            response'[t][j] = IF j <= Len(response[t]) THEN response[t][j] ELSE version
      BY <1>9, <2>4, Joined
    <3>10. ASSUME NEW k \in 1..Len(response'[t])
           PROVE  /\ Start(t) <= response'[t][k] /\ response'[t][k] <= version
                  /\ \/ response'[t][k] <= v
                     \/ response'[t][k] = v + 1 /\ response'[t][k] \in undone
      <4>1. CASE k <= Len(response[t])
        <5>1. k \in 1..Len(response[t]) BY <1>2, <2>4, <3>10, <4>1
        <5>2. response'[t][k] = response[t][k] /\ response[t][k] \in Nat BY <1>3, <2>4, <3>9, <3>10, <4>1, <5>1
        <5> QED BY <1>2, <3>2, <3>7, <3>8, <5>1, <5>2
      <4>2. CASE ~(k <= Len(response[t]))
        <5>1. response'[t][k] = version BY <3>9, <3>10, <4>2
        <5> QED BY <1>2, <3>2, <3>3, <3>6, <3>7, <5>1
      <4> QED BY <4>1, <4>2
    <3>11. ASSUME NEW k \in 1..Len(response'[t]), NEW l \in 1..Len(response'[t]), k < l
           PROVE  response'[t][k] <= response'[t][l]
      <4>1. CASE l <= Len(response[t])
        <5>1. k \in 1..Len(response[t]) /\ l \in 1..Len(response[t])
          BY <1>2, <2>4, <3>11, <4>1
        <5>2. response[t][k] <= response[t][l]
          BY <1>1, <2>4, <3>11, <5>1 DEF Labelled
        <5>3. k <= Len(response[t]) BY <5>1
        <5> QED BY <3>9, <4>1, <5>2, <5>3
      <4>2. CASE ~(l <= Len(response[t]))
        <5>1. response'[t][l] = version BY <3>9, <4>2
        <5> QED BY <3>10, <5>1
      <4> QED BY <4>1, <4>2
    <3>12. Len(response'[t]) <= ResponseLength BY <1>9, <2>4, Joined
    <3>13. bounds'[t] = NoBounds => FALSE
      BY <3>2, <3>4, <3>6 DEF NoBounds
    <3> HIDE DEF v
    <3> QED
      BY <2>1, <2>4, <3>1, <3>4, <3>6, <3>7, <3>10, <3>11, <3>12, <3>13 DEF Labelled
  <2> QED BY <2>2, <2>3, <2>4
<1>10. ASSUME NEW t \in Tasks, Raises(t) PROVE Labelled(u)'
  <2>1. UNCHANGED <<response, bounds, undone, version>> BY <1>10 DEF Raises
  <2>2. sample'[u[1]] = "active" => sample[u[1]] = "active" BY <1>1, <1>2, <1>10 DEF Raises, TypeOK
  <2>3. request'[u] = request[u] \/ request'[u].st = "none" BY <1>1, <1>10 DEF Raises, TypeOK, NoRequest
  <2> QED BY <1>4, <2>1, <2>2, <2>3
<1>11. ASSUME NEW i \in Samples, Gathers(i) PROVE Labelled(u)'
  <2>1. UNCHANGED <<response, bounds, undone, version, request>> BY <1>11 DEF Gathers
  <2>2. sample'[u[1]] = "active" => sample[u[1]] = "active" BY <1>1, <1>2, <1>11 DEF Gathers, TypeOK
  <2> QED BY <1>4, <2>1, <2>2
<1>12. ASSUME NEW s \in Servers, Cancels(s) PROVE Labelled(u)'
  <2>1. UNCHANGED <<response, bounds, undone, version, sample>> BY <1>12 DEF Cancels
  <2>2. request'[u].st = request[u].st /\ request'[u].v = request[u].v
    BY <1>1, <1>12, RequestKinds DEF Cancels, TypeOK, Waiting
  <2> QED BY <1>4, <2>1, <2>2
<1>13. CASE Transfers \/ Unpauses
  BY <1>4, <1>13 DEF Transfers, Unpauses
<1>14. CASE UNCHANGED <<response, bounds, undone, version, sample, request>>
  BY <1>4, <1>14
<1> QED
  BY <1>5, <1>6, <1>7, <1>8, <1>9, <1>10, <1>11, <1>12, <1>13, <1>14
  DEF Next, Resumes, Pauses, MonitorAsks, Cancelled, Quiets, BeginsResume, Opens, Rests, vars

LEMMA ForgottenNext == PInv /\ Next => \A t \in Tasks : Forgotten(t)'
<1> SUFFICES ASSUME PInv, Next, NEW u \in Tasks PROVE Forgotten(u)'
  OBVIOUS
<1>1. TypeOK /\ Gate /\ Asked(u) /\ Fresh(u) /\ Forgotten(u) BY DEF PInv
<1>3. u[1] \in Samples BY DEF Tasks
<1>4. ASSUME NEW i \in Samples, Submits(i) PROVE Forgotten(u)'
  <2>1. UNCHANGED <<version, response, entries>>
    BY <1>4 DEF Submits
  <2>2. CASE u[1] = i
    <3>1. request[u].st = "none" /\ sample[u[1]] = "pending"
      BY <1>1, <1>4, <2>2 DEF Submits, Asked
    <3>2. request'[u].st \in {"sent", "none"}
      BY <1>1, <1>4, <3>1 DEF Submits, TypeOK
    <3> QED BY <1>1, <2>1, <3>1, <3>2 DEF Forgotten
  <2>3. CASE u[1] # i
    <3>1. request'[u] = request[u] /\ sample'[u[1]] = sample[u[1]]
      BY <1>1, <1>3, <1>4, <2>3 DEF Submits, ToRun, TypeOK
    <3> QED BY <1>1, <2>1, <3>1 DEF Forgotten
  <2> QED BY <2>2, <2>3
<1>6. ASSUME NEW t \in Tasks, NEW s \in Servers, Arrives(t, s) PROVE Forgotten(u)'
  <2>1. CASE u # t
    <3>1. request'[u] = request[u] /\ UNCHANGED <<version, sample, response>>
      BY <1>1, <1>6, <2>1 DEF Arrives, Answer, TypeOK
    <3>2. entries' = entries \/ entries' = entries \cup {<<t, version>>} BY <1>6 DEF Arrives
    <3>3. \A v : <<u, v>> \in entries' <=> <<u, v>> \in entries BY <2>1, <3>2
    <3> QED BY <1>1, <3>1, <3>3 DEF Forgotten
  <2>2. CASE u = t /\ TurnedAway(s)
    <3>1. request'[t].tokens = <<>> /\ UNCHANGED <<sample, response, entries>>
      BY <1>1, <1>6, <2>2 DEF Arrives, Answer, TypeOK
    <3> QED BY <1>1, <1>6, <2>2, <3>1 DEF Arrives, Forgotten
  <2>3. CASE u = t /\ ~TurnedAway(s)
    <3>1. request'[t].st = "running" /\ request'[t].w = version /\ UNCHANGED <<sample, response>>
      BY <1>1, <1>6, <2>3 DEF Arrives, TypeOK
    <3>2. \A v : <<t, v>> \in entries' => <<t, v>> \in entries \/ v = version
      BY <1>6, <2>3 DEF Arrives
    <3> QED BY <1>1, <1>6, <2>3, <3>1, <3>2 DEF Arrives, Forgotten
  <2> QED BY <2>1, <2>2, <2>3
<1>7. ASSUME NEW t \in Tasks, Yields(t) PROVE Forgotten(u)'
  <2>1. /\ request'[u].st = request[u].st
        /\ request[u].st = "running" => request'[u].w = request[u].w
        /\ UNCHANGED <<version, sample, response, entries>>
    BY <1>1, <1>7 DEF Yields, TypeOK
  <2>2. request[u].st = "answered" => request'[u] = request[u]
    BY <1>1, <1>7 DEF Yields, TypeOK
  <2> QED BY <1>1, <2>1, <2>2 DEF Forgotten
<1>8. ASSUME NEW t \in Tasks, Answers(t) PROVE Forgotten(u)'
  <2>1. CASE u # t
    <3>1. request'[u] = request[u] /\ UNCHANGED <<version, sample, response>>
      BY <1>1, <1>8, <2>1 DEF Answers, Answer, TypeOK
    <3>2. entries' \subseteq entries
      BY <1>8 DEF Answers, Kept
    <3> QED BY <1>1, <3>1, <3>2 DEF Forgotten
  <2>2. CASE u = t
    <3>1. /\ request'[t].st = "answered" /\ request[t].st = "running"
          /\ request'[t].tokens = request[t].tokens /\ UNCHANGED <<version, sample, response>>
          /\ entries' = Kept(t)
      BY <1>1, <1>8, <2>2 DEF Answers, Answer, TypeOK
    <3>2. sample[t[1]] \in {"active", "failed"} BY <1>1, <2>2, <3>1 DEF Asked
    <3>3. sample[t[1]] = "active" =>
            request[t].w = version /\ \A k \in 1..Len(response[t]) : response[t][k] # version
      <4> SUFFICES ASSUME sample[t[1]] = "active"
                   PROVE request[t].w = version /\ \A k \in 1..Len(response[t]) : response[t][k] # version
        OBVIOUS
      <4>1. request[t].w = version BY <1>1, <2>2, <3>1 DEF Asked
      <4>2. phase # "transfer"
        <5> SUFFICES ASSUME phase = "transfer" PROVE FALSE
          OBVIOUS
        <5>1. request[t].server \in Servers BY <1>1, <3>1, RequestKinds DEF Waiting
        <5>2. request[t].event BY <1>1, <2>2, <3>1, <5>1 DEF Gate, Asked
        <5> QED BY <1>1, <2>2, <3>1, <5>2 DEF Asked, Pausing
      <4>3. ASSUME NEW k \in 1..Len(response[t]) PROVE response[t][k] # version
        <5>1. response[t][k] < version BY <1>1, <2>2, <3>1, <4>2 DEF Fresh, Asked
        <5>2. version \in Nat /\ response[t][k] \in Nat BY <1>1 DEF TypeOK, Token
        <5> QED BY <5>1, <5>2
      <4> QED BY <4>1, <4>3
    <3>4. CASE request[t].tokens = <<>>
      BY <1>1, <2>2, <3>1, <3>2, <3>3, <3>4 DEF Forgotten, Kept
    <3>5. CASE request[t].tokens # <<>>
      <4>1. entries' = entries \ {Key(t)} BY <3>1, <3>5 DEF Kept
      <4>2. \A v : <<t, v>> \in entries' => <<t, v>> \in entries /\ v # request[t].w BY <4>1 DEF Key
      <4>3. sample[t[1]] = "active" => <<t, version>> \notin entries' BY <3>3, <4>1 DEF Key
      <4> QED BY <1>1, <2>2, <3>1, <4>2, <4>3 DEF Forgotten
    <3> QED BY <3>4, <3>5
  <2> QED BY <2>1, <2>2
<1>9. ASSUME NEW t \in Tasks, Receives(t) PROVE Forgotten(u)'
  <2>1. CASE u # t
    <3>1. request'[u] = request[u] /\ response'[u] = response[u] /\ UNCHANGED <<version, sample, entries>>
      BY <1>1, <1>9, <2>1 DEF Receives, TypeOK
    <3> QED BY <1>1, <3>1 DEF Forgotten
  <2>2. CASE u = t /\ sample[t[1]] # "active"
    <3>1. request'[t].st = "none" /\ request[t].st = "answered" /\ UNCHANGED <<response, sample, entries>>
      BY <1>1, <1>9, <2>2 DEF Receives, TypeOK, NoRequest
    <3> QED BY <1>1, <2>2, <3>1 DEF Forgotten
  <2>3. CASE u = t /\ sample[t[1]] = "active"
    <3>1. request'[t].st = "none" /\ request[t].st = "answered" /\ UNCHANGED <<sample, entries>>
      BY <1>1, <1>9, <2>3 DEF Receives, TypeOK, NoRequest
    <3>3. request[t].tokens # <<>> => <<t, version>> \notin entries
      BY <1>1, <2>3, <3>1 DEF Forgotten
    <3>4. ASSUME NEW v \in Nat, <<t, v>> \in entries, NEW k \in 1..Len(response'[t])
          PROVE response'[t][k] # v
      <4>1. \A j \in 1..Len(response[t]) : response[t][j] # v
        BY <1>1, <2>3, <3>1, <3>4 DEF Forgotten
      <4>2. IF k <= Len(response[t]) THEN response'[t][k] = response[t][k]
            ELSE response'[t][k] = version /\ request[t].tokens # <<>>
        BY <1>9, <2>3, Joined
      <4>3. k <= Len(response[t]) => k \in 1..Len(response[t])
        BY <1>1 DEF TypeOK, Token
      <4> QED BY <3>3, <3>4, <4>1, <4>2, <4>3
    <3> QED BY <2>3, <3>1, <3>4 DEF Forgotten
  <2> QED BY <2>1, <2>2, <2>3
<1>10. ASSUME NEW t \in Tasks, Raises(t) PROVE Forgotten(u)'
  <2>1. UNCHANGED <<version, response, entries>> BY <1>10 DEF Raises
  <2>2. CASE u = t
    <3>1. request'[t].st = "none" /\ request[t].st = "running" BY <1>1, <1>10 DEF Raises, TypeOK, NoRequest
    <3>2. sample'[t[1]] = "failed" BY <1>1, <1>3, <1>10, <2>2, <3>1 DEF Raises, TypeOK, Asked
    <3> QED BY <2>2, <3>1, <3>2 DEF Forgotten
  <2>3. CASE u # t
    <3>1. request'[u] = request[u] BY <1>1, <1>10, <2>3 DEF Raises, TypeOK
    <3>2. sample'[u[1]] = "active" => sample[u[1]] = "active" BY <1>1, <1>3, <1>10 DEF Raises, TypeOK
    <3>3. sample[u[1]] = "failed" => sample'[u[1]] = "failed" BY <1>1, <1>3, <1>10 DEF Raises, TypeOK
    <3> QED BY <1>1, <2>1, <3>1, <3>2, <3>3 DEF Forgotten
  <2> QED BY <2>2, <2>3
<1>11. ASSUME NEW i \in Samples, Gathers(i) PROVE Forgotten(u)'
  BY <1>1, <1>3, <1>11 DEF Gathers, TypeOK, Forgotten
<1>12. ASSUME NEW s \in Servers, Cancels(s) PROVE Forgotten(u)'
  <2>1. request'[u].st = request[u].st /\ UNCHANGED <<version, sample, response, entries>>
    BY <1>1, <1>12 DEF Cancels, TypeOK
  <2>2. request'[u].w = request[u].w /\ (request[u].st = "answered" => request'[u] = request[u])
    BY <1>1, <1>12, RequestKinds DEF Cancels, TypeOK, Waiting
  <2> QED BY <1>1, <2>1, <2>2 DEF Forgotten
<1>13. CASE Transfers
  <2>1. phase = "transfer" /\ UNCHANGED <<request, sample, response, entries>>
    BY <1>13 DEF Transfers
  <2>2. sample[u[1]] = "active" /\ request[u].st = "answered" => request[u].tokens = <<>>
    BY <1>1, <2>1 DEF Asked, Pausing
  <2> QED BY <1>1, <2>1, <2>2 DEF Forgotten
<1>14. CASE UNCHANGED <<version, request, sample, response, entries>>
  BY <1>1, <1>14 DEF Forgotten
<1> QED
  BY <1>4, <1>6, <1>7, <1>8, <1>9, <1>10, <1>11, <1>12, <1>13, <1>14
  DEF Next, Resumes, Pauses, MonitorAsks, Cancelled, Quiets, Unpauses, BeginsResume, Opens, Rests, vars

\* The invariant holds at the beginning, and every step keeps it.
LEMMA PInvInitial == Init => PInv
<1> SUFFICES ASSUME Init PROVE PInv
  OBVIOUS
<1>1. TypeOK
  <2>1. NoRequest \in Request /\ NoBounds \in [start : Nat, end : Nat]
    BY RequestShapes DEF NoBounds
  <2> QED BY <2>1 DEF Init, TypeOK, Tasks
<1>2. Gate
  BY DEF Init, Gate, Pausing
<1>3. ASSUME NEW t \in Tasks PROVE Asked(t) /\ Fresh(t) /\ Labelled(t) /\ Forgotten(t)
  <2>1. /\ request[t] = NoRequest /\ response[t] = <<>> /\ bounds[t] = NoBounds /\ entries = {}
        /\ version = 0 /\ finished[t] = FALSE /\ phase = "open" /\ sample[t[1]] = "pending"
    BY <1>3 DEF Init, Tasks
  <2>2. Len(response[t]) = 0 /\ 1..0 = {} /\ 0 <= ResponseLength
    BY <2>1, SizesAssumption
  <2> QED BY <2>1, <2>2 DEF Asked, Fresh, Labelled, Forgotten, NoRequest, NoBounds, Pausing
<1> QED BY <1>1, <1>2, <1>3 DEF PInv

LEMMA PInvNext == PInv /\ [Next]_vars => PInv'
<1>1. CASE Next
  BY <1>1, TypeNext, GateNext, AskedNext, FreshNext, LabelledNext, ForgottenNext DEF PInv, Tasks
<1>2. CASE UNCHANGED vars
  <2>1. PInv => TypeOK' /\ Gate'
    BY <1>2 DEF vars, PInv, TypeOK, Gate, Pausing, LastUndone
  <2>2. ASSUME PInv, NEW t \in Tasks PROVE Asked(t)' /\ Fresh(t)'
    <3>1. Asked(t) /\ Fresh(t) BY <2>2 DEF PInv
    <3> QED BY <1>2, <3>1 DEF vars, Asked, Pausing, LastUndone, Fresh
  <2>3. ASSUME PInv, NEW t \in Tasks PROVE Labelled(t)' /\ Forgotten(t)'
    <3>1. Labelled(t) /\ Forgotten(t) BY <2>3 DEF PInv
    <3> QED BY <1>2, <3>1 DEF vars, Labelled, Forgotten
  <2> QED BY <2>1, <2>2, <2>3 DEF PInv, Tasks
<1> QED BY <1>1, <1>2

LEMMA Invariance == Spec => []PInv
  BY PInvInitial, PInvNext, PTL DEF Spec

\* Every token of a response comes from a version between the two that its batch is labelled
\* with, and the versions never decrease along it (partial_single_turn_agent_loop.py 46-112).
\* Only a request submitted in a pause that the monitor undid may be answered by the next
\* version, and by no later one (fully_async_rollouter.py 500, 640-644).
THEOREM LabelsBracket == Spec => []VersionsBracketed
<1>1. PInv => VersionsBracketed
  <2> SUFFICES ASSUME PInv, NEW t \in Tasks
               PROVE /\ \A k \in DOMAIN response[t] :
                          /\ bounds[t].start <= response[t][k]
                          /\ \/ response[t][k] <= bounds[t].end
                             \/ response[t][k] = bounds[t].end + 1 /\ response[t][k] \in undone
                     /\ \A k, l \in DOMAIN response[t] : k < l => response[t][k] <= response[t][l]
    BY DEF VersionsBracketed
  <2>1. DOMAIN response[t] = 1..Len(response[t])
    BY DEF PInv, TypeOK, Token
  <2> QED BY <2>1 DEF PInv, Labelled
<1> QED BY <1>1, Invariance, PTL

\* Until the rollouter resumes a server runs at most a request of a sample that failed, and
\* has told even that one to stop (vllm_async_server.py 86-124).
THEOREM QuietWhenWeightsMove == Spec => []ServersQuiet
<1>1. PInv => ServersQuiet
  <2> SUFFICES ASSUME PInv, phase \in {"transfer", "updated"}, NEW t \in Tasks, request[t].st = "running"
               PROVE sample[t[1]] = "failed" /\ request[t].event
    BY DEF ServersQuiet
  <2>1. request[t].server \in Servers BY RequestKinds DEF PInv, Waiting
  <2>2. t[1] \in Samples BY DEF Tasks
  <2> QED BY <2>1, <2>2 DEF PInv, Gate, Asked, Pausing
<1> QED BY <1>1, Invariance, PTL

\* What stays in a server's tables after an answer belongs to requests that never had an
\* output, or whose sample failed (vllm_async_server.py 105-117).
THEOREM NothingLeftOver == Spec => []LeftoversEmpty
<1>1. PInv => LeftoversEmpty
  <2> SUFFICES ASSUME PInv, NEW e \in entries
               PROVE \/ request[e[1]].st = "running" /\ request[e[1]].w = e[2]
                     \/ sample[e[1][1]] = "failed"
                     \/ e[2] \notin ToSet(response[e[1]])
    BY DEF LeftoversEmpty
  <2>1. e[1] \in Tasks /\ e[2] \in Nat /\ e = <<e[1], e[2]>>
    BY DEF PInv, TypeOK
  <2>2. Forgotten(e[1]) BY <2>1 DEF PInv
  <2>3. DOMAIN response[e[1]] = 1..Len(response[e[1]])
    BY <2>1 DEF PInv, TypeOK, Token
  <2> QED BY <2>1, <2>2, <2>3 DEF Forgotten, ToSet
<1> QED BY <1>1, Invariance, PTL

\* One step continues responses and leaves the finished ones alone.
LEMMA StepContinues ==
  PInv /\ Next =>
    \A t \in Tasks :
      /\ IsPrefix(response[t], response'[t])
      /\ finished[t] => finished'[t] /\ response'[t] = response[t] /\ bounds'[t] = bounds[t]
<1> SUFFICES ASSUME PInv, Next, NEW u \in Tasks
             PROVE /\ IsPrefix(response[u], response'[u])
                   /\ finished[u] => finished'[u] /\ response'[u] = response[u] /\ bounds'[u] = bounds[u]
  OBVIOUS
<1>1. TypeOK /\ response[u] \in Seq(Nat) BY DEF PInv, TypeOK, Token
<1>2. CASE response'[u] = response[u] /\ finished'[u] = finished[u] /\ bounds'[u] = bounds[u]
  BY <1>1, <1>2, PrefixIs
<1>3. ASSUME NEW t \in Tasks, Receives(t), ~(u = t /\ sample[t[1]] = "active")
      PROVE response'[u] = response[u] /\ finished'[u] = finished[u] /\ bounds'[u] = bounds[u]
  BY <1>1, <1>3 DEF Receives, TypeOK
<1>4. ASSUME Receives(u), sample[u[1]] = "active"
      PROVE IsPrefix(response[u], response'[u]) /\ ~finished[u]
  <2>1. ~finished[u] BY <1>4 DEF PInv, Asked, Receives
  <2>2. \A k \in 1..Len(response[u]) : k \in 1..Len(response'[u]) /\ k <= Len(response[u])
    BY <1>1, <1>4, Joined
  <2>3. \A k \in 1..Len(response[u]) : response[u][k] = response'[u][k]
    BY <1>4, <2>2, Joined
  <2> QED BY <1>1, <1>4, <2>1, <2>3, Joined, PrefixIs
<1>5. CASE UNCHANGED <<response, finished, bounds>>
  BY <1>2, <1>5
<1> QED
  BY <1>2, <1>3, <1>4, <1>5 DEF Next, Submits, Arrives, Yields, Answers, Raises, Gathers,
     Cancels, Resumes, Pauses, MonitorAsks, Cancelled, Quiets, Unpauses, Transfers, BeginsResume, Opens, Rests, vars

\* Interruptions only ever continue a response, and resuming a sample does not touch its
\* trajectories that finished (agent_loop.py 166-169).
THEOREM ContinuedOnly == Spec => OnlyContinued
<1>1. PInv /\ [Next]_vars =>
        [\A t \in Tasks :
           /\ IsPrefix(response[t], response'[t])
           /\ finished[t] => finished'[t] /\ response'[t] = response[t] /\ bounds'[t] = bounds[t]]_vars
  BY StepContinues
<1> QED BY <1>1, Invariance, PTL DEF Spec, OnlyContinued

\* A sample comes back unfinished (fully_async_rollouter.py 523-525) only while the rollouter
\* is pausing, or if the monitor undid the last pause (640-644).
THEOREM InterruptionIsPause == Spec => InterruptedByPause
<1>1. PInv /\ [Next]_vars =>
        [\A i \in Samples : sample[i] = "active" /\ sample'[i] = "pending" =>
           phase \in {"cancelling", "waiting"} \/ LastUndone]_vars
  <2> SUFFICES ASSUME PInv, Next, NEW i \in Samples, sample[i] = "active", sample'[i] = "pending"
               PROVE phase \in {"cancelling", "waiting"} \/ LastUndone
    OBVIOUS
  <2>1. TypeOK BY DEF PInv
  <2>2. ASSUME NEW j \in Samples, Submits(j) PROVE FALSE
    BY <2>1, <2>2 DEF Submits, TypeOK
  <2>3. ASSUME NEW t \in Tasks, Raises(t) PROVE FALSE
    BY <2>1, <2>3 DEF Raises, TypeOK, Tasks
  <2>4. ASSUME NEW j \in Samples, Gathers(j) PROVE phase \in {"cancelling", "waiting"} \/ LastUndone
    <3>1. i = j BY <2>1, <2>4 DEF Gathers, TypeOK
    <3>2. PICK t \in Tasks : t[1] = i /\ ~finished[t] BY <2>1, <2>4, <3>1 DEF Gathers, TypeOK
    <3>3. request[t].st = "none" BY <2>4, <3>1, <3>2 DEF Gathers, NoRequest
    <3> QED BY <3>2, <3>3 DEF PInv, Asked, Pausing
  <2>5. CASE UNCHANGED sample BY <2>5
  <2> QED BY <2>2, <2>3, <2>4, <2>5 DEF Next, Arrives, Yields, Answers, Receives,
     Cancels, Resumes, Pauses, MonitorAsks, Cancelled, Quiets, Unpauses, Transfers, BeginsResume, Opens, Rests, vars
<1> QED BY <1>1, Invariance, PTL DEF Spec, InterruptedByPause
=============================================================================
