--------------------------- MODULE RateLimiterProofs ---------------------------
(***************************************************************************)
(* No bucket of the rate limiter grants more than its rate and its capacity  *)
(* allow in any span of time, for any requests, sizes and limits.            *)
(***************************************************************************)
EXTENDS RateLimiter, FiniteSetTheorems, SequenceTheorems, TLAPS

Asleep(r, b) == r \in paid /\ stage[r] = b /\ sleep[r] > 0

Bound(b) == IF Cost[b] > Capacity THEN Cost[b] ELSE Capacity

\* What a bucket has granted and what it has left are never more than it holds.
Covered(b) ==
    /\ tokens[b] <= Capacity
    /\ load[b] <= Bound(b)
    /\ load[b] + Refilled(b) <= Bound(b)

\* Requests that sleep with their tokens taken are due one cost apart, the first when
\* the load has been paid, the last when the bucket is back at zero.
Spaced(b) ==
    /\ \A r \in paid : stage[r] = b => Large(b)
    /\ \A r \in Requests : Asleep(r, b) =>
         /\ load[b] <= sleep[r] /\ sleep[r] + Refilled(b) <= 0
         /\ \A q \in Requests : Asleep(q, b) /\ q # r =>
              sleep[q] >= sleep[r] + Cost[b] \/ sleep[r] >= sleep[q] + Cost[b]

\* A request that is not decoded has been in no bucket.
Undecoded == \A r \in Requests : stage[r] = "decode" => r \notin paid /\ sleep[r] = 0

RInv == TypeOK /\ Undecoded /\ \A b \in Buckets : Covered(b) /\ Spaced(b)

\* The smaller of two integers.
LEMMA MinOfTwo == ASSUME NEW x \in Int, NEW y \in Int
                  PROVE  Min({x, y}) = IF x <= y THEN x ELSE y
<1> DEFINE m == IF x <= y THEN x ELSE y
           P(c) == c \in {x, y} /\ \A z \in {x, y} : c <= z
<1>1. P(m) OBVIOUS
<1>2. \A c : P(c) => c = m OBVIOUS
<1>3. Min({x, y}) = CHOOSE c : P(c)
  BY Zenon DEF Min
<1>4. P(CHOOSE c : P(c))
  <2> HIDE DEF P
  <2> QED BY <1>1, Zenon
<1> QED BY <1>2, <1>3, <1>4

\* The larger of two integers.
LEMMA MaxOfTwo == ASSUME NEW x \in Int, NEW y \in Int
                  PROVE  Max({x, y}) = IF x <= y THEN y ELSE x
<1> DEFINE m == IF x <= y THEN y ELSE x
           P(c) == c \in {x, y} /\ \A z \in {x, y} : c >= z
<1>1. P(m) OBVIOUS
<1>2. \A c : P(c) => c = m OBVIOUS
<1>3. Max({x, y}) = CHOOSE c : P(c)
  BY Zenon DEF Max
<1>4. P(CHOOSE c : P(c))
  <2> HIDE DEF P
  <2> QED BY <1>1, Zenon
<1> QED BY <1>2, <1>3, <1>4

\* The tokens of a bucket when they are refilled, now and after a step.
LEMMA RefilledIs ==
  ASSUME TypeOK, NEW b \in Buckets
  PROVE  /\ Refilled(b) \in Int
         /\ Refilled(b) = IF Capacity <= tokens[b] + since[b] THEN Capacity ELSE tokens[b] + since[b]
<1>1. Capacity \in Int /\ tokens[b] + since[b] \in Int
  BY LimitsAssumption DEF TypeOK
<1>2. Refilled(b) = IF Capacity <= tokens[b] + since[b] THEN Capacity ELSE tokens[b] + since[b]
  BY <1>1, MinOfTwo DEF Refilled
<1> QED BY <1>1, <1>2

LEMMA RefilledBound ==
  ASSUME TypeOK, NEW b \in Buckets
  PROVE  Refilled(b) \in Int /\ Refilled(b) <= Capacity
<1>1. Capacity \in Int /\ tokens[b] + since[b] \in Int
  BY LimitsAssumption DEF TypeOK
<1> QED BY <1>1, RefilledIs

LEMMA RefilledIsNext ==
  ASSUME TypeOK', NEW b \in Buckets
  PROVE  /\ Refilled(b)' \in Int
         /\ Refilled(b)' = IF Capacity <= tokens'[b] + since'[b] THEN Capacity ELSE tokens'[b] + since'[b]
<1>1. Capacity \in Int /\ tokens'[b] + since'[b] \in Int
  BY LimitsAssumption DEF TypeOK
<1>2. Refilled(b)' = Min({Capacity, tokens'[b] + since'[b]})
  BY DEF Refilled
<1> QED BY <1>1, <1>2, MinOfTwo

LEMMA RInvInitial == Init => RInv
<1> SUFFICES ASSUME Init PROVE RInv
  OBVIOUS
<1>1. TypeOK
  BY LimitsAssumption DEF Init, TypeOK, Buckets
<1>2. ASSUME NEW b \in Buckets PROVE Covered(b) /\ Spaced(b)
  <2>1. Refilled(b) = Capacity /\ tokens[b] = Capacity /\ load[b] = 0 /\ paid = {}
    BY <1>1, RefilledIs, LimitsAssumption DEF Init
  <2> QED BY <2>1, LimitsAssumption DEF Covered, Spaced, Asleep, Bound
<1>3. Undecoded
  BY DEF Init, Undecoded
<1> QED BY <1>1, <1>2, <1>3 DEF RInv

\* At most one request of a bucket is due at a time.
LEMMA DueIs ==
  ASSUME RInv, NEW b \in Buckets
  PROVE  \/ Due(b) = {} /\ Cardinality(Due(b)) = 0
         \/ \E r \in Requests :
              /\ Due(b) = {r} /\ Cardinality(Due(b)) = 1
              /\ Asleep(r, b) /\ sleep[r] = 1 /\ Large(b)
<1>1. CASE Due(b) = {}
  BY <1>1, FS_EmptySet
<1>2. CASE Due(b) # {}
  <2>1. PICK r \in Due(b) : TRUE
    BY <1>2
  <2>2. r \in Requests /\ Asleep(r, b) /\ sleep[r] = 1 /\ Large(b)
    BY <2>1 DEF RInv, TypeOK, Due, Asleep, Spaced
  <2>3. ASSUME NEW q \in Due(b), q # r PROVE FALSE
    <3>1. q \in Requests /\ Asleep(q, b) /\ sleep[q] = 1
      BY DEF RInv, TypeOK, Due, Asleep
    <3>2. sleep[q] >= sleep[r] + Cost[b] \/ sleep[r] >= sleep[q] + Cost[b]
      BY <2>2, <2>3, <3>1 DEF RInv, Spaced
    <3> QED BY <2>2, <3>1, <3>2, LimitsAssumption DEF Large
  <2>4. Due(b) = {r}
    BY <2>1, <2>3
  <2> QED BY <2>2, <2>4, FS_Singleton
<1> QED BY <1>1, <1>2

\* A step keeps the types.
LEMMA TypeStep == RInv /\ Next => TypeOK'
<1> SUFFICES ASSUME RInv, Next PROVE TypeOK'
  OBVIOUS
<1>1. TypeOK
  BY DEF RInv
<1>0. ASSUME NEW b \in Buckets
      PROVE  Refilled(b) \in Int /\ Refilled(b) <= Capacity /\ Cost[b] \in Nat /\ Capacity \in Nat
  BY <1>1, RefilledBound, LimitsAssumption
<1>2. ASSUME NEW r \in Requests, NEW b \in Buckets, Passes(r, b)
      PROVE  /\ stage' \in [Requests -> Buckets \cup {"decode", "queued", "held", "done"}]
             /\ queue' \in Seq(Requests)
  BY <1>1, <1>2 DEF Passes, TypeOK, Buckets
<1>3. ASSUME NEW r \in Requests, NEW b \in Buckets, Borrows(r, b) PROVE TypeOK'
  <2>1. Cost[b] > Capacity
    BY <1>3 DEF Borrows, Large
  <2>2. Cost[b] - Refilled(b) \in Nat /\ Debt(b) \in Int
    BY <1>0, <2>1 DEF Debt
  <2> QED BY <1>1, <1>3, <2>2 DEF Borrows, TypeOK, callVars
<1>4. ASSUME NEW r \in Requests, NEW b \in Buckets, Repaid(r, b) PROVE TypeOK'
  <2>1. Passes(r, b)
    BY <1>4 DEF Repaid
  <2> QED BY <1>1, <1>2, <1>4, <2>1 DEF Repaid, TypeOK
<1>5. ASSUME NEW r \in Requests, NEW b \in Buckets, Takes(r, b) PROVE TypeOK'
  <2>1. Passes(r, b)
    BY <1>5 DEF Takes
  <2>2. Debt(b) \in Int /\ load[b] + Cost[b] \in Nat
    BY <1>0, <1>1 DEF Debt, TypeOK
  <2> QED BY <1>1, <1>2, <1>5, <2>1, <2>2 DEF Takes, TypeOK
<1>6. ASSUME NEW r \in Requests, NEW b \in Buckets, Sleeps(r, b) PROVE TypeOK'
  <2>1. Refilled(b) \in Int /\ Missing(b) \in Nat
    BY <1>0, <1>6 DEF Sleeps, Missing
  <2> QED BY <1>1, <1>6, <2>1 DEF Sleeps, TypeOK, callVars
<1>7. CASE Starts
  <2>1. Head(queue) \in Requests /\ Tail(queue) \in Seq(Requests)
    BY <1>1, <1>7 DEF Starts, TypeOK
  <2>2. Timeout \in Nat
    BY LimitsAssumption
  <2> QED BY <1>1, <1>7, <2>1, <2>2 DEF Starts, TypeOK, bucketVars
<1>8. ASSUME NEW r \in Requests, Decodes(r) \/ ThreadTakes(r) \/ Returns(r) \/ TimesOut(r)
      PROVE  TypeOK'
  BY <1>1, <1>8
     DEF Decodes, ThreadTakes, Returns, TimesOut, Cancelled, TypeOK, Buckets, bucketVars, callVars
<1>9. CASE Tick
  <2>1. \A n \in Nat : Less(n) \in Nat
    BY DEF Less
  <2>2. ASSUME NEW b \in Buckets PROVE Cost[b] * Cardinality(Due(b)) \in Nat
    BY <1>0, DueIs
  <2>3. /\ since' \in [Buckets -> Nat] /\ sleep' \in [Requests -> Nat]
        /\ timer' \in [Requests -> Nat]
    <3>1. ASSUME NEW b \in Buckets
          PROVE  (IF tokens[b] + since[b] < Capacity THEN since[b] + 1 ELSE since[b]) \in Nat
      BY <1>1 DEF TypeOK
    <3>2. \A r \in Requests : Less(sleep[r]) \in Nat /\ Less(timer[r]) \in Nat
      BY <1>1, <2>1 DEF TypeOK
    <3>3. since' \in [Buckets -> Nat]
      BY <1>9, <3>1 DEF Tick
    <3> QED BY <1>9, <3>2, <3>3 DEF Tick
  <2>4. ASSUME NEW b \in Buckets
        PROVE  Less(load[b]) + Cost[b] * Cardinality(Due(b)) \in Nat
    <3>1. Less(load[b]) \in Nat
      BY <1>1, <2>1 DEF TypeOK
    <3> QED BY <2>2, <3>1
  <2>5. load' \in [Buckets -> Nat]
    BY <1>9, <2>4 DEF Tick
  <2> QED BY <1>1, <1>9, <2>3, <2>5 DEF Tick, TypeOK
<1> QED BY <1>3, <1>4, <1>5, <1>6, <1>7, <1>8, <1>9 DEF Next

\* Nothing goes back to be decoded, and only those that are in a bucket take tokens or sleep.
LEMMA UndecodedStep == RInv /\ Next => Undecoded'
<1> SUFFICES ASSUME RInv, Next, NEW r \in Requests, stage'[r] = "decode"
             PROVE  r \notin paid' /\ sleep'[r] = 0
  BY DEF Undecoded
<1>1. TypeOK /\ (stage[r] = "decode" => r \notin paid /\ sleep[r] = 0)
  BY DEF RInv, Undecoded
<1>2. ASSUME NEW q \in Requests, NEW b \in Buckets,
             Borrows(q, b) \/ Repaid(q, b) \/ Takes(q, b) \/ Sleeps(q, b)
      PROVE  r \notin paid' /\ sleep'[r] = 0
  <2>1. stage[q] = b /\ b # "decode"
    BY <1>2 DEF Borrows, Repaid, Takes, Sleeps, Waits, Buckets
  <2>2. stage' = stage \/ (Passes(q, b) /\ stage'[q] # "decode")
    BY <1>1, <1>2 DEF Borrows, Repaid, Takes, Sleeps, Passes, TypeOK
  <2>3. q # r /\ stage[r] = "decode"
    BY <1>1, <2>1, <2>2 DEF Passes, TypeOK
  <2>4. sleep'[r] = sleep[r] /\ (r \in paid' => r \in paid)
    BY <1>1, <1>2, <2>3 DEF Borrows, Repaid, Takes, Sleeps, TypeOK
  <2> QED BY <1>1, <2>3, <2>4
<1>3. CASE Starts \/ \E q \in Requests : Decodes(q) \/ ThreadTakes(q) \/ Returns(q) \/ TimesOut(q)
  <2>1. UNCHANGED bucketVars /\ stage[r] = "decode"
    BY <1>1, <1>3 DEF Starts, Decodes, ThreadTakes, Returns, TimesOut, TypeOK
  <2> QED BY <1>1, <2>1 DEF bucketVars
<1>4. CASE Tick
  BY <1>1, <1>4 DEF Tick, Less
<1> QED BY <1>2, <1>3, <1>4 DEF Next

\* A step that leaves bucket b and those that sleep for it alone.
LEMMA OtherBucket ==
  ASSUME RInv, TypeOK', NEW b \in Buckets,
         tokens'[b] = tokens[b], since'[b] = since[b], load'[b] = load[b],
         \A r \in Requests : r \in paid' /\ stage'[r] = b =>
            r \in paid /\ stage[r] = b /\ sleep'[r] = sleep[r]
  PROVE  Covered(b)' /\ Spaced(b)'
<1>1. Refilled(b)' = Refilled(b)
  BY DEF Refilled
<1>2. Covered(b) /\ Spaced(b) /\ paid' \subseteq Requests
  BY DEF RInv, TypeOK
<1>3. Covered(b)'
  BY <1>1, <1>2 DEF Covered, Bound
<1>4. \A r \in Requests : Asleep(r, b)' => Asleep(r, b) /\ sleep'[r] = sleep[r]
  BY DEF Asleep
<1>5. Spaced(b)'
  BY <1>1, <1>2, <1>4 DEF Spaced, Large
<1> QED BY <1>3, <1>5

\* A request borrows from bucket b: it is due one cost after the last.
LEMMA BorrowsStep ==
  ASSUME RInv, TypeOK', NEW r \in Requests, NEW b \in Buckets, Borrows(r, b)
  PROVE  Covered(b)' /\ Spaced(b)'
<1> DEFINE left == Refilled(b)
           cost == Cost[b]
<1>1. /\ left \in Int /\ left <= Capacity /\ cost \in Nat /\ Capacity \in Nat /\ cost > Capacity
      /\ load[b] \in Nat /\ load[b] + left <= cost /\ load[b] <= cost
  <2>1. Large(b) /\ Covered(b) /\ TypeOK
    BY DEF Borrows, RInv
  <2>2. left \in Int /\ left <= Capacity
    BY <2>1, RefilledBound
  <2>3. cost \in Nat /\ Capacity \in Nat /\ cost > Capacity /\ load[b] \in Nat
    BY <2>1, LimitsAssumption DEF Large, TypeOK
  <2> QED BY <2>1, <2>2, <2>3 DEF Covered, Bound
<1>2. tokens'[b] = left - cost /\ since'[b] = 0 /\ load' = load /\ stage' = stage /\ stage[r] = b
  BY DEF Borrows, Debt, RInv, TypeOK, Waits
<1>3. /\ r \notin paid /\ paid' = paid \cup {r}
      /\ sleep' = [sleep EXCEPT ![r] = cost - left] /\ sleep \in [Requests -> Nat]
  BY DEF Borrows, RInv, TypeOK, Waits
<1>4. Refilled(b)' = left - cost
  BY <1>1, <1>2, RefilledIsNext
<1>5. Covered(b)'
  BY <1>1, <1>2, <1>4 DEF Covered, Bound
<1>6. \A q \in Requests : Asleep(q, b) =>
         /\ sleep[q] \in Nat /\ load[b] <= sleep[q] /\ sleep[q] + left <= 0
         /\ \A p \in Requests : Asleep(p, b) /\ p # q =>
              sleep[p] >= sleep[q] + cost \/ sleep[q] >= sleep[p] + cost
  BY <1>3 DEF RInv, Spaced
<1>7. \A q \in Requests : Asleep(q, b)' =>
         \/ q = r /\ sleep'[q] = cost - left
         \/ q # r /\ Asleep(q, b) /\ sleep'[q] = sleep[q]
  BY <1>2, <1>3 DEF Asleep
<1>8. \A q \in paid' : stage'[q] = b => Large(b)'
  BY <1>1 DEF Large
<1> HIDE DEF left, cost
<1>9. ASSUME NEW q \in Requests, Asleep(q, b)'
      PROVE  /\ load'[b] <= sleep'[q] /\ sleep'[q] + Refilled(b)' <= 0
             /\ \A p \in Requests : Asleep(p, b)' /\ p # q =>
                  sleep'[p] >= sleep'[q] + cost \/ sleep'[q] >= sleep'[p] + cost
  <2>1. CASE q = r
    <3>1. sleep'[q] = cost - left
      BY <1>7, <1>9, <2>1
    <3>2. ASSUME NEW p \in Requests, Asleep(p, b)', p # q PROVE sleep'[q] >= sleep'[p] + cost
      BY <1>1, <1>6, <1>7, <2>1, <3>1, <3>2
    <3> QED BY <1>1, <1>2, <1>4, <3>1, <3>2
  <2>2. CASE q # r
    <3>1. Asleep(q, b) /\ sleep'[q] = sleep[q]
      BY <1>7, <1>9, <2>2
    <3>2. ASSUME NEW p \in Requests, Asleep(p, b)', p # q
          PROVE  sleep'[p] >= sleep'[q] + cost \/ sleep'[q] >= sleep'[p] + cost
      BY <1>1, <1>6, <1>7, <3>1, <3>2
    <3>3. sleep'[q] + Refilled(b)' <= 0
      BY <1>1, <1>4, <1>6, <3>1
    <3> QED BY <1>2, <1>6, <3>1, <3>2, <3>3
  <2> QED BY <2>1, <2>2
<1> QED BY <1>5, <1>8, <1>9 DEF Spaced, cost

\* A request takes tokens of bucket b that are there: the load grows by what it takes.
LEMMA TakesStep ==
  ASSUME RInv, TypeOK', NEW r \in Requests, NEW b \in Buckets, Takes(r, b)
  PROVE  Covered(b)' /\ Spaced(b)'
<1> DEFINE left == Refilled(b)
           cost == Cost[b]
<1>1. /\ left \in Int /\ left <= Capacity /\ cost \in Nat /\ Capacity \in Nat /\ cost <= Capacity
      /\ cost <= left /\ load[b] \in Nat /\ load[b] + left <= Capacity
  <2>1. ~Large(b) /\ Refilled(b) >= Cost[b] /\ Covered(b) /\ TypeOK
    BY DEF Takes, RInv
  <2>2. left \in Int /\ left <= Capacity
    BY <2>1, RefilledBound
  <2>3. cost \in Nat /\ Capacity \in Nat /\ cost <= Capacity /\ load[b] \in Nat
    BY <2>1, LimitsAssumption DEF Large, TypeOK
  <2> QED BY <2>1, <2>2, <2>3 DEF Covered, Bound
<1>2. /\ tokens'[b] = left - cost /\ since'[b] = 0 /\ load'[b] = load[b] + cost
      /\ paid' = paid /\ sleep' = sleep
  BY DEF Takes, Debt, RInv, TypeOK
<1>3. Refilled(b)' = left - cost
  BY <1>1, <1>2, RefilledIsNext
<1>4. Covered(b)'
  BY <1>1, <1>2, <1>3 DEF Covered, Bound
<1>5. \A q \in paid : stage'[q] # b
  <2>1. \A q \in paid : q \in Requests /\ stage[q] # b /\ q # r
    BY DEF RInv, TypeOK, Spaced, Takes, Waits
  <2>2. \A q \in Requests : q # r => stage'[q] = stage[q]
    BY DEF Takes, Passes, RInv, TypeOK
  <2> QED BY <2>1, <2>2
<1>6. Spaced(b)'
  BY <1>2, <1>5 DEF Spaced, Asleep
<1> QED BY <1>4, <1>6

\* A request that finds too few tokens only refills the bucket.
LEMMA SleepsStep ==
  ASSUME RInv, TypeOK', NEW r \in Requests, NEW b \in Buckets, Sleeps(r, b)
  PROVE  Covered(b)' /\ Spaced(b)'
<1>1. /\ Refilled(b) \in Int /\ Refilled(b) <= Capacity /\ Capacity \in Int
      /\ Covered(b) /\ ~Large(b)
  BY RefilledBound, LimitsAssumption DEF RInv, Sleeps
<1>2. /\ tokens'[b] = Refilled(b) /\ since'[b] = 0 /\ load' = load
      /\ paid' = paid /\ stage' = stage
  BY DEF Sleeps, RInv, TypeOK
<1>3. Refilled(b)' = Refilled(b)
  BY <1>1, <1>2, RefilledIsNext
<1>4. Covered(b)'
  BY <1>1, <1>2, <1>3 DEF Covered, Bound
<1>5. \A q \in paid : stage[q] # b
  BY <1>1 DEF RInv, Spaced
<1>6. Spaced(b)'
  BY <1>2, <1>5 DEF Spaced, Asleep
<1> QED BY <1>4, <1>6

\* Time: the load of a bucket falls as its tokens are refilled, and the one that is due
\* is granted when both are at zero.
LEMMA TickStep ==
  ASSUME RInv, TypeOK', NEW b \in Buckets, Tick
  PROVE  Covered(b)' /\ Spaced(b)'
<1> DEFINE left == Refilled(b)
           next == Refilled(b)'
           cost == Cost[b]
<1>1. /\ Covered(b) /\ TypeOK /\ Capacity \in Nat /\ Capacity > 0 /\ cost \in Nat
      /\ load[b] \in Nat /\ Bound(b) \in Nat /\ Capacity <= Bound(b) /\ cost <= Bound(b)
  <2>1. Covered(b) /\ TypeOK
    BY DEF RInv
  <2>2. Capacity \in Nat /\ Capacity > 0 /\ cost \in Nat
    BY LimitsAssumption
  <2>3. load[b] \in Nat
    BY <2>1 DEF TypeOK
  <2> QED BY <2>1, <2>2, <2>3 DEF Bound
<1>2. /\ tokens'[b] = tokens[b] /\ paid' = paid /\ stage' = stage
      /\ since'[b] = IF tokens[b] + since[b] < Capacity THEN since[b] + 1 ELSE since[b]
      /\ load'[b] = Less(load[b]) + cost * Cardinality(Due(b))
      /\ \A q \in Requests : sleep[q] \in Nat /\ sleep'[q] = Less(sleep[q])
  BY <1>1 DEF Tick, TypeOK
<1>3. left \in Int /\ next \in Int /\ left <= Capacity /\ next <= left + 1 /\ next <= Capacity
  <2>1. tokens[b] + since[b] \in Int /\ tokens[b] \in Int /\ since[b] \in Nat
    BY <1>1 DEF TypeOK
  <2>2. /\ left \in Int
        /\ left = IF Capacity <= tokens[b] + since[b] THEN Capacity ELSE tokens[b] + since[b]
    BY <1>1, RefilledIs
  <2>3. /\ next \in Int
        /\ next = IF Capacity <= tokens'[b] + since'[b] THEN Capacity ELSE tokens'[b] + since'[b]
    BY RefilledIsNext
  <2> QED BY <1>1, <1>2, <2>1, <2>2, <2>3
<1>4. load[b] <= Bound(b) /\ load[b] + left <= Bound(b) /\ tokens[b] <= Capacity
  BY <1>1 DEF Covered
<1>5. \A q \in Requests : Asleep(q, b) =>
         /\ load[b] <= sleep[q] /\ sleep[q] + left <= 0
         /\ \A p \in Requests : Asleep(p, b) /\ p # q =>
              sleep[p] >= sleep[q] + cost \/ sleep[q] >= sleep[p] + cost
  BY DEF RInv, Spaced
<1>6. \A q \in Requests : Asleep(q, b)' =>
         Asleep(q, b) /\ sleep'[q] = sleep[q] - 1 /\ sleep[q] > 1
  BY <1>2 DEF Asleep, Less
<1>7. \A q \in paid' : stage'[q] = b => Large(b)'
  BY <1>2 DEF RInv, Spaced, Large
<1>8. (Bound(b))' = Bound(b)
  BY DEF Bound
<1> HIDE DEF left, next, cost
<1>9. CASE Due(b) = {} /\ Cardinality(Due(b)) = 0
  <2>1. load'[b] = Less(load[b])
    BY <1>1, <1>2, <1>9 DEF Less
  <2>2. load'[b] <= Bound(b) /\ load'[b] + next <= Bound(b)
    BY <1>1, <1>3, <1>4, <2>1 DEF Less
  <2>3. ASSUME NEW q \in Requests, Asleep(q, b)'
        PROVE  /\ load'[b] <= sleep'[q] /\ sleep'[q] + next <= 0
               /\ \A p \in Requests : Asleep(p, b)' /\ p # q =>
                    sleep'[p] >= sleep'[q] + cost \/ sleep'[q] >= sleep'[p] + cost
    BY <1>1, <1>2, <1>3, <1>5, <1>6, <2>1, <2>3 DEF Less
  <2>4. Covered(b)'
    BY <1>2, <1>4, <1>8, <2>2 DEF Covered, next
  <2>5. Spaced(b)'
    BY <1>7, <2>3 DEF Spaced, next, cost
  <2> QED BY <2>4, <2>5
<1>10. ASSUME NEW r \in Requests, Due(b) = {r}, Cardinality(Due(b)) = 1,
              Asleep(r, b), sleep[r] = 1, Large(b)
       PROVE  Covered(b)' /\ Spaced(b)'
  <2>1. load[b] <= 1 /\ left <= -1
    BY <1>1, <1>3, <1>5, <1>10
  <2>2. load'[b] = cost
    BY <1>1, <1>2, <1>10, <2>1 DEF Less
  <2>3. next <= 0
    BY <1>3, <2>1
  <2>4. load'[b] <= Bound(b) /\ load'[b] + next <= Bound(b)
    BY <1>1, <1>3, <2>2, <2>3
  <2>5. \A q \in Requests : Asleep(q, b)' => q # r /\ sleep[q] >= 1 + cost
    BY <1>1, <1>2, <1>5, <1>6, <1>10
  <2>6. ASSUME NEW q \in Requests, Asleep(q, b)'
        PROVE  /\ load'[b] <= sleep'[q] /\ sleep'[q] + next <= 0
               /\ \A p \in Requests : Asleep(p, b)' /\ p # q =>
                    sleep'[p] >= sleep'[q] + cost \/ sleep'[q] >= sleep'[p] + cost
    BY <1>1, <1>2, <1>3, <1>5, <1>6, <2>2, <2>5, <2>6
  <2>7. Covered(b)'
    BY <1>2, <1>4, <1>8, <2>4 DEF Covered, next
  <2>8. Spaced(b)'
    BY <1>7, <2>6 DEF Spaced, next, cost
  <2> QED BY <2>7, <2>8
<1> QED BY <1>9, <1>10, DueIs

\* A step preserves the invariant: an action on one bucket, and OtherBucket for the other.
LEMMA RInvNext == RInv /\ [Next]_vars => RInv'
<1> SUFFICES ASSUME RInv, [Next]_vars PROVE RInv'
  OBVIOUS
<1>1. TypeOK'
  <2>1. CASE UNCHANGED vars
    BY <2>1 DEF vars, RInv, TypeOK
  <2> QED BY <2>1, TypeStep
<1>2. ASSUME NEW b \in Buckets,
             tokens'[b] = tokens[b], since'[b] = since[b], load'[b] = load[b],
             \A q \in Requests : q \in paid' /\ stage'[q] = b =>
                q \in paid /\ stage[q] = b /\ sleep'[q] = sleep[q]
      PROVE  Covered(b)' /\ Spaced(b)'
  BY <1>1, <1>2, OtherBucket
<1>3. TypeOK
  BY DEF RInv
<1>4. ASSUME NEW b \in Buckets, NEW r \in Requests, NEW a \in Buckets, Borrows(r, a)
      PROVE  Covered(b)' /\ Spaced(b)'
  <2>1. CASE a = b
    BY <1>1, <1>4, <2>1, BorrowsStep
  <2>2. CASE a # b
    BY <1>2, <1>3, <1>4, <2>2 DEF Borrows, Waits, TypeOK
  <2> QED BY <2>1, <2>2
<1>5. ASSUME NEW b \in Buckets, NEW r \in Requests, NEW a \in Buckets, Repaid(r, a)
      PROVE  Covered(b)' /\ Spaced(b)'
  <2>1. \A q \in Requests : q \in paid' => q \in paid /\ q # r
    BY <1>5 DEF Repaid
  <2>2. \A q \in Requests : q # r => stage'[q] = stage[q]
    BY <1>3, <1>5 DEF Repaid, Passes, TypeOK
  <2>3. tokens' = tokens /\ since' = since /\ load' = load /\ sleep' = sleep
    BY <1>5 DEF Repaid
  <2> QED BY <1>2, <2>1, <2>2, <2>3
<1>6. ASSUME NEW b \in Buckets, NEW r \in Requests, NEW a \in Buckets, Takes(r, a)
      PROVE  Covered(b)' /\ Spaced(b)'
  <2>1. CASE a = b
    BY <1>1, <1>6, <2>1, TakesStep
  <2>2. CASE a # b
    <3>1. \A q \in Requests : q \in paid' => q \in paid /\ q # r
      BY <1>6 DEF Takes, Waits
    <3>2. \A q \in Requests : q # r => stage'[q] = stage[q]
      BY <1>3, <1>6 DEF Takes, Passes, TypeOK
    <3>3. tokens'[b] = tokens[b] /\ since'[b] = since[b] /\ load'[b] = load[b] /\ sleep' = sleep
      BY <1>3, <1>6, <2>2 DEF Takes, TypeOK
    <3> QED BY <1>2, <3>1, <3>2, <3>3
  <2> QED BY <2>1, <2>2
<1>7. ASSUME NEW b \in Buckets, NEW r \in Requests, NEW a \in Buckets, Sleeps(r, a)
      PROVE  Covered(b)' /\ Spaced(b)'
  <2>1. CASE a = b
    BY <1>1, <1>7, <2>1, SleepsStep
  <2>2. CASE a # b
    BY <1>2, <1>3, <1>7, <2>2 DEF Sleeps, Waits, TypeOK
  <2> QED BY <2>1, <2>2
<1>8. ASSUME NEW b \in Buckets,
             Starts \/ \E r \in Requests : Decodes(r) \/ ThreadTakes(r) \/ Returns(r) \/ TimesOut(r)
      PROVE  Covered(b)' /\ Spaced(b)'
  <2>1. UNCHANGED bucketVars
    BY <1>8 DEF Starts, Decodes, ThreadTakes, Returns, TimesOut
  <2>2. \A q \in Requests : stage'[q] = b => stage[q] \in {b, "decode"}
    BY <1>3, <1>8 DEF Starts, Decodes, ThreadTakes, Returns, TimesOut, TypeOK, Buckets
  <2>3. \A q \in paid : q \in Requests /\ stage[q] # "decode"
    BY DEF RInv, Undecoded, TypeOK
  <2> QED BY <1>2, <2>1, <2>2, <2>3 DEF bucketVars
<1>9. ASSUME NEW b \in Buckets, UNCHANGED vars PROVE Covered(b)' /\ Spaced(b)'
  BY <1>2, <1>9 DEF vars
<1>10. ASSUME NEW b \in Buckets PROVE Covered(b)' /\ Spaced(b)'
  <2>1. CASE Tick
    BY <1>1, <2>1, TickStep
  <2>2. CASE \E r \in Requests, a \in Buckets :
               Borrows(r, a) \/ Repaid(r, a) \/ Takes(r, a) \/ Sleeps(r, a)
    BY <1>4, <1>5, <1>6, <1>7, <2>2
  <2>3. CASE Starts \/ \E r \in Requests : Decodes(r) \/ ThreadTakes(r) \/ Returns(r) \/ TimesOut(r)
    BY <1>8, <2>3
  <2>4. CASE UNCHANGED vars
    BY <1>9, <2>4
  <2> QED BY <2>1, <2>2, <2>3, <2>4 DEF Next
<1>11. Undecoded'
  <2>1. CASE UNCHANGED vars
    BY <2>1 DEF vars, RInv, Undecoded
  <2> QED BY <2>1, UndecodedStep
<1> QED BY <1>1, <1>10, <1>11 DEF RInv

LEMMA RInvBounds == RInv => WithinRate
<1> SUFFICES ASSUME RInv, NEW b \in Buckets PROVE load[b] <= Max({Capacity, Cost[b]})
  BY DEF WithinRate
<1>1. Capacity \in Nat /\ Cost[b] \in Nat /\ load[b] \in Nat
  BY LimitsAssumption DEF RInv, TypeOK
<1>2. Max({Capacity, Cost[b]}) = Bound(b)
  BY <1>1, MaxOfTwo DEF Bound
<1> QED BY <1>2 DEF RInv, Covered

\* In every span of time each bucket grants at most its capacity, or one larger request,
\* and what the span refills (limited.py 124-170): for any number of requests of any
\* size, timers that fire late, and any order in which those that woke try again.
THEOREM BucketsWithinRate == Spec => []WithinRate
<1>1. Init => RInv
  BY RInvInitial
<1>2. RInv /\ [Next]_vars => RInv'
  BY RInvNext
<1>3. RInv => WithinRate
  BY RInvBounds
<1> QED BY <1>1, <1>2, <1>3, PTL DEF Spec
-----------------------------------------------------------------------------
(* Those that wait. *)

\* NoOversleep, without Max.
Timely(r, b) ==
    stage[r] = b /\ ~Large(b) => sleep[r] = 0 \/ sleep[r] + Refilled(b) <= Cost[b]

TInv == RInv /\ \A r \in Requests, b \in Buckets : Timely(r, b)

\* A bucket only has more tokens after a step if time has passed, and one more at most.
LEMMA TokensGrowWithTime ==
  ASSUME TypeOK, TypeOK', Next, NEW b \in Buckets
  PROVE  Refilled(b)' <= Refilled(b) \/ (Tick /\ Refilled(b)' <= Refilled(b) + 1)
<1> DEFINE left == Refilled(b)
           next == Refilled(b)'
           sum == tokens[b] + since[b]
           sumNext == tokens'[b] + since'[b]
<1>1. /\ Capacity \in Int /\ tokens[b] \in Int /\ since[b] \in Nat /\ Cost[b] \in Nat
      /\ tokens'[b] \in Int /\ since'[b] \in Nat
  BY LimitsAssumption DEF TypeOK
<1>2. left \in Int /\ left = IF Capacity <= sum THEN Capacity ELSE sum
  BY RefilledIs
<1>3. next \in Int /\ next = IF Capacity <= sumNext THEN Capacity ELSE sumNext
  BY RefilledIsNext
<1> HIDE DEF left, next
<1>4. CASE tokens'[b] = tokens[b] /\ since'[b] = since[b]
  BY <1>1, <1>2, <1>3, <1>4 DEF left, next
<1>5. ASSUME since'[b] = 0, tokens'[b] = left \/ tokens'[b] = left - Cost[b]
      PROVE  Refilled(b)' <= Refilled(b)
  <2>1. sumNext <= left
    BY <1>1, <1>2, <1>5
  <2> QED BY <1>1, <1>2, <1>3, <2>1 DEF left, next
<1>6. ASSUME NEW r \in Requests, NEW a \in Buckets, Borrows(r, a) \/ Takes(r, a) \/ Sleeps(r, a)
      PROVE  Refilled(b)' <= Refilled(b)
  <2>1. CASE a # b
    <3>1. tokens'[b] = tokens[b] /\ since'[b] = since[b]
      BY <1>6, <2>1 DEF Borrows, Takes, Sleeps, TypeOK
    <3>2. Refilled(b)' = Refilled(b)
      BY <3>1 DEF Refilled
    <3> QED BY <1>2, <3>2 DEF left
  <2>2. CASE a = b
    <3>1. since'[b] = 0 /\ (tokens'[b] = Refilled(b) \/ tokens'[b] = Refilled(b) - Cost[b])
      BY <1>6, <2>2 DEF Borrows, Takes, Sleeps, Debt, TypeOK
    <3> QED BY <1>5, <3>1 DEF left
  <2> QED BY <2>1, <2>2
<1>7. CASE Tick
  <2>1. /\ tokens'[b] = tokens[b]
        /\ since'[b] = IF sum < Capacity THEN since[b] + 1 ELSE since[b]
    BY <1>7 DEF Tick
  <2>2. next <= left + 1
    BY <1>1, <1>2, <1>3, <2>1
  <2> QED BY <1>7, <2>2 DEF left, next
<1>8. CASE UNCHANGED <<tokens, since>>
  BY <1>4, <1>8
<1>9. CASE \E r \in Requests, a \in Buckets :
              Borrows(r, a) \/ Repaid(r, a) \/ Takes(r, a) \/ Sleeps(r, a)
  BY <1>6, <1>8, <1>9 DEF Repaid
<1>10. CASE Starts \/ \E r \in Requests : Decodes(r) \/ ThreadTakes(r) \/ Returns(r) \/ TimesOut(r)
  BY <1>8, <1>10 DEF Starts, Decodes, ThreadTakes, Returns, TimesOut, bucketVars
<1> QED BY <1>7, <1>9, <1>10 DEF Next

LEMMA TInvNext == TInv /\ [Next]_vars => TInv'
<1> SUFFICES ASSUME TInv, [Next]_vars PROVE TInv'
  OBVIOUS
<1>1. CASE UNCHANGED vars
  <2>1. RInv'
    BY RInvNext DEF TInv
  <2>2. ASSUME NEW r \in Requests, NEW b \in Buckets PROVE Timely(r, b)'
    BY <1>1 DEF vars, TInv, Timely, Large, Refilled
  <2> QED BY <2>1, <2>2 DEF TInv
<1>2. CASE Next
  <2>1. TypeOK /\ TypeOK' /\ RInv'
    BY RInvNext DEF TInv, RInv
  <2>2. ASSUME NEW r \in Requests, NEW b \in Buckets PROVE Timely(r, b)'
    <3>1. /\ Refilled(b) \in Int /\ Refilled(b)' \in Int /\ Cost[b] \in Nat
          /\ sleep[r] \in Nat /\ sleep'[r] \in Nat
      BY <2>1, RefilledIs, RefilledIsNext, LimitsAssumption DEF TypeOK
    <3>2. Refilled(b)' <= Refilled(b) \/ (Tick /\ Refilled(b)' <= Refilled(b) + 1)
      BY <1>2, <2>1, TokensGrowWithTime
    <3>3. Timely(r, b)
      BY DEF TInv
    <3>4. CASE Tick
      <4>1. stage' = stage /\ sleep'[r] = Less(sleep[r])
        BY <3>4 DEF Tick
      <4> QED BY <3>1, <3>2, <3>3, <4>1 DEF Timely, Large, Less
    <3>5. ASSUME Refilled(b)' <= Refilled(b), sleep'[r] = sleep[r],
                 stage'[r] = stage[r] \/ stage'[r] # b \/ sleep[r] = 0
          PROVE  Timely(r, b)'
      BY <3>1, <3>3, <3>5 DEF Timely, Large
    <3>6. ASSUME NEW q \in Requests, NEW a \in Buckets, Repaid(q, a) \/ Takes(q, a)
          PROVE  sleep'[r] = sleep[r] /\ (stage'[r] = stage[r] \/ sleep[r] = 0)
      <4>1. sleep[q] = 0 /\ sleep' = sleep
        BY <3>6 DEF Repaid, Takes, Waits
      <4>2. r # q => stage'[r] = stage[r]
        BY <2>1, <3>6 DEF Repaid, Takes, Passes, TypeOK
      <4> QED BY <4>1, <4>2
    <3>7. ASSUME NEW q \in Requests, NEW a \in Buckets, Borrows(q, a)
          PROVE  Timely(r, b)'
      <4>1. stage' = stage /\ (r # q => sleep'[r] = sleep[r])
        BY <2>1, <3>7 DEF Borrows, TypeOK
      <4>2. CASE r # q
        BY <3>2, <3>4, <3>5, <4>1, <4>2
      <4>3. CASE r = q
        <5>1. stage[r] = a /\ Large(a)
          BY <3>7, <4>3 DEF Borrows, Waits
        <5> QED BY <4>1, <5>1 DEF Timely, Large
      <4> QED BY <4>2, <4>3
    <3>8. ASSUME NEW q \in Requests, NEW a \in Buckets, Sleeps(q, a)
          PROVE  Timely(r, b)'
      <4>1. stage' = stage /\ (r # q => sleep'[r] = sleep[r])
        BY <2>1, <3>8 DEF Sleeps, TypeOK
      <4>2. CASE r # q
        BY <3>2, <3>4, <3>5, <4>1, <4>2
      <4>3. CASE r = q /\ a # b
        <5>1. stage'[r] = a
          BY <3>8, <4>1, <4>3 DEF Sleeps, Waits
        <5> QED BY <4>3, <5>1 DEF Timely
      <4>4. CASE r = q /\ a = b
        <5>1. tokens'[b] = Refilled(b) /\ since'[b] = 0 /\ sleep'[r] = Cost[b] - Refilled(b)
          BY <2>1, <3>8, <4>4 DEF Sleeps, Missing, TypeOK
        <5>2. Refilled(b) <= Capacity
          BY <2>1, RefilledBound
        <5>3. Refilled(b)' = Refilled(b)
          BY <2>1, <3>1, <5>1, <5>2, RefilledIsNext
        <5> QED BY <3>1, <5>1, <5>3 DEF Timely
      <4> QED BY <4>2, <4>3, <4>4
    <3>9. ASSUME NEW q \in Requests, Decodes(q)
          PROVE  Timely(r, b)'
      <4>1. UNCHANGED bucketVars /\ stage[q] = "decode" /\ (r # q => stage'[r] = stage[r])
        BY <2>1, <3>9 DEF Decodes, TypeOK
      <4>2. r = q => sleep[r] = 0
        BY <4>1 DEF TInv, RInv, Undecoded
      <4> QED BY <3>2, <3>4, <3>5, <4>1, <4>2 DEF bucketVars
    <3>10. CASE Starts \/ \E q \in Requests : ThreadTakes(q) \/ Returns(q) \/ TimesOut(q)
      <4>1. UNCHANGED bucketVars /\ (stage'[r] = stage[r] \/ stage'[r] \in {"held", "done"})
        BY <2>1, <3>10 DEF Starts, ThreadTakes, Returns, TimesOut, TypeOK
      <4>2. "held" # b /\ "done" # b
        BY DEF Buckets
      <4> QED BY <3>2, <3>4, <3>5, <4>1, <4>2 DEF bucketVars
    <3> QED BY <1>2, <3>2, <3>4, <3>5, <3>6, <3>7, <3>8, <3>9, <3>10 DEF Next
  <2> QED BY <2>1, <2>2 DEF TInv
<1> QED BY <1>1, <1>2

\* A request that has computed how long its tokens will take never finds itself asleep
\* when they are there, whoever took tokens in between (limited.py 166-167).
THEOREM WaitersSleepNoLonger == Spec => []NoOversleep
<1>1. Init => TInv
  <2> SUFFICES ASSUME Init PROVE TInv
    OBVIOUS
  <2>1. \A r \in Requests : sleep[r] = 0
    BY DEF Init
  <2> QED BY <2>1, RInvInitial DEF TInv, Timely
<1>2. TInv /\ [Next]_vars => TInv'
  BY TInvNext
<1>3. TInv => NoOversleep
  <2> SUFFICES ASSUME TInv, NEW r \in Requests, NEW b \in Buckets, stage[r] = b, ~Large(b)
               PROVE  sleep[r] <= Max({0, Cost[b] - Refilled(b)})
    BY DEF NoOversleep
  <2>1. sleep[r] \in Nat /\ Refilled(b) \in Int /\ Cost[b] \in Nat
    BY RefilledIs, LimitsAssumption DEF TInv, RInv, TypeOK
  <2>2. sleep[r] = 0 \/ sleep[r] + Refilled(b) <= Cost[b]
    BY DEF TInv, Timely
  <2>3. 0 \in Int /\ Cost[b] - Refilled(b) \in Int
    BY <2>1
  <2>4. Max({0, Cost[b] - Refilled(b)})
          = IF 0 <= Cost[b] - Refilled(b) THEN Cost[b] - Refilled(b) ELSE 0
    BY <2>3, MaxOfTwo
  <2> QED BY <2>1, <2>2, <2>4
<1> QED BY <1>1, <1>2, <1>3, PTL DEF Spec
-----------------------------------------------------------------------------
(* Those that are called. *)

\* At most max_concurrent requests hold the semaphore, and a coroutine runs only for one of them.
HInv ==
    /\ RInv
    /\ IsFiniteSet(Holders) /\ Cardinality(Holders) <= MaxConcurrent
    /\ ~sync => \A r \in Requests : api[r] # "none" => stage[r] = "held"

LEMMA HInvNext == HInv /\ [Next]_vars => HInv'
<1> SUFFICES ASSUME HInv, [Next]_vars PROVE HInv'
  OBVIOUS
<1>1. CASE UNCHANGED vars
  <2>1. RInv'
    BY RInvNext DEF HInv
  <2> QED BY <1>1, <2>1 DEF vars, HInv, Holders
<1>2. CASE Next
  <2>1. TypeOK /\ RInv' /\ IsFiniteSet(Holders) /\ Cardinality(Holders) <= MaxConcurrent
    BY RInvNext DEF HInv, RInv
  <2>2. MaxConcurrent \in Nat /\ Cardinality(Holders) \in Nat
    BY <2>1, LimitsAssumption, FS_CardinalityType
  <2>3. ASSUME Holders' \subseteq Holders
        PROVE  IsFiniteSet(Holders') /\ Cardinality(Holders') <= MaxConcurrent
    <3>1. IsFiniteSet(Holders') /\ Cardinality(Holders') <= Cardinality(Holders)
      BY <2>1, <2>3, FS_Subset
    <3>2. Cardinality(Holders') \in Nat
      BY <3>1, FS_CardinalityType
    <3> QED BY <2>1, <2>2, <3>1, <3>2
  <2>4. CASE Starts
    <3>1. PICK r \in Requests : /\ stage' = [stage EXCEPT ![r] = "held"]
                                /\ api' = [api EXCEPT ![r] = IF sync THEN "pending" ELSE "running"]
      <4>1. Head(queue) \in Requests
        BY <2>1, <2>4, HeadTailProperties DEF Starts, TypeOK
      <4> QED BY <2>4, <4>1 DEF Starts
    <3>2. Cardinality(Holders) < MaxConcurrent /\ sync' = sync
      BY <2>4 DEF Starts, SlotFree
    <3>3. Holders' = Holders \cup {r}
      BY <2>1, <3>1 DEF Holders, TypeOK
    <3>4. /\ IsFiniteSet(Holders \cup {r})
          /\ Cardinality(Holders \cup {r})
               = IF r \in Holders THEN Cardinality(Holders) ELSE Cardinality(Holders) + 1
      BY <2>1, FS_AddElement
    <3>5. ~sync => \A q \in Requests : api'[q] # "none" => stage'[q] = "held"
      BY <2>1, <3>1 DEF HInv, TypeOK
    <3> QED BY <2>1, <2>2, <3>2, <3>3, <3>4, <3>5 DEF HInv
  <2>5. ASSUME NEW r \in Requests, ThreadTakes(r) \/ Returns(r) \/ TimesOut(r)
        PROVE  HInv'
    <3>1. \A q \in Requests : q # r => stage'[q] = stage[q] /\ api'[q] = api[q]
      BY <2>1, <2>5 DEF ThreadTakes, Returns, TimesOut, TypeOK
    <3>2. sync' = sync /\ (stage'[r] = stage[r] \/ stage'[r] = "done")
      BY <2>1, <2>5 DEF ThreadTakes, Returns, TimesOut, TypeOK
    <3>3. Holders' \subseteq Holders
      BY <3>1, <3>2 DEF Holders
    <3>4. ASSUME ~sync
          PROVE  \/ api'[r] = "none"
                 \/ api[r] # "none" /\ stage'[r] = stage[r]
      <4>1. CASE ThreadTakes(r)
        BY <4>1 DEF ThreadTakes
      <4>2. CASE Returns(r)
        BY <2>1, <4>2 DEF Returns, TypeOK
      <4>3. CASE TimesOut(r)
        BY <2>1, <3>4, <4>3 DEF TimesOut, Cancelled, TypeOK
      <4> QED BY <2>5, <4>1, <4>2, <4>3
    <3>5. ~sync => \A q \in Requests : api'[q] # "none" => stage'[q] = "held"
      BY <3>1, <3>4 DEF HInv
    <3> QED BY <2>1, <2>3, <3>2, <3>3, <3>5 DEF HInv
  <2>6. CASE \E r \in Requests, b \in Buckets :
               Borrows(r, b) \/ Repaid(r, b) \/ Takes(r, b) \/ Sleeps(r, b)
    <3>1. PICK r \in Requests, b \in Buckets :
               Borrows(r, b) \/ Repaid(r, b) \/ Takes(r, b) \/ Sleeps(r, b)
      BY <2>6
    <3>2. b # "held" /\ sync' = sync /\ api' = api
      BY <3>1 DEF Buckets, Borrows, Repaid, Takes, Sleeps, callVars
    <3>3. stage[r] = b
      BY <3>1 DEF Borrows, Repaid, Takes, Sleeps, Waits
    <3>4. stage' = stage \/ Passes(r, b)
      BY <3>1 DEF Borrows, Repaid, Takes, Sleeps
    <3>5. \A q \in Requests : stage'[q] = stage[q] \/ (q = r /\ stage'[q] \in {"tpm", "queued"})
      BY <2>1, <3>4 DEF Passes, TypeOK
    <3>6. \A q \in Requests : stage'[q] = "held" <=> stage[q] = "held"
      BY <3>2, <3>3, <3>5
    <3>7. Holders' = Holders
      BY <3>6 DEF Holders
    <3> QED BY <2>1, <3>2, <3>6, <3>7 DEF HInv
  <2>7. CASE Tick
    BY <2>1, <2>7 DEF Tick, HInv, Holders
  <2>8. ASSUME NEW r \in Requests, Decodes(r) PROVE HInv'
    <3>1. sync' = sync /\ api' = api /\ stage[r] = "decode" /\ stage' = [stage EXCEPT ![r] = "rpm"]
      BY <2>8 DEF Decodes, callVars
    <3>2. \A q \in Requests : stage'[q] = "held" <=> stage[q] = "held"
      BY <2>1, <3>1 DEF TypeOK
    <3>3. Holders' = Holders
      BY <3>2 DEF Holders
    <3> QED BY <2>1, <3>1, <3>2, <3>3 DEF HInv
  <2> QED BY <1>2, <2>4, <2>5, <2>6, <2>7, <2>8 DEF Next
<1> QED BY <1>1, <1>2

\* No more than max_concurrent calls that are waited for run at any time (limited.py 428-458),
\* however the requests come through the buckets and however their timeouts race with the answers.
THEOREM CallsWithinLimit == Spec => []ConcurrencyLimited
<1>1. Init => HInv
  <2> SUFFICES ASSUME Init PROVE HInv
    OBVIOUS
  <2>1. RInv
    BY RInvInitial
  <2>2. Holders = {} /\ \A r \in Requests : api[r] = "none"
    BY DEF Init, Holders
  <2> QED BY <2>1, <2>2, FS_EmptySet, LimitsAssumption DEF HInv
<1>2. HInv /\ [Next]_vars => HInv'
  BY HInvNext
<1>3. HInv => ConcurrencyLimited
  <2> SUFFICES ASSUME HInv PROVE ConcurrencyLimited
    OBVIOUS
  <2> DEFINE called == {r \in Running : sync => stage[r] = "held"}
  <2>1. called \subseteq Holders
    BY DEF HInv, Running, Holders
  <2>2. IsFiniteSet(called) /\ Cardinality(called) <= Cardinality(Holders)
    BY <2>1, FS_Subset DEF HInv
  <2>3. Cardinality(called) \in Nat /\ Cardinality(Holders) \in Nat /\ MaxConcurrent \in Nat
    BY <2>2, FS_CardinalityType, LimitsAssumption DEF HInv
  <2> QED BY <2>2, <2>3 DEF HInv, ConcurrencyLimited
<1> QED BY <1>1, <1>2, <1>3, PTL DEF Spec
=============================================================================
