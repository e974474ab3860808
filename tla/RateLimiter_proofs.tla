------------------------- MODULE RateLimiter_proofs -------------------------
(***************************************************************************)
(* Proofs about RateLimiter, for every capacity, rate, delay and fault:    *)
(* the bound on the granted weight, the bound on the wait, the pump that   *)
(* always runs, the cooldown and its staged recovery.                      *)
(***************************************************************************)
EXTENDS RateLimiter, SequenceTheorems, WellFoundedInduction, TLAPS

(* What the bucket holds, or would if it were refilled now, and what the   *)
(* leaky bucket of the history holds never exceed the capacity together.   *)
Available == Refilled(now - lastRefillAt)

BucketTyped ==
  /\ now \in Nat /\ lastRefillAt \in 0..now
  /\ tokens \in 0..Capacity /\ meter \in Nat
  /\ queue \in Seq(Requests)

BucketBalance == BucketTyped /\ meter + Available <= Capacity

(* A tick adds at most Rate to what is available, and nothing beyond the   *)
(* capacity.                                                               *)
LEMMA TickRefills ==
  ASSUME BucketTyped
  PROVE  /\ Refilled(now + 1 - lastRefillAt) \in 0..Capacity
         /\ Refilled(now + 1 - lastRefillAt) <= Available + Rate
         /\ Available \in 0..Capacity
<1> DEFINE gained == (now - lastRefillAt) * Rate
<1>1. gained \in Nat /\ (now + 1 - lastRefillAt) * Rate = gained + Rate
  <2>1. ASSUME NEW a \in Nat, NEW b \in Nat PROVE a * b \in Nat /\ (a + 1) * b = a * b + b
    OBVIOUS
  <2>2. now - lastRefillAt \in Nat /\ now + 1 - lastRefillAt = (now - lastRefillAt) + 1
    BY DEF BucketTyped
  <2> QED BY <2>1, <2>2, BucketAssumption
<1> HIDE DEF gained
<1>2. Available = Least(Capacity, tokens + gained)
  BY DEF Available, Refilled, gained
<1>3. Refilled(now + 1 - lastRefillAt) = Least(Capacity, tokens + gained + Rate)
  BY <1>1, BucketAssumption DEF Refilled, BucketTyped
<1> QED BY <1>1, <1>2, <1>3, BucketAssumption DEF BucketTyped, Least

(* The leaky bucket loses at least what a tick makes available.           *)
LEMMA Leak ==
  ASSUME NEW m \in Nat, NEW a \in Nat, NEW b \in Nat, NEW r \in Nat, NEW c \in Nat,
         m + a <= c, b <= c, b <= a + r
  PROVE  Most(m - r, 0) + b <= c
BY DEF Most

(* A bucket just refilled makes exactly its tokens available.              *)
LEMMA SpentRefill ==
  ASSUME BucketTyped, NEW n \in 0..Capacity, tokens' = n, lastRefillAt' = now, now' = now
  PROVE  Available' = n
<1>1. (now' - lastRefillAt') * Rate = 0
  BY BucketAssumption DEF BucketTyped
<1> QED BY <1>1, BucketAssumption DEF Available, Refilled, Least

(* Removing a request leaves a sequence of requests.                       *)
LEMMA RemoveAtTyped ==
  ASSUME NEW S, NEW s \in Seq(S), NEW i \in DOMAIN s
  PROVE  RemoveAt(s, i) \in Seq(S)
<1>1. i \in 1..Len(s) /\ Len(s) \in Nat /\ \A j \in 1..Len(s) : s[j] \in S
  OBVIOUS
<1>2. SubSeq(s, 1, i - 1) \in Seq(S)
  <2>1. \A j \in 1..(i - 1) : s[j] \in S
    BY <1>1
  <2> QED BY <1>1, <2>1, SubSeqProperties
<1>3. SubSeq(s, i + 1, Len(s)) \in Seq(S)
  <2>1. \A j \in (i + 1)..Len(s) : s[j] \in S
    BY <1>1
  <2> QED BY <1>1, <2>1, SubSeqProperties
<1> QED BY <1>2, <1>3, ConcatProperties DEF RemoveAt

(* A nonempty set of naturals has a least element.                         *)
LEMMA LeastNumber ==
  ASSUME NEW T \in SUBSET Nat, T # {}
  PROVE  \E x \in T : \A y \in T : x <= y
<1>1. PICK x \in T : \A y \in T : ~(<<y, x>> \in OpToRel(<, Nat))
  BY WFMin, NatLessThanWellFounded
<1>2. \A y \in T : ~(y < x)
  BY <1>1 DEF OpToRel
<1> QED BY <1>2

(* A queue that is not empty has a request to serve next.                  *)
LEMMA NextExists ==
  ASSUME queue \in Seq(Requests), queue # <<>>
  PROVE  nextIndex \in DOMAIN queue /\ nextRequest \in Requests
<1> DEFINE rank(i) == Rank(queue[i].priority)
<1>1. DOMAIN queue # {} /\ DOMAIN queue \subseteq Nat /\ \A i \in DOMAIN queue : queue[i] \in Requests
  <2>1. Len(queue) \in Nat /\ DOMAIN queue = 1..Len(queue) /\ Len(queue) # 0
    BY EmptySeq, LenProperties
  <2> QED BY <2>1, ElementOfSeq
<1>2. \A i \in DOMAIN queue : rank(i) \in Nat
  BY DEF Rank
<1> HIDE DEF rank
<1>3. PICK r \in {rank(i) : i \in DOMAIN queue} : \A q \in {rank(i) : i \in DOMAIN queue} : r <= q
  <2>1. {rank(i) : i \in DOMAIN queue} \subseteq Nat /\ {rank(i) : i \in DOMAIN queue} # {}
    BY <1>1, <1>2
  <2> QED BY <2>1, LeastNumber
<1>4. PICK i \in {k \in DOMAIN queue : rank(k) = r} :
             \A k \in {k \in DOMAIN queue : rank(k) = r} : i <= k
  <2>1. {k \in DOMAIN queue : rank(k) = r} # {} /\ {k \in DOMAIN queue : rank(k) = r} \subseteq Nat
    BY <1>1, <1>3
  <2> QED BY <2>1, LeastNumber
<1>5. \A j \in (DOMAIN queue) \ {i} : rank(i) < rank(j) \/ (rank(i) = rank(j) /\ i < j)
  <2>1. i \in DOMAIN queue /\ rank(i) = r
    BY <1>4
  <2> SUFFICES ASSUME NEW j \in DOMAIN queue, j # i
               PROVE  rank(i) < rank(j) \/ (rank(i) = rank(j) /\ i < j)
    OBVIOUS
  <2>2. r <= rank(j) /\ r \in Nat /\ rank(j) \in Nat /\ i \in Nat /\ j \in Nat
    BY <1>1, <1>2, <1>3, <2>1
  <2>3. rank(j) = r => i <= j
    BY <1>4
  <2>4. rank(i) = rank(j) => i < j
    BY <2>1, <2>2, <2>3
  <2> QED BY <2>1, <2>2, <2>4
<1> QED BY <1>1, <1>4, <1>5 DEF nextIndex, nextRequest, rank

(* What was granted and what may still be granted are in balance at the    *)
(* start, and every step keeps it.                                         *)
THEOREM AlwaysBalanced == Spec => []BucketBalance
<1>1. Init => BucketBalance
  <2> SUFFICES ASSUME Init PROVE BucketBalance
    OBVIOUS
  <2>1. (now - lastRefillAt) * Rate = 0
    BY BucketAssumption DEF Init
  <2>2. Available = Capacity
    BY <2>1, BucketAssumption DEF Available, Refilled, Least, Init
  <2> QED BY <2>2, BucketAssumption DEF BucketBalance, BucketTyped, Init
<1>2. BucketBalance /\ [Next]_vars => BucketBalance'
  <2> SUFFICES ASSUME BucketBalance, [Next]_vars PROVE BucketBalance'
    OBVIOUS
  <2> USE BucketAssumption, DelayAssumption
  <2>0. BucketTyped /\ Available \in 0..Capacity /\ meter + Available <= Capacity
    BY TickRefills DEF BucketBalance
  <2>1. CASE UNCHANGED <<now, bucket, meter>> /\ queue' \in Seq(Requests)
    BY <2>0, <2>1 DEF BucketBalance, BucketTyped, Available, Refilled, Least, bucket
  <2>2. ASSUME NEW policy \in Policies, Acquire(policy) PROVE BucketBalance'
    <3>1. [priority |-> policy[1], weight |-> policy[2], deadline |-> now + MaximumQueueWait]
            \in Requests
      BY <2>0 DEF BucketTyped, Requests, Policies, Priorities
    <3>2. queue' \in Seq(Requests)
      BY <2>0, <2>2, <3>1 DEF Acquire, BucketTyped
    <3> QED BY <2>1, <2>2, <3>2 DEF Acquire, history
  <2>3. ASSUME NEW until \in now + 1 .. now + MaxCooldown, EnterCooldown(until)
        PROVE BucketBalance'
    <3>1. Available' = 0
      BY <2>0, <2>3, SpentRefill DEF EnterCooldown
    <3> QED BY <2>0, <2>3, <3>1 DEF EnterCooldown, BucketBalance, BucketTyped
  <2>4. CASE Stop
    BY <2>0, <2>1, <2>4 DEF Stop, history
  <2>5. CASE Restart
    <3>1. Available' = Capacity
      BY <2>0, <2>5, SpentRefill DEF Restart
    <3> QED BY <2>0, <2>5, <3>1 DEF Restart, BucketBalance, BucketTyped
  <2>6. CASE Tick
    <3>1. Available' = Refilled(now + 1 - lastRefillAt)
      <4>1. tokens' = tokens /\ lastRefillAt' = lastRefillAt /\ now' = now + 1
        BY <2>6 DEF Tick, bucket
      <4>2. tokens' + (now' - lastRefillAt') * Rate = tokens + (now + 1 - lastRefillAt) * Rate
        BY <2>0, <4>1 DEF BucketTyped
      <4> QED BY <4>2 DEF Available, Refilled
    <3>2. meter' + Available' <= Capacity
      <4>1. Available' \in 0..Capacity /\ Available' <= Available + Rate
        BY <2>0, <3>1, TickRefills
      <4>2. meter' = Most(meter - Rate, 0) /\ meter \in Nat
        BY <2>0, <2>6 DEF Tick, BucketTyped
      <4>3. Available \in Nat /\ meter + Available <= Capacity /\ Rate \in Nat
        BY <2>0
      <4>4. Available' \in Nat
        BY <4>1
      <4>5. meter \in Nat /\ Capacity \in Nat /\ Available' <= Capacity /\ Available' <= Available + Rate
        BY <4>1, <4>2
      <4>6. Most(meter - Rate, 0) + Available' <= Capacity
        BY <4>3, <4>4, <4>5, Leak
      <4> QED BY <4>2, <4>6
    <3> QED BY <2>0, <2>6, <3>2 DEF Tick, bucket, BucketBalance, BucketTyped, Most
  <2>7. CASE PumpReturns \/ AwaitCooldown \/ AwaitStage \/ Wake \/ PumpEnds
    BY <2>0, <2>1, <2>7 DEF PumpReturns, AwaitCooldown, AwaitStage, Wake, PumpEnds, history,
       BucketTyped
  <2>8. CASE RejectExpired
    <3>1. queue' \in Seq(Requests)
      BY <2>0, <2>8, RemoveAtTyped DEF RejectExpired, BucketTyped
    <3> QED BY <2>1, <2>8, <3>1 DEF RejectExpired, history
  <2>9. CASE EndCooldown
    <3>1. queue' \in Seq(Requests)
      BY <2>0, <2>9, EmptySeq DEF EndCooldown, BucketTyped
    <3> QED BY <2>1, <2>9, <3>1 DEF EndCooldown, history
  <2>10. CASE Serve
    <3>1. UNCHANGED now /\ lastRefillAt' = now
      BY <2>10 DEF Serve, CreditedUntil
    <3>2. ASSUME tokens' = Available, UNCHANGED <<queue, meter>> PROVE BucketBalance'
      <4>1. Available' = Available
        BY <2>0, <3>1, <3>2, SpentRefill
      <4> QED BY <2>0, <3>1, <3>2, <4>1 DEF BucketBalance, BucketTyped
    <3>3. ASSUME Available >= nextRequest.weight,
                 tokens' = Available - nextRequest.weight,
                 queue' = RemoveAt(queue, nextIndex),
                 meter' = meter + nextRequest.weight
          PROVE  BucketBalance'
      <4>1. nextIndex \in DOMAIN queue /\ nextRequest.weight \in 1..3
        BY <2>0, <2>10, NextExists DEF Serve, Serving, BucketTyped, Requests
      <4>2. Available - nextRequest.weight \in 0..Capacity
        BY <2>0, <3>3, <4>1
      <4>3. Available' = Available - nextRequest.weight
        BY <2>0, <3>1, <3>3, <4>2, SpentRefill
      <4>4. queue' \in Seq(Requests)
        BY <2>0, <3>3, <4>1, RemoveAtTyped DEF BucketTyped
      <4>5. meter' \in Nat /\ meter' + Available' <= Capacity
        <5>1. meter \in Nat /\ meter' = meter + nextRequest.weight
          BY <2>0, <3>3 DEF BucketTyped
        <5> QED BY <2>0, <4>1, <4>3, <5>1
      <4> QED BY <2>0, <3>1, <3>3, <4>2, <4>4, <4>5 DEF BucketBalance, BucketTyped
    <3> QED BY <2>10, <3>2, <3>3 DEF Serve, Available
  <2>11. CASE Pump
    BY <2>7, <2>8, <2>9, <2>10, <2>11 DEF Pump
  <2>12. CASE UNCHANGED vars
    BY <2>0, <2>1, <2>12 DEF vars, history, BucketTyped
  <2> QED BY <2>2, <2>3, <2>4, <2>5, <2>6, <2>11, <2>12 DEF Next
<1> QED BY <1>1, <1>2, PTL DEF Spec

(* WeightedRateLimiter never grants more than its capacity and rate allow, *)
(* for any of their values and any delays.                                 *)
THEOREM GrantedWeightBounded == Spec => []RateBound
<1>1. BucketBalance => RateBound
  <2>1. ASSUME BucketBalance PROVE Available \in 0..Capacity /\ meter \in Nat
    BY <2>1, TickRefills DEF BucketBalance, BucketTyped
  <2> QED BY <2>1, BucketAssumption DEF BucketBalance, RateBound
<1> QED BY <1>1, AlwaysBalanced, PTL

-----------------------------------------------------------------------------
(* The queue.  While the pump sleeps it means to wake no later than any    *)
(* deadline, those of requests that arrive meanwhile included, because a   *)
(* new deadline is never earlier than a wake-up set before.                *)
Alarm == IF pump = "waiting" THEN wakeAt ELSE 0
Waiting(time, alarm) ==
  {r \in Requests : time <= r.deadline /\ r.deadline <= time + MaximumQueueWait /\ alarm <= r.deadline}

QueueInv ==
  /\ now \in Nat /\ wakeAt \in Nat
  /\ pump \in {"idle", "running", "waiting", "ending"}
  /\ queue \in Seq(Waiting(now, Alarm))
  /\ Alarm <= now + MaximumQueueWait
  /\ NoLostWakeup

LEMMA SeqOfElements ==
  ASSUME NEW S, NEW T, NEW s \in Seq(S), \A i \in DOMAIN s : s[i] \in T PROVE s \in Seq(T)
<1>1. Len(s) \in Nat /\ s \in [1..Len(s) -> S] /\ DOMAIN s = 1..Len(s)
  BY LenProperties
<1>2. s \in [1..Len(s) -> T]
  BY <1>1
<1> QED BY <1>1, <1>2, SeqDef

LEMMA NonEmptyDomain ==
  ASSUME NEW S, NEW s \in Seq(S), s # <<>>
  PROVE  DOMAIN s # {} /\ \A i \in DOMAIN s : s[i] \in S
<1>1. Len(s) \in Nat \ {0} /\ DOMAIN s = 1..Len(s)
  BY EmptySeq, LenProperties
<1>2. 1 \in DOMAIN s
  BY <1>1
<1>3. \A i \in DOMAIN s : s[i] \in S
  BY <1>1, ElementOfSeq
<1> QED BY <1>2, <1>3

LEMMA WaitingShrinks ==
  ASSUME NEW n \in Nat, NEW a \in Nat, NEW b \in Nat, b <= a
  PROVE  Waiting(n, a) \subseteq Waiting(n, b) /\ Waiting(n, a) \subseteq Requests
BY DEF Waiting, Requests

LEMMA WaitingGoesOn ==
  ASSUME NEW n \in Nat, NEW a \in Nat, n + 1 <= a PROVE Waiting(n, a) \subseteq Waiting(n + 1, a)
BY DelayAssumption DEF Waiting, Requests

LEMMA QueueTyped == ASSUME QueueInv PROVE queue \in Seq(Requests) /\ Alarm \in Nat
<1>1. Alarm \in Nat
  BY DEF QueueInv, Alarm
<1>2. Waiting(now, Alarm) \subseteq Requests
  BY DEF Waiting
<1> QED BY <1>1, <1>2, SeqMonotonic DEF QueueInv

(* The sleep that Wait sets ends before the first deadline.                *)
LEMMA WaitBeforeDeadlines ==
  ASSUME now \in Nat, NEW a \in Nat, queue \in Seq(Waiting(now, a)), queue # <<>>, NoneExpired,
         NEW ticks \in Nat, Wait(ticks), UNCHANGED <<now, queue>>
  PROVE  /\ wakeAt' \in Nat /\ pump' = "waiting" /\ Alarm' = wakeAt'
         /\ queue' \in Seq(Waiting(now', Alarm')) /\ Alarm' <= now' + MaximumQueueWait
<1> USE DelayAssumption
<1> DEFINE T == {queue[i].deadline - now : i \in DOMAIN queue}
<1>1. DOMAIN queue # {} /\ \A i \in DOMAIN queue : queue[i] \in Waiting(now, a)
  BY NonEmptyDomain
<1>2. \A i \in DOMAIN queue : /\ queue[i].deadline \in Nat /\ queue[i].deadline > now
                               /\ queue[i].deadline <= now + MaximumQueueWait
  BY <1>1 DEF NoneExpired, Expired, Waiting, Requests
<1>3. T # {} /\ T \subseteq Nat /\ \A x \in T : 1 <= x /\ x <= MaximumQueueWait
  BY <1>1, <1>2
<1>4. Min(T) \in T /\ \A y \in T : Min(T) <= y
  <2> HIDE DEF T
  <2>1. \E x \in T : \A y \in T : x <= y
    BY <1>3, LeastNumber
  <2> QED BY <2>1 DEF Min
<1>5. timeToDeadline = Min(T)
  <2>1. timeToDeadline = Most(1, Min(T))
    BY DEF timeToDeadline
  <2> HIDE DEF T
  <2>2. Min(T) \in Nat /\ 1 <= Min(T)
    BY <1>3, <1>4
  <2> QED BY <2>1, <2>2 DEF Most
<1>6. /\ BoundedWait(ticks) \in Nat /\ BoundedWait(ticks) <= MaximumQueueWait
      /\ \A i \in DOMAIN queue : now + BoundedWait(ticks) <= queue[i].deadline
  <2>1. BoundedWait(ticks) = Least(ticks, Min(T))
    BY <1>5 DEF BoundedWait
  <2>2. \A i \in DOMAIN queue : queue[i].deadline - now \in T
    OBVIOUS
  <2> HIDE DEF T
  <2>3. Min(T) \in Nat /\ Min(T) <= MaximumQueueWait
    BY <1>3, <1>4
  <2>4. BoundedWait(ticks) \in Nat /\ BoundedWait(ticks) <= Min(T)
    BY <2>1, <2>3 DEF Least
  <2>5. ASSUME NEW i \in DOMAIN queue PROVE now + BoundedWait(ticks) <= queue[i].deadline
    BY <1>2, <1>4, <2>2, <2>4, <2>3
  <2> QED BY <2>4, <2>5, <2>3
<1>7. wakeAt' = now + BoundedWait(ticks) /\ pump' = "waiting"
  BY DEF Wait
<1>8. \A i \in DOMAIN queue : queue[i] \in Waiting(now, now + BoundedWait(ticks))
  BY <1>1, <1>6 DEF Waiting
<1>9. queue \in Seq(Waiting(now, now + BoundedWait(ticks)))
  BY <1>8, SeqOfElements
<1> QED BY <1>6, <1>7, <1>9 DEF Alarm

LEMMA RoundedUp == ASSUME NEW a \in Nat, NEW c \in Nat \ {0} PROVE a \div c \in Nat
BY Z3

(* What each kind of step makes of the queue.                              *)
LEMMA SameQueue ==
  ASSUME QueueInv, UNCHANGED <<now, queue>>, pump' \in {"idle", "running", "ending"},
         wakeAt' \in {wakeAt, 0}, NoLostWakeup'
  PROVE  QueueInv'
<1>1. Alarm \in Nat /\ Alarm' = 0 /\ now \in Nat
  BY QueueTyped DEF Alarm, QueueInv
<1>2. queue \in Seq(Waiting(now, 0))
  BY <1>1, WaitingShrinks, SeqMonotonic DEF QueueInv
<1>3. wakeAt' \in Nat /\ Alarm' <= now' + MaximumQueueWait
  BY <1>1, DelayAssumption DEF QueueInv
<1> QED BY <1>1, <1>2, <1>3 DEF QueueInv

LEMMA ShorterQueue ==
  ASSUME QueueInv, UNCHANGED now, pump = "running", pump' = "running", UNCHANGED wakeAt,
         NEW i \in DOMAIN queue, queue' = RemoveAt(queue, i), NoLostWakeup'
  PROVE  QueueInv'
<1>1. Alarm = 0 /\ Alarm' = 0 /\ now \in Nat /\ wakeAt \in Nat
  BY DEF Alarm, QueueInv
<1>2. queue' \in Seq(Waiting(now, 0))
  BY <1>1, RemoveAtTyped DEF QueueInv
<1> QED BY <1>1, <1>2, DelayAssumption DEF QueueInv

LEMMA EmptiedQueue ==
  ASSUME QueueInv, UNCHANGED now, queue' = <<>>, pump' \in {"idle", "running", "ending"},
         wakeAt' \in {wakeAt, 0}
  PROVE  QueueInv'
<1>1. Alarm' = 0 /\ now \in Nat /\ wakeAt' \in Nat
  BY DEF Alarm, QueueInv
<1>2. queue' \in Seq(Waiting(now', Alarm'))
  BY EmptySeq
<1> QED BY <1>1, <1>2, DelayAssumption DEF QueueInv, NoLostWakeup

LEMMA SleepingPump ==
  ASSUME QueueInv, Running, queue # <<>>, NoneExpired, NEW ticks \in Nat, Wait(ticks),
         UNCHANGED <<now, queue, stopped>>
  PROVE  QueueInv'
<1>1. now \in Nat /\ Alarm \in Nat /\ queue \in Seq(Waiting(now, Alarm))
  BY QueueTyped DEF QueueInv
<1>2. /\ wakeAt' \in Nat /\ pump' = "waiting"
      /\ queue' \in Seq(Waiting(now', Alarm')) /\ Alarm' <= now' + MaximumQueueWait
  BY <1>1, WaitBeforeDeadlines
<1> QED BY <1>1, <1>2 DEF QueueInv, NoLostWakeup

LEMMA AcquireQueue ==
  ASSUME QueueInv, NEW policy \in Policies, Acquire(policy) PROVE QueueInv'
<1> DEFINE request == [priority |-> policy[1], weight |-> policy[2], deadline |-> now + MaximumQueueWait]
<1>1. now \in Nat /\ Alarm \in Nat /\ queue \in Seq(Waiting(now, Alarm))
      /\ Alarm <= now + MaximumQueueWait
  BY QueueTyped DEF QueueInv
<1>2. request \in Waiting(now, Alarm)
  BY <1>1, DelayAssumption DEF Waiting, Requests, Policies, Priorities
<1>3. queue' = Append(queue, request) /\ ~stopped /\ UNCHANGED <<now, wakeAt, stopped>>
  BY DEF Acquire
<1> HIDE DEF request
<1>4. queue' \in Seq(Waiting(now, Alarm)) /\ queue' # <<>>
  BY <1>1, <1>2, <1>3
<1>5. pump' = IF pump = "idle" THEN "running" ELSE pump
  BY <1>3, <1>4 DEF Acquire, StartedPump
<1>6. Alarm' = Alarm
  BY <1>3, <1>5 DEF Alarm
<1> QED BY <1>1, <1>3, <1>4, <1>5, <1>6 DEF QueueInv, NoLostWakeup

LEMMA TickQueue == ASSUME QueueInv, Tick PROVE QueueInv'
<1>1. now \in Nat /\ wakeAt \in Nat /\ now' = now + 1 /\ UNCHANGED <<queue, pump, wakeAt, stopped>>
  BY DEF Tick, QueueInv
<1>2. NoLostWakeup'
  BY <1>1 DEF QueueInv, NoLostWakeup
<1>3. CASE pump = "idle"
  <2>1. queue' = <<>> /\ Alarm' = 0
    BY <1>1, <1>3 DEF QueueInv, NoLostWakeup, Alarm
  <2>2. queue' \in Seq(Waiting(now', Alarm'))
    BY <2>1, EmptySeq
  <2> QED BY <1>1, <1>2, <2>1, <2>2, DelayAssumption DEF QueueInv
<1>4. CASE pump = "waiting" /\ now < wakeAt
  <2>1. Alarm = wakeAt /\ Alarm' = wakeAt
    BY <1>1, <1>4 DEF Alarm
  <2>2. now + 1 <= wakeAt
    BY <1>1, <1>4
  <2>3. queue \in Seq(Waiting(now + 1, wakeAt))
    BY <1>1, <2>1, <2>2, WaitingGoesOn, SeqMonotonic DEF QueueInv
  <2>4. wakeAt <= now + MaximumQueueWait
    BY <2>1 DEF QueueInv
  <2>5. Alarm' <= now' + MaximumQueueWait
    BY <1>1, <2>1, <2>4, DelayAssumption
  <2> QED BY <1>1, <1>2, <2>1, <2>3, <2>5 DEF QueueInv
<1> QED BY <1>3, <1>4 DEF Tick

(* The ticks the pump asks for are numbers.                                *)
TimesTyped ==
  /\ cooldownUntil \in Nat \cup {None} /\ recoveryStartedAt \in Nat \cup {None}
  /\ stored \in Nat \cup {None} /\ ordered \in Nat \cup {None} /\ resume \in Nat \cup {None}

LEMMA DelayTyped ==
  ASSUME now \in Nat, TimesTyped, NEW p
  PROVE  recoveryDelay(p) \in Nat /\ Delay(p) \in Nat /\ Delay(p) <= OfflineDelay
<1>1. Delay(p) \in Nat /\ Delay(p) <= OfflineDelay
  BY DelayAssumption DEF Delay
<1>2. recoveryStartedAt \in Int
  BY DEF TimesTyped, None
<1> QED BY <1>1, <1>2 DEF recoveryDelay, Most

LEMMA QueueStep ==
  ASSUME QueueInv, BucketBalance, TimesTyped, [Next]_vars PROVE QueueInv'
<1> USE DelayAssumption
<1>1. now \in Nat /\ queue \in Seq(Requests)
  BY QueueTyped DEF QueueInv
<1>2. ASSUME NEW until \in now + 1 .. now + MaxCooldown, EnterCooldown(until) PROVE QueueInv'
  <2>1. UNCHANGED <<now, queue, wakeAt, stopped>> /\ pump' \in {pump, StartedPump(queue)}
    BY <1>2 DEF EnterCooldown
  <2>2. StartedPump(queue) = pump
    BY DEF StartedPump, QueueInv, NoLostWakeup
  <2>3. UNCHANGED <<now, queue, wakeAt, stopped, pump>>
    BY <2>1, <2>2
  <2> QED BY <2>3 DEF QueueInv, Alarm, NoLostWakeup
<1>3. CASE Stop
  <2>1. queue' = <<>> /\ wakeAt' = 0 /\ UNCHANGED now /\ pump' \in {"idle", "running", "ending"}
    BY <1>3 DEF Stop, QueueInv
  <2> QED BY <2>1, EmptiedQueue
<1>4. CASE Restart
  BY <1>4, EmptiedQueue DEF Restart
<1>5. CASE PumpReturns \/ Wake \/ PumpEnds
  <2>1. /\ UNCHANGED <<now, queue, stopped>> /\ wakeAt' \in {wakeAt, 0}
        /\ pump' \in {"idle", "running", "ending"}
        /\ queue # <<>> /\ ~stopped => pump' # "idle"
    BY <1>5 DEF PumpReturns, Wake, PumpEnds, Restarted
  <2>2. NoLostWakeup'
    BY <2>1 DEF QueueInv, NoLostWakeup
  <2> QED BY <2>1, <2>2, SameQueue
<1>6. CASE RejectExpired
  <2>1. PICK i \in DOMAIN queue : queue' = RemoveAt(queue, i)
    BY <1>6 DEF RejectExpired
  <2>2. pump = "running" /\ pump' = "running" /\ UNCHANGED <<now, wakeAt, stopped>>
    BY <1>6 DEF RejectExpired, Running, Loop
  <2>3. queue # <<>>
    BY <2>1
  <2>4. NoLostWakeup'
    BY <2>2, <2>3 DEF QueueInv, NoLostWakeup
  <2> QED BY <2>1, <2>2, <2>4, ShorterQueue
<1>7. CASE AwaitCooldown
  <2>1. cooldownUntil - now \in Nat
    BY <1>1, <1>7 DEF AwaitCooldown, CoolingDown, TimesTyped, None
  <2> QED BY <1>7, <2>1, SleepingPump DEF AwaitCooldown
<1>8. CASE AwaitStage
  <2>1. recoveryDelay(nextRequest.priority) \in Nat
    BY <1>1, DelayTyped
  <2> QED BY <1>8, <2>1, SleepingPump DEF AwaitStage, Serving
<1>9. CASE EndCooldown
  <2>1. CASE UNCHANGED <<now, queue, wakeAt, stopped>> /\ pump' = "running"
    <3>1. NoLostWakeup'
      BY <2>1 DEF QueueInv, NoLostWakeup
    <3> QED BY <2>1, <3>1, SameQueue
  <2>2. CASE queue' = <<>> /\ UNCHANGED <<now, wakeAt>> /\ pump' = "ending"
    BY <2>2, EmptiedQueue
  <2> QED BY <1>9, <2>1, <2>2 DEF EndCooldown, Loop
<1>10. CASE Serve
  <2> DEFINE weight == nextRequest.weight
  <2>1. /\ Running /\ queue # <<>> /\ NoneExpired /\ UNCHANGED <<now, stopped>>
        /\ nextIndex \in DOMAIN queue /\ weight \in Nat
    BY <1>1, <1>10, NextExists DEF Serve, Serving, Requests
  <2>2. Available \in Nat
    BY TickRefills DEF BucketBalance
  <2>3. \/ queue' = RemoveAt(queue, nextIndex) /\ pump' = "running" /\ UNCHANGED wakeAt
        \/ /\ Available < weight
           /\ Wait((weight - Available + Rate - 1) \div Rate)
           /\ UNCHANGED queue
    BY <1>10 DEF Serve, Loop, Available
  <2> HIDE DEF weight
  <2>4. CASE queue' = RemoveAt(queue, nextIndex) /\ pump' = "running" /\ UNCHANGED wakeAt
    <3>1. NoLostWakeup' /\ pump = "running"
      BY <2>1, <2>4 DEF QueueInv, NoLostWakeup, Running
    <3> QED BY <2>1, <2>4, <3>1, ShorterQueue
  <2>5. CASE /\ Available < weight
             /\ Wait((weight - Available + Rate - 1) \div Rate)
             /\ UNCHANGED queue
    <3>1. weight - Available + Rate - 1 \in Nat
      BY <2>1, <2>2, <2>5, BucketAssumption
    <3>2. (weight - Available + Rate - 1) \div Rate \in Nat
      BY <3>1, RoundedUp, BucketAssumption
    <3> QED BY <2>1, <2>5, <3>2, SleepingPump
  <2> QED BY <2>3, <2>4, <2>5
<1>11. CASE UNCHANGED vars
  BY <1>11 DEF vars, QueueInv, Alarm, NoLostWakeup
<1> QED BY <1>2, <1>3, <1>4, <1>5, <1>6, <1>7, <1>8, <1>9, <1>10, <1>11, AcquireQueue, TickQueue
    DEF Next, Pump

LEMMA TimesStep == ASSUME now \in Nat, TimesTyped, [Next]_vars PROVE TimesTyped'
<1> USE DEF TimesTyped
<1>1. ASSUME NEW until \in now + 1 .. now + MaxCooldown, EnterCooldown(until) PROVE TimesTyped'
  <2>1. until \in Nat
    OBVIOUS
  <2>2. Most(cooldownUntil, until) \in Nat /\ Most(ordered, until) \in Nat /\ Most(resume, until) \in Nat
    BY <2>1 DEF Most, None
  <2> QED BY <1>1, <2>2 DEF EnterCooldown, LongestCooldown
<1>2. CASE EndCooldown
  BY <1>2 DEF EndCooldown, history
<1>3. CASE Serve
  BY <1>3 DEF Serve, RecoveryAfter
<1>4. CASE Restart
  BY <1>4 DEF Restart
<1>5. CASE UNCHANGED <<cooling, ordered, resume>>
  BY <1>5 DEF cooling
<1>6. ASSUME NEW policy \in Policies, Acquire(policy) PROVE TimesTyped'
  BY <1>5, <1>6 DEF Acquire, history
<1>7. CASE Stop \/ Tick \/ PumpReturns \/ RejectExpired \/ AwaitCooldown \/ AwaitStage
           \/ Wake \/ PumpEnds \/ UNCHANGED vars
  BY <1>5, <1>7 DEF Stop, Tick, PumpReturns, RejectExpired, AwaitCooldown, AwaitStage, Wake,
     PumpEnds, vars, history
<1> QED BY <1>1, <1>2, <1>3, <1>4, <1>6, <1>7 DEF Next, Pump

LEMMA InitQueue == Init => QueueInv /\ TimesTyped
<1> SUFFICES ASSUME Init PROVE QueueInv /\ TimesTyped
  OBVIOUS
<1>1. now = 0 /\ queue = <<>> /\ pump = "idle" /\ wakeAt = 0 /\ Alarm = 0
  BY DEF Init, Alarm
<1>2. queue \in Seq(Waiting(now, Alarm))
  BY <1>1, EmptySeq
<1>3. QueueInv
  BY <1>1, <1>2, DelayAssumption DEF QueueInv, NoLostWakeup
<1>4. TimesTyped
  BY DEF Init, TimesTyped
<1> QED BY <1>3, <1>4

THEOREM AlwaysQueueInv == Spec => [](QueueInv /\ TimesTyped)
<1>1. QueueInv /\ BucketBalance /\ TimesTyped /\ [Next]_vars => QueueInv' /\ TimesTyped'
  BY QueueStep, TimesStep DEF QueueInv
<1> QED BY <1>1, InitQueue, AlwaysBalanced, PTL DEF Spec

(* Nobody waits in the queue beyond the maximum queue wait, whatever       *)
(* cooldowns, stages and missing weight the pump sleeps for.               *)
THEOREM NobodyWaitsTooLong == Spec => []WaitIsBounded
<1>1. QueueInv => WaitIsBounded
  <2> SUFFICES ASSUME QueueInv, NEW i \in DOMAIN queue PROVE now <= queue[i].deadline
    BY DEF WaitIsBounded
  <2>1. queue[i] \in Waiting(now, Alarm)
    <3>1. queue # <<>>
      OBVIOUS
    <3> QED BY <3>1, NonEmptyDomain DEF QueueInv
  <2> QED BY <2>1 DEF Waiting
<1> QED BY <1>1, AlwaysQueueInv, PTL

(* A queue that is not empty has a pump, also when its requests came while *)
(* the last pump was ending, or the limiter was stopped.                   *)
THEOREM NobodyIsForgotten == Spec => []NoLostWakeup
<1>1. QueueInv => NoLostWakeup
  BY DEF QueueInv
<1> QED BY <1>1, AlwaysQueueInv, PTL

-----------------------------------------------------------------------------
(* Cooldowns.  The latest end GMGN ordered is over, or both the limiter    *)
(* and the database still know of it.                                      *)
CooldownKnown == ordered <= now \/ (cooldownUntil >= ordered /\ stored >= ordered)

(* The recovery.  Once no cooldown holds, the latest one the process knew  *)
(* of is over; its recovery is still noted, or is over as well.            *)
RecoveryKnown ==
  /\ cooldownUntil # None => cooldownUntil >= resume
  /\ cooldownUntil = None => resume <= now
  /\ cooldownUntil = None /\ recoveryStartedAt # None => recoveryStartedAt >= resume
  /\ cooldownUntil = None /\ recoveryStartedAt = None =>
       resume = None \/ resume + OfflineDelay <= now

LEMMA CooldownStep ==
  ASSUME now \in Nat, TimesTyped, CooldownKnown, RecoveryKnown, [Next]_vars
  PROVE  CooldownKnown' /\ RecoveryKnown'
<1> USE DelayAssumption DEF CooldownKnown, RecoveryKnown
<1>1. ASSUME NEW until \in now + 1 .. now + MaxCooldown, EnterCooldown(until)
      PROVE  CooldownKnown' /\ RecoveryKnown'
  <2>1. /\ UNCHANGED now /\ until > now /\ until \in Nat
        /\ cooldownUntil' = Most(cooldownUntil, until) /\ resume' = Most(resume, until)
        /\ \/ stored' = cooldownUntil' /\ ordered' = Most(ordered, until)
           \/ UNCHANGED <<stored, ordered>>
    BY <1>1 DEF EnterCooldown, LongestCooldown
  <2> QED BY <2>1 DEF Most, TimesTyped, None
<1>2. CASE EndCooldown
  <2>1. /\ UNCHANGED <<now, ordered, resume>> /\ cooldownUntil # None /\ ~(now < cooldownUntil)
        /\ recoveryStartedAt' = cooldownUntil /\ cooldownUntil' = None
    BY <1>2 DEF EndCooldown, CoolingDown, history
  <2> QED BY <2>1 DEF TimesTyped, None
<1>3. CASE Serve
  <2>1. /\ UNCHANGED <<now, cooldownUntil, stored, ordered, resume>> /\ cooldownUntil = None
        /\ \/ UNCHANGED recoveryStartedAt
           \/ recoveryDelay("offline") = 0 /\ recoveryStartedAt' = None
    BY <1>3 DEF Serve, Serving, RecoveryAfter
  <2>2. CASE UNCHANGED recoveryStartedAt
    BY <2>1, <2>2
  <2>3. CASE recoveryDelay("offline") = 0 /\ recoveryStartedAt' = None
    <3>1. recoveryStartedAt = None \/ recoveryStartedAt + OfflineDelay <= now
      BY <2>3 DEF recoveryDelay, Delay, Most, TimesTyped, None
    <3> QED BY <2>1, <2>3, <3>1 DEF TimesTyped, None
  <2> QED BY <2>1, <2>2, <2>3
<1>4. CASE Restart
  <2>1. /\ UNCHANGED <<now, ordered, stored>>
        /\ cooldownUntil' = stored /\ recoveryStartedAt' = stored /\ resume' = stored
    BY <1>4 DEF Restart
  <2> QED BY <2>1 DEF TimesTyped, None
<1>5. CASE Tick
  <2>1. now' = now + 1 /\ UNCHANGED <<cooldownUntil, recoveryStartedAt, stored, ordered, resume>>
    BY <1>5 DEF Tick, cooling
  <2> QED BY <2>1 DEF TimesTyped, None
<1>6. CASE UNCHANGED <<now, cooling, ordered, resume>>
  BY <1>6 DEF cooling
<1>7. ASSUME NEW policy \in Policies, Acquire(policy) PROVE CooldownKnown' /\ RecoveryKnown'
  BY <1>6, <1>7 DEF Acquire, history
<1>8. CASE Stop \/ PumpReturns \/ RejectExpired \/ AwaitCooldown \/ AwaitStage
           \/ Wake \/ PumpEnds \/ UNCHANGED vars
  BY <1>6, <1>8 DEF Stop, PumpReturns, RejectExpired, AwaitCooldown, AwaitStage, Wake,
     PumpEnds, vars, history
<1> QED BY <1>1, <1>2, <1>3, <1>4, <1>5, <1>7, <1>8 DEF Next, Pump

THEOREM AlwaysCooldownKnown == Spec => [](CooldownKnown /\ RecoveryKnown)
<1>1. Init => CooldownKnown /\ RecoveryKnown
  BY DEF Init, CooldownKnown, RecoveryKnown, None
<1>2. QueueInv /\ TimesTyped /\ CooldownKnown /\ RecoveryKnown /\ [Next]_vars
        => CooldownKnown' /\ RecoveryKnown'
  BY CooldownStep DEF QueueInv
<1> QED BY <1>1, <1>2, AlwaysQueueInv, PTL DEF Spec

(* Only Serve grants.                                                      *)
LEMMA GrantsServe == ASSUME BucketBalance, [Next]_vars, Granting PROVE Serve
<1> USE DEF Granting
<1>1. meter \in Nat /\ ~(meter > meter)
  BY DEF BucketBalance, BucketTyped
<1>2. ~Tick
  BY <1>1, BucketAssumption DEF Tick, Most
<1>3. ~Restart
  BY <1>1 DEF Restart
<1>4. meter' # meter
  BY <1>1
<1>5. ~UNCHANGED meter
  BY <1>4
<1> QED BY <1>2, <1>3, <1>5 DEF Next, Pump, Acquire, EnterCooldown, Stop, PumpReturns, RejectExpired,
       AwaitCooldown, EndCooldown, AwaitStage, Wake, PumpEnds, vars, history

(* No request passes before the end of any cooldown that was ordered and   *)
(* stored, through shorter ones, failing writes and restarts.              *)
THEOREM CooldownIsKept == Spec => CooldownRespected
<1>1. QueueInv /\ TimesTyped /\ BucketBalance /\ CooldownKnown /\ [Next]_vars
        => [Granting => now >= ordered]_vars
  <2> SUFFICES ASSUME QueueInv, TimesTyped, BucketBalance, CooldownKnown, [Next]_vars, Granting
               PROVE  now >= ordered
    OBVIOUS
  <2>1. cooldownUntil = None
    BY GrantsServe DEF Serve, Serving
  <2> QED BY <2>1 DEF QueueInv, TimesTyped, CooldownKnown, None
<1> QED BY <1>1, AlwaysQueueInv, AlwaysBalanced, AlwaysCooldownKnown, PTL DEF Spec, CooldownRespected

(* After a cooldown each priority comes back after its own delay.          *)
THEOREM RecoveryIsStaged == Spec => RecoveryStaged
<1>1. QueueInv /\ TimesTyped /\ BucketBalance /\ RecoveryKnown /\ [Next]_vars
        => [Granting /\ resume # None => now >= resume + Delay(nextRequest.priority)]_vars
  <2> DEFINE p == nextRequest.priority
  <2> SUFFICES ASSUME QueueInv, TimesTyped, BucketBalance, RecoveryKnown, [Next]_vars,
                      Granting, resume # None
               PROVE  now >= resume + Delay(p)
    OBVIOUS
  <2>1. cooldownUntil = None /\ recoveryDelay(p) = 0
    BY GrantsServe DEF Serve, Serving
  <2> HIDE DEF p
  <2>2. Delay(p) \in Nat /\ Delay(p) <= OfflineDelay
    BY DelayTyped DEF QueueInv
  <2>3. recoveryStartedAt = None \/ recoveryStartedAt + Delay(p) <= now
    BY <2>1, <2>2 DEF recoveryDelay, Most, QueueInv, TimesTyped, None
  <2> QED BY <2>1, <2>2, <2>3, DelayAssumption DEF QueueInv, TimesTyped, RecoveryKnown, None
<1> QED BY <1>1, AlwaysQueueInv, AlwaysBalanced, AlwaysCooldownKnown, PTL DEF Spec, RecoveryStaged

StoppedTyped == stopped \in BOOLEAN

(* The types of the variables, for any bucket, delays and faults.          *)
THEOREM LimiterIsTyped == Spec => []TypeOK
<1>1. Init => StoppedTyped
  BY DEF Init, StoppedTyped
<1>2. StoppedTyped /\ [Next]_vars => StoppedTyped'
  BY DEF StoppedTyped, Next, Pump, Acquire, EnterCooldown, Stop, Restart, Tick, PumpReturns, RejectExpired,
     AwaitCooldown, EndCooldown, AwaitStage, Serve, Wake, PumpEnds, vars
<1>3. QueueInv /\ TimesTyped /\ BucketBalance /\ StoppedTyped => TypeOK
  BY DEF StoppedTyped, QueueInv, TimesTyped, BucketBalance, BucketTyped, TypeOK
<1> QED BY <1>1, <1>2, <1>3, AlwaysQueueInv, AlwaysBalanced, PTL DEF Spec

-----------------------------------------------------------------------------
(* The refinement.  A cooldown that holds is the last one the process knew *)
(* of, so the one that is stored is the one a new process has to know of.  *)
SameCooldown == cooldownUntil # None => resume = cooldownUntil

LEMMA SameCooldownStep ==
  ASSUME now \in Nat, TimesTyped, RecoveryKnown, SameCooldown, [Next]_vars
  PROVE  SameCooldown'
<1> USE DEF SameCooldown
<1>1. ASSUME NEW until \in now + 1 .. now + MaxCooldown, EnterCooldown(until) PROVE SameCooldown'
  <2>1. /\ until > now /\ until \in Nat
        /\ cooldownUntil' = Most(cooldownUntil, until) /\ resume' = Most(resume, until)
    BY <1>1, DelayAssumption DEF EnterCooldown, LongestCooldown
  <2>2. CASE cooldownUntil = None
    BY <2>1, <2>2 DEF Most, TimesTyped, RecoveryKnown, None
  <2>3. CASE cooldownUntil # None
    BY <2>1, <2>3
  <2> QED BY <2>2, <2>3
<1>2. CASE EndCooldown \/ Restart
  BY <1>2 DEF EndCooldown, Restart
<1>3. CASE UNCHANGED <<cooldownUntil, resume>>
  BY <1>3
<1>4. ASSUME NEW policy \in Policies, Acquire(policy) PROVE SameCooldown'
  BY <1>3, <1>4 DEF Acquire, cooling, history
<1>5. CASE Stop \/ Tick \/ PumpReturns \/ RejectExpired \/ AwaitCooldown \/ AwaitStage \/ Serve
           \/ Wake \/ PumpEnds \/ UNCHANGED vars
  BY <1>3, <1>5 DEF Stop, Tick, PumpReturns, RejectExpired, AwaitCooldown, AwaitStage, Serve,
     Wake, PumpEnds, vars, cooling, history
<1> QED BY <1>1, <1>2, <1>4, <1>5 DEF Next, Pump

LEMMA SameRemoveAt == \A s, i : Policy!RemoveAt(s, i) = RemoveAt(s, i)
BY DEF Policy!RemoveAt, RemoveAt

(* A request that is served is granted in the stage of its own priority,   *)
(* and within the bucket.                                                  *)
LEMMA ServeGrants ==
  ASSUME BucketBalance, QueueInv, TimesTyped, RecoveryKnown, Serve
  PROVE  \/ Policy!PolicyNext
         \/ UNCHANGED Policy!policyVars
<1> USE BucketAssumption, DelayAssumption
<1> DEFINE weight == nextRequest.weight
           p == nextRequest.priority
<1>1. /\ nextIndex \in DOMAIN queue /\ p \in Priorities /\ weight \in 1..3
      /\ nextRequest = queue[nextIndex]
  BY QueueTyped, NextExists DEF Serve, Serving, Requests, nextRequest
<1>2. meter \in Nat /\ Available \in 0..Capacity /\ meter + Available <= Capacity
  BY TickRefills DEF BucketBalance, BucketTyped
<1>3. UNCHANGED <<now, stored, resume>>
  BY DEF Serve
<1>4. \/ Available >= weight /\ queue' = RemoveAt(queue, nextIndex) /\ meter' = meter + weight
      \/ UNCHANGED <<queue, meter>>
  BY DEF Serve, Available
<1>5. resume = None \/ now >= resume + Delay(p)
  <2>1. cooldownUntil = None /\ recoveryDelay(p) = 0
    BY DEF Serve, Serving
  <2> HIDE DEF p
  <2>2. Delay(p) \in Nat /\ Delay(p) <= OfflineDelay
    BY DelayTyped DEF QueueInv
  <2>3. recoveryStartedAt = None \/ recoveryStartedAt + Delay(p) <= now
    BY <2>1, <2>2 DEF recoveryDelay, Most, QueueInv, TimesTyped, None
  <2> QED BY <2>1, <2>2, <2>3 DEF QueueInv, TimesTyped, RecoveryKnown, None
<1>6. CASE /\ Available >= weight /\ queue' = RemoveAt(queue, nextIndex)
           /\ meter' = meter + weight
  <2>1. meter + weight <= Capacity
    BY <1>1, <1>2, <1>6
  <2>2. [priority \in Priorities |-> Delay(priority)][p] = Delay(p)
    BY <1>1
  <2>3. Policy!Grant(nextIndex)
    BY <1>1, <1>3, <1>5, <1>6, <2>1, <2>2, SameRemoveAt DEF Policy!Grant
  <2> QED BY <1>1, <2>3 DEF Policy!PolicyNext
<1>7. CASE UNCHANGED <<queue, meter>>
  BY <1>3, <1>7 DEF Policy!policyVars
<1> QED BY <1>4, <1>6, <1>7

LEMMA PolicyStep ==
  ASSUME BucketBalance, QueueInv, QueueInv', TimesTyped, RecoveryKnown, SameCooldown, [Next]_vars
  PROVE  [Policy!PolicyNext]_(Policy!policyVars)
<1> USE BucketAssumption, DelayAssumption
<1>0. now \in Nat /\ meter \in Nat /\ queue \in Seq(Requests)
  BY DEF BucketBalance, BucketTyped
<1>1. CASE UNCHANGED <<now, queue, meter, resume, stored>>
  BY <1>1 DEF Policy!policyVars
<1>2. ASSUME NEW policy \in Policies, Acquire(policy) PROVE Policy!PolicyNext
  <2>1. policy[1] \in Priorities /\ policy[2] \in 1..Capacity
    BY DEF Policies, Priorities
  <2>2. Policy!Arrive(policy[1], policy[2])
    BY <1>2 DEF Acquire, Policy!Arrive, cooling, history
  <2> QED BY <2>1, <2>2 DEF Policy!PolicyNext
<1>3. ASSUME NEW until \in now + 1 .. now + MaxCooldown, EnterCooldown(until)
      PROVE  Policy!PolicyNext
  <2>1. /\ until > now /\ until \in Nat /\ UNCHANGED <<now, queue, meter>>
        /\ cooldownUntil' = Most(cooldownUntil, until) /\ resume' = Most(resume, until)
        /\ stored' = cooldownUntil' \/ UNCHANGED stored
    BY <1>0, <1>3 DEF EnterCooldown, LongestCooldown
  <2>2. cooldownUntil' = resume'
    BY <1>0, <2>1 DEF Most, TimesTyped, RecoveryKnown, SameCooldown, None
  <2>3. resume' \in Nat /\ resume' > now /\ (resume = None \/ resume <= resume')
    BY <1>0, <2>1 DEF Most, TimesTyped, None
  <2>4. Policy!Order
    BY <2>1, <2>2, <2>3 DEF Policy!Order
  <2> QED BY <2>4 DEF Policy!PolicyNext
<1>4. CASE Stop
  <2>1. Policy!Fail
    BY <1>4 DEF Stop, Policy!Fail, cooling, history
  <2> QED BY <2>1 DEF Policy!PolicyNext
<1>5. CASE Restart
  <2>1. Policy!Replace
    BY <1>5 DEF Restart, Policy!Replace
  <2> QED BY <2>1 DEF Policy!PolicyNext
<1>6. CASE Tick
  <2>1. now' = now + 1 /\ meter' = Most(meter - Rate, 0) /\ UNCHANGED <<queue, resume, stored>>
    BY <1>6 DEF Tick, cooling
  <2>2. ASSUME NEW i \in DOMAIN queue PROVE now < queue[i].deadline
    <3>1. queue' # <<>> /\ i \in DOMAIN queue' /\ queue'[i] = queue[i]
      BY <2>1
    <3>2. queue'[i] \in Waiting(now', Alarm')
      BY <3>1, NonEmptyDomain DEF QueueInv
    <3>3. now' <= queue[i].deadline /\ queue[i].deadline \in Nat
      BY <3>1, <3>2 DEF Waiting, Requests
    <3> QED BY <1>0, <2>1, <3>3
  <2>3. Most(meter - Rate, 0) = IF meter > Rate THEN meter - Rate ELSE 0
    BY <1>0 DEF Most
  <2>4. Policy!Leak
    BY <2>1, <2>2, <2>3 DEF Policy!Leak
  <2> QED BY <2>4 DEF Policy!PolicyNext
<1>7. CASE RejectExpired
  <2>1. PICK i \in DOMAIN queue : Expired(queue[i]) /\ queue' = RemoveAt(queue, i)
    BY <1>7 DEF RejectExpired
  <2>2. Policy!Expire(i)
    BY <1>7, <2>1, SameRemoveAt DEF RejectExpired, Expired, Policy!Expire, cooling, history
  <2> QED BY <2>1, <2>2 DEF Policy!PolicyNext
<1>8. CASE EndCooldown
  <2>1. UNCHANGED <<now, meter, resume>> /\ cooldownUntil # None /\ ~(now < cooldownUntil)
    BY <1>8 DEF EndCooldown, CoolingDown, history
  <2>2. resume <= now
    BY <1>0, <2>1 DEF SameCooldown, TimesTyped, None
  <2>3. CASE stored' = None /\ UNCHANGED queue
    <3>1. Policy!Finish
      BY <2>1, <2>2, <2>3 DEF Policy!Finish
    <3> QED BY <3>1 DEF Policy!PolicyNext
  <2>4. CASE queue' = <<>> /\ UNCHANGED stored
    <3>1. Policy!Fail
      BY <2>1, <2>4 DEF Policy!Fail
    <3> QED BY <3>1 DEF Policy!PolicyNext
  <2> QED BY <1>8, <2>3, <2>4 DEF EndCooldown
<1>9. CASE Serve
  BY <1>9, ServeGrants
<1>10. CASE PumpReturns \/ AwaitCooldown \/ AwaitStage \/ Wake \/ PumpEnds \/ UNCHANGED vars
  BY <1>1, <1>10 DEF PumpReturns, AwaitCooldown, AwaitStage, Wake, PumpEnds, vars, cooling, history
<1> QED BY <1>2, <1>3, <1>4, <1>5, <1>6, <1>7, <1>8, <1>9, <1>10 DEF Next, Pump

(* For any bucket, delays, waits and faults, the limiter does what         *)
(* GrantPolicy allows: every step is one of its steps or changes nothing   *)
(* it speaks of.                                                           *)
THEOREM LimiterImplementsGrantPolicy == Spec => ImplementsGrantPolicy
<1>1. Init => SameCooldown
  BY DEF Init, SameCooldown
<1>2. Init => Policy!PolicyInit
  BY DEF Init, Policy!PolicyInit
<1>3. QueueInv /\ TimesTyped /\ RecoveryKnown /\ SameCooldown /\ [Next]_vars => SameCooldown'
  BY SameCooldownStep DEF QueueInv
<1>4. BucketBalance /\ QueueInv /\ QueueInv' /\ TimesTyped /\ RecoveryKnown /\ SameCooldown
        /\ [Next]_vars => [Policy!PolicyNext]_(Policy!policyVars)
  BY PolicyStep
<1> QED BY <1>1, <1>2, <1>3, <1>4, AlwaysBalanced, AlwaysQueueInv, AlwaysCooldownKnown, PTL
    DEF Spec, ImplementsGrantPolicy, Policy!PolicySpec
=============================================================================
