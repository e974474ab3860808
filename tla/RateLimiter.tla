---------------------------- MODULE RateLimiter ----------------------------
(***************************************************************************)
(* WeightedRateLimiter: one token bucket and one priority queue in front   *)
(* of every GMGN request, with a cooldown that survives restarts and a     *)
(* staged recovery after it.                                               *)
(*                                                                         *)
(* JavaScript runs a turn to its end, so while the pump is "running"       *)
(* nothing else happens; it gives way where it awaits, and once more       *)
(* between the return of pump() and its finally handler ("ending").        *)
(* Timers fire on time: time does not pass over a wake-up that is due.     *)
(* A tick is the time that refills Rate weight; the delays are in ticks.   *)
(***************************************************************************)
EXTENDS Integers, Sequences, SequencesExt, FiniteSetsExt

CONSTANTS
  Capacity, Rate,               \* the bucket, and its refill per tick
  MaximumQueueWait,             \* maximumQueueWaitMs
  SecurityDelay, OfflineDelay,  \* recoveryDelay: 1 s and 2 s in the code
  MaxCooldown,                  \* bound: how far ahead a cooldown may end
  MaxQueue, MaxTime,            \* bounds of the model
  Faults                        \* subset of {"restart", "storage"}

ASSUME BucketAssumption == Capacity \in Nat /\ Rate \in Nat \ {0} /\ Capacity >= 3
ASSUME DelayAssumption ==
  /\ SecurityDelay \in Nat /\ OfflineDelay \in Nat /\ SecurityDelay <= OfflineDelay
  /\ MaximumQueueWait \in Nat \ {0} /\ MaxCooldown \in Nat
  /\ MaxQueue \in Nat /\ MaxTime \in Nat
ASSUME LimiterFaultsAssumption == Faults \subseteq {"restart", "storage"}

Priorities == {"realtime", "security", "offline"}
Rank(priority) == IF priority = "realtime" THEN 0 ELSE IF priority = "security" THEN 1 ELSE 2

(* PATH_POLICY: trenches, rank, security, kline and pool.                  *)
Policies == {<<"realtime", 3>>, <<"realtime", 1>>, <<"security", 1>>,
             <<"offline", 2>>, <<"offline", 1>>}

None == -1   \* a deadline that is not set

VARIABLES
  now,
  tokens, lastRefillAt,
  cooldownUntil, recoveryStartedAt,
  stored,    \* runtime_state gmgn_cooldown_until
  queue,     \* pending requests in the order of their sequence numbers
  pump,      \* idle, running, waiting (in waitUntilChange) or ending
  wakeAt,    \* when the wait ends, 0 outside of a wait
  stopped,
  meter,     \* history: the weight granted, as a leaky bucket measures it
  ordered,   \* history: the end of the last cooldown that was stored
  resume     \* history: the end of the last cooldown this process knew of

bucket == <<tokens, lastRefillAt>>
cooling == <<cooldownUntil, recoveryStartedAt, stored>>
history == <<meter, ordered, resume>>
vars == <<now, bucket, cooling, queue, pump, wakeAt, stopped, history>>

Least(a, b) == IF a < b THEN a ELSE b
Most(a, b) == IF a > b THEN a ELSE b

Init ==
  /\ now = 0
  /\ tokens = Capacity /\ lastRefillAt = 0
  /\ cooldownUntil = None /\ recoveryStartedAt = None /\ stored = None
  /\ queue = <<>>
  /\ pump = "idle" /\ wakeAt = 0
  /\ stopped = FALSE
  /\ meter = 0 /\ ordered = None /\ resume = None

-----------------------------------------------------------------------------
(* Calls from outside. *)

Yielded == pump # "running"
StartedPump(requests) ==
  IF pump = "idle" /\ ~stopped /\ requests # <<>> THEN "running" ELSE pump

(* acquire: queue the request and start the pump, unless one is at work.   *)
Acquire(policy) ==
  /\ Yielded /\ ~stopped
  /\ Len(queue) < MaxQueue
  /\ queue' = Append(queue, [priority |-> policy[1], weight |-> policy[2],
                             deadline |-> now + MaximumQueueWait])
  /\ pump' = StartedPump(queue')
  /\ UNCHANGED <<now, bucket, cooling, wakeAt, stopped, history>>

(* Mutant: a later, shorter 429 replaces the cooldown.                     *)
LatestCooldown(until) == until

LongestCooldown(until) == Most(cooldownUntil, until)

(* onRateLimit: a 429 empties the bucket and orders a cooldown.  When the  *)
(* write throws, the cooldown holds in this process only.                  *)
EnterCooldown(until) ==
  /\ Yielded
  /\ until > now
  /\ cooldownUntil' = LongestCooldown(until)
  /\ recoveryStartedAt' = cooldownUntil'
  /\ tokens' = 0 /\ lastRefillAt' = now
  /\ \/ /\ stored' = cooldownUntil'
        /\ ordered' = Most(ordered, until)
        /\ pump' = StartedPump(queue)
     \/ /\ "storage" \in Faults
        /\ UNCHANGED <<stored, ordered, pump>>
  /\ resume' = Most(resume, until)
  /\ UNCHANGED <<now, queue, wakeAt, stopped, meter>>

(* stop: reject what waits and let a waiting pump fail.                    *)
Stop ==
  /\ Yielded /\ ~stopped
  /\ stopped' = TRUE
  /\ queue' = <<>>
  /\ pump' = (IF pump = "waiting" THEN "ending" ELSE pump) /\ wakeAt' = 0
  /\ UNCHANGED <<now, bucket, cooling, history>>

(* The process is replaced: a full bucket, an empty queue, the cooldown    *)
(* as it was stored.                                                       *)
Restart ==
  /\ "restart" \in Faults
  /\ tokens' = Capacity /\ lastRefillAt' = now
  /\ cooldownUntil' = stored /\ recoveryStartedAt' = stored /\ UNCHANGED stored
  /\ queue' = <<>>
  /\ pump' = "idle" /\ wakeAt' = 0
  /\ stopped' = FALSE
  /\ meter' = 0 /\ resume' = stored
  /\ UNCHANGED <<now, ordered>>

-----------------------------------------------------------------------------
(* One turn of the loop in pump(). *)

Running == pump = "running"
Loop == pump' = "running" /\ UNCHANGED wakeAt

(* Mutant: wait for the bucket or the cooldown, whatever the deadlines.    *)
PatientWait(ticks) == ticks

timeToDeadline == Most(1, Min({queue[i].deadline - now : i \in DOMAIN queue}))
BoundedWait(ticks) == Least(ticks, timeToDeadline)
Wait(ticks) == pump' = "waiting" /\ wakeAt' = now + BoundedWait(ticks)

Expired(request) == request.deadline <= now
NoneExpired == \A i \in DOMAIN queue : ~Expired(queue[i])
CoolingDown == cooldownUntil # None /\ now < cooldownUntil
Serving == Running /\ queue # <<>> /\ NoneExpired /\ cooldownUntil = None

(* nextRequest: the oldest request of the highest priority present.        *)
nextIndex ==
  CHOOSE i \in DOMAIN queue : \A j \in (DOMAIN queue) \ {i} :
    \/ Rank(queue[i].priority) < Rank(queue[j].priority)
    \/ Rank(queue[i].priority) = Rank(queue[j].priority) /\ i < j
nextRequest == queue[nextIndex]

Delay(priority) ==
  IF priority = "realtime" THEN 0 ELSE IF priority = "security" THEN SecurityDelay ELSE OfflineDelay

(* Mutant: the first request after the cooldown ends the recovery.         *)
RecoveryForgotten(priority) == 0

recoveryDelay(priority) ==
  IF recoveryStartedAt = None THEN 0
  ELSE Most(recoveryStartedAt + Delay(priority) - now, 0)

(* recoveryDelay also ends the recovery once offline work may run.         *)
RecoveryAfter(priority) ==
  IF priority = "offline" /\ recoveryDelay(priority) = 0 THEN None ELSE recoveryStartedAt

(* Mutants: no ceiling; the same time is credited again on every pass.     *)
RefillUncapped(elapsed) == tokens + elapsed * Rate
NeverCredited == lastRefillAt

Refilled(elapsed) == Least(Capacity, tokens + elapsed * Rate)
CreditedUntil == now

PumpReturns ==
  /\ Running
  /\ queue = <<>>
  /\ pump' = "ending"
  /\ UNCHANGED <<now, bucket, cooling, queue, wakeAt, stopped, history>>

(* One pass of rejectExpired's loop; the pump goes on when none is left.   *)
RejectExpired ==
  /\ Running
  /\ \E i \in DOMAIN queue : Expired(queue[i]) /\ queue' = RemoveAt(queue, i)
  /\ Loop
  /\ UNCHANGED <<now, bucket, cooling, stopped, history>>

AwaitCooldown ==
  /\ Running /\ queue # <<>> /\ NoneExpired
  /\ CoolingDown
  /\ Wait(cooldownUntil - now)
  /\ UNCHANGED <<now, bucket, cooling, queue, stopped, history>>

(* The cooldown is over.  When the write throws, the pump fails and every  *)
(* request that waits is rejected.                                         *)
EndCooldown ==
  /\ Running /\ queue # <<>> /\ NoneExpired
  /\ cooldownUntil # None /\ ~CoolingDown
  /\ recoveryStartedAt' = cooldownUntil
  /\ cooldownUntil' = None
  /\ \/ stored' = None /\ Loop /\ UNCHANGED queue
     \/ /\ "storage" \in Faults
        /\ queue' = <<>>
        /\ pump' = "ending"
        /\ UNCHANGED <<stored, wakeAt>>
  /\ UNCHANGED <<now, bucket, stopped, history>>

AwaitStage ==
  /\ Serving
  /\ recoveryDelay(nextRequest.priority) > 0
  /\ Wait(recoveryDelay(nextRequest.priority))
  /\ UNCHANGED <<now, bucket, cooling, queue, stopped, history>>

(* refill, then either grant the request or wait for the missing weight.   *)
Serve ==
  /\ Serving
  /\ recoveryDelay(nextRequest.priority) = 0
  /\ recoveryStartedAt' = RecoveryAfter(nextRequest.priority)
  /\ lastRefillAt' = CreditedUntil
  /\ LET available == Refilled(now - lastRefillAt)
         weight == nextRequest.weight
     IN \/ /\ available >= weight
           /\ tokens' = available - weight
           /\ queue' = RemoveAt(queue, nextIndex)
           /\ meter' = meter + weight
           /\ Loop
        \/ /\ available < weight
           /\ tokens' = available
           /\ Wait((weight - available + Rate - 1) \div Rate)
           /\ UNCHANGED <<queue, meter>>
  /\ UNCHANGED <<now, cooldownUntil, stored, stopped, ordered, resume>>

Wake ==
  /\ pump = "waiting" /\ now >= wakeAt
  /\ pump' = "running" /\ wakeAt' = 0
  /\ UNCHANGED <<now, bucket, cooling, queue, stopped, history>>

(* Mutant: the finally handler does not look at the queue again.           *)
JustStop == "idle"

Restarted == IF queue # <<>> /\ ~stopped THEN "running" ELSE "idle"

(* startPump's finally: requests that arrived meanwhile start a new pump.  *)
PumpEnds ==
  /\ pump = "ending"
  /\ pump' = Restarted
  /\ UNCHANGED <<now, bucket, cooling, queue, wakeAt, stopped, history>>

(* The leaky bucket of the history leaks Rate with every tick.             *)
Tick ==
  /\ pump = "idle" \/ (pump = "waiting" /\ now < wakeAt)
  /\ now < MaxTime
  /\ now' = now + 1
  /\ meter' = Most(meter - Rate, 0)
  /\ UNCHANGED <<bucket, cooling, queue, pump, wakeAt, stopped, ordered, resume>>

Pump ==
  \/ PumpReturns \/ RejectExpired \/ AwaitCooldown \/ EndCooldown
  \/ AwaitStage \/ Serve \/ Wake \/ PumpEnds

Next ==
  \/ \E policy \in Policies : Acquire(policy)
  \/ \E until \in now + 1 .. now + MaxCooldown : EnterCooldown(until)
  \/ Stop \/ Restart \/ Pump \/ Tick

Spec == Init /\ [][Next]_vars

-----------------------------------------------------------------------------
(* Properties. *)

Requests == [priority : Priorities, weight : 1..3, deadline : Nat]

TypeOK ==
  /\ now \in Nat /\ tokens \in 0..Capacity /\ lastRefillAt \in 0..now
  /\ {cooldownUntil, recoveryStartedAt, stored, ordered, resume} \subseteq Nat \cup {None}
  /\ queue \in Seq(Requests)
  /\ pump \in {"idle", "running", "waiting", "ending"} /\ wakeAt \in Nat
  /\ stopped \in BOOLEAN
  /\ meter \in Nat

(* Over every stretch of a process's life, whatever the waits, cooldowns   *)
(* and refills, the granted weight is at most Capacity and Rate per tick:  *)
(* a leaky bucket fed with the grants never holds more than Capacity.      *)
RateBound == meter <= Capacity

(* A step that grants a request.                                           *)
Granting == meter' > meter

(* No request is let through before the end of any cooldown GMGN ordered   *)
(* and the database accepted, shorter later ones and restarts included.    *)
CooldownRespected == [][Granting => now >= ordered]_vars

(* After a cooldown, realtime requests come back first, security requests  *)
(* and offline work only after their own delays.                           *)
RecoveryStaged ==
  [][Granting /\ resume # None => now >= resume + Delay(nextRequest.priority)]_vars

(* Whatever happens in the queue and to the pump, the limiter does what    *)
(* GrantPolicy allows: the weight it grants stays in the leaky bucket, no  *)
(* request passes in a cooldown the process knows of or before its stage   *)
(* of the recovery, none waits beyond its deadline, and a restart forgets  *)
(* no cooldown that was stored.                                            *)
Policy == INSTANCE GrantPolicy WITH
  Patience <- MaximumQueueWait, Delays <- [priority \in Priorities |-> Delay(priority)],
  waiting <- queue, load <- meter, kept <- stored
ImplementsGrantPolicy == Policy!PolicySpec

(* gmgn-pipeline-liveness: a queued request gets capacity or fails within  *)
(* the maximum queue wait.                                                 *)
WaitIsBounded == \A i \in DOMAIN queue : now <= queue[i].deadline

(* A request is never left in the queue with no pump to serve it, even     *)
(* when it arrives while the last pump is finishing.                       *)
NoLostWakeup == queue # <<>> => pump # "idle" /\ ~stopped
=============================================================================
