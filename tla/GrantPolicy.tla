---------------------------- MODULE GrantPolicy ----------------------------
(***************************************************************************)
(* What the limiter promises, without saying which request is next, how    *)
(* the pump sleeps and how the bucket is refilled: the weight it lets pass *)
(* is bounded by a leaky bucket; nothing passes in a cooldown the process  *)
(* knows of, and after it each priority only when its own delay is over; a *)
(* request leaves when it is granted, when its deadline is reached, or     *)
(* with all the others when the limiter fails; and a new process knows of  *)
(* the last cooldown that could be kept, until it was over.                *)
(***************************************************************************)
EXTENDS Integers, Sequences, SequencesExt

CONSTANTS
  Capacity, Rate,   \* of the leaky bucket
  Patience,         \* how long a request waits
  Delays,           \* per priority, after a cooldown
  None              \* a time that is not set

VARIABLES
  now,
  waiting,  \* the requests
  load,     \* what the bucket holds
  resume,   \* the end of the last cooldown the process knows of
  kept      \* the end a new process will know of

policyVars == <<now, waiting, load, resume, kept>>

PolicyInit == now = 0 /\ waiting = <<>> /\ load = 0 /\ resume = None /\ kept = None

Arrive(priority, weight) ==
  /\ waiting' = Append(waiting, [priority |-> priority, weight |-> weight,
                                 deadline |-> now + Patience])
  /\ UNCHANGED <<now, load, resume, kept>>

Grant(i) ==
  /\ resume = None \/ now >= resume + Delays[waiting[i].priority]
  /\ load + waiting[i].weight <= Capacity
  /\ load' = load + waiting[i].weight
  /\ waiting' = RemoveAt(waiting, i)
  /\ UNCHANGED <<now, resume, kept>>

Expire(i) ==
  /\ waiting[i].deadline <= now
  /\ waiting' = RemoveAt(waiting, i)
  /\ UNCHANGED <<now, load, resume, kept>>

(* The limiter is stopped, or the write that ends a cooldown fails.        *)
Fail == waiting' = <<>> /\ UNCHANGED <<now, load, resume, kept>>

(* A cooldown is ordered: the longer one holds.  The order may fail to be  *)
(* kept.                                                                   *)
Order ==
  /\ resume' \in Nat /\ resume' > now
  /\ resume = None \/ resume <= resume'
  /\ kept' \in {resume', kept}
  /\ UNCHANGED <<now, waiting, load>>

(* Nothing more has to be kept of a cooldown that is over.                 *)
Finish ==
  /\ resume <= now
  /\ kept' = None
  /\ UNCHANGED <<now, waiting, load, resume>>

(* A new process has an empty bucket, and knows what was kept.             *)
Replace ==
  /\ waiting' = <<>> /\ load' = 0 /\ resume' = kept
  /\ UNCHANGED <<now, kept>>

(* Time passes, but not the deadline of a request that waits.              *)
Leak ==
  /\ \A i \in DOMAIN waiting : now < waiting[i].deadline
  /\ now' = now + 1
  /\ load' = IF load > Rate THEN load - Rate ELSE 0
  /\ UNCHANGED <<waiting, resume, kept>>

PolicyNext ==
  \/ \E priority \in DOMAIN Delays, weight \in 1..Capacity : Arrive(priority, weight)
  \/ \E i \in DOMAIN waiting : Grant(i) \/ Expire(i)
  \/ Fail \/ Order \/ Finish \/ Replace \/ Leak

PolicySpec == PolicyInit /\ [][PolicyNext]_policyVars
=============================================================================
