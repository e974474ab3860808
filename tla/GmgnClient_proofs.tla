-------------------------- MODULE GmgnClient_proofs --------------------------
(***************************************************************************)
(* Proofs about GmgnClient, for any callers, times and faults: nobody sends *)
(* before the pause a 429 has asked for is over, and the counts of the     *)
(* attempts are never too high, nor lower than the ends of the processes   *)
(* explain.                                                                *)
(*                                                                         *)
(* The pause.  The step that sends only looks at cooldownUntil, which a    *)
(* new process takes from saved.  So the invariant says that both are at   *)
(* least what any answer has asked for: the first while a process runs,    *)
(* the second always.                                                      *)
(*                                                                         *)
(* The counts.  An attempt is counted when its answer arrives, so the      *)
(* invariant also counts the attempts still under way.                     *)
(***************************************************************************)
EXTENDS GmgnClient, FiniteSetTheorems, TLAPS

Types ==
  /\ now \in Nat /\ cooldownUntil \in Nat /\ saved \in Nat /\ pausedUntil \in Nat
  /\ at \in [Requests -> Places] /\ up \in BOOLEAN /\ writesFailed \in BOOLEAN

Paused ==
  writesFailed = FALSE =>
    saved >= pausedUntil /\ (up = TRUE => cooldownUntil >= pausedUntil)

(* The assumption of the theorem: every JSON body of a 429 arrives whole,  *)
(* and its connection is there until the body is read or cancelled.  A     *)
(* body that is cut off makes executeAttempt throw invalid_json before the *)
(* cooldown is resolved, a cancel that fails is taken for a request that   *)
(* got no answer: nothing pauses.                                          *)
Whole == "broken" \notin Bodies /\ "lost" \notin Bodies

LEMMA CooldownIsTime ==
  ASSUME now \in Nat, NEW answer \in Answers PROVE resolveCooldown(answer) \in Nat
<1>1. answer.header \in Resets \cup {NoReset} /\ answer.reset \in Resets \cup {NoReset}
  BY DEF Answers
<1>2. Resets \cup {NoReset} \subseteq Nat BY ClientAssumption DEF NoReset
<1> QED BY <1>1, <1>2, ClientAssumption DEF resolveCooldown, validReset

LEMMA LaterIsLatest ==
  ASSUME NEW a \in Nat, NEW b \in Nat
  PROVE  Later(a, b) \in Nat /\ Later(a, b) >= a /\ Later(a, b) >= b
BY DEF Later

(* An answer whose body is whole is taken for a limit exactly when it is   *)
(* one.                                                                    *)
LEMMA LimitsAreSeen ==
  ASSUME Whole, NEW answer \in Answers PROVE Outcome(answer) = "limited" <=> Limits(answer)
<1>1. answer.kind \in {"ok", "none", "bad", "429", "200 limited"} BY DEF Answers
<1>2. answer.kind = "429" => answer.body \in Bodies BY DEF Answers
<1>3. CASE Limits(answer)
  <2>1. answer.body \notin {"broken", "lost"}
    BY <1>2, <1>3 DEF Answers, Limits, Whole
  <2> QED BY <1>3, <2>1 DEF Outcome
<1> QED BY <1>1, <1>3 DEF Outcome, Limits

LEMMA InitPaused == Init => Types /\ Paused
<1> SUFFICES ASSUME Init PROVE Types /\ Paused OBVIOUS
<1>1. Types BY DEF Init, Types, Places
<1>2. saved = 0 /\ cooldownUntil = 0 /\ pausedUntil = 0 BY DEF Init
<1> QED BY <1>1, <1>2 DEF Paused

(* The answer: the only step that asks for a pause.                        *)
LEMMA AnswerPauses ==
  ASSUME Whole, Types, Paused, NEW r \in Requests, Answer(r)
  PROVE  Types' /\ Paused'
<1>1. PICK answer \in Answers :
        /\ pausedUntil' = Later(pausedUntil, Asked(answer))
        /\ IF Outcome(answer) = "limited"
           THEN OnRateLimit(resolveCooldown(answer))
           ELSE UNCHANGED <<cooldownUntil, saved, writesFailed>>
        /\ Move(r, "backoff", 1) \/ Ends(r)
        /\ UNCHANGED <<now, up>>
  BY DEF Answer
<1>2. resolveCooldown(answer) \in Nat BY CooldownIsTime DEF Types
<1>3. now' \in Nat /\ at' \in [Requests -> Places]
  BY <1>1 DEF Types, Places, Move, Ends
<1>4. CASE ~Limits(answer)
  <2>1. Asked(answer) = 0 /\ UNCHANGED <<cooldownUntil, saved, writesFailed>>
    BY <1>1, <1>4, LimitsAreSeen DEF Asked
  <2>2. pausedUntil' = pausedUntil BY <1>1, <2>1 DEF Later, Types
  <2> QED BY <1>1, <1>3, <2>1, <2>2 DEF Types, Paused, Places
<1>5. CASE Limits(answer)
  <2> DEFINE until == resolveCooldown(answer)
  <2>1. Asked(answer) = until /\ OnRateLimit(until)
    BY <1>1, <1>5, LimitsAreSeen DEF Asked
  <2>2. until \in Nat BY <1>2
  <2> HIDE DEF until
  <2>3. pausedUntil' = Later(pausedUntil, until) BY <1>1, <2>1
  <2>4. pausedUntil' \in Nat BY <2>2, <2>3, LaterIsLatest DEF Types
  <2>5. CASE cooldownUntil' = Later(cooldownUntil, until) /\ saved' = cooldownUntil' /\ UNCHANGED writesFailed
    <3>1. /\ up' \in BOOLEAN /\ writesFailed' \in BOOLEAN
          /\ saved' \in Nat /\ cooldownUntil' \in Nat
      BY <1>1, <2>2, <2>5, LaterIsLatest DEF Types
    <3>2. writesFailed' = FALSE => saved' >= pausedUntil' /\ cooldownUntil' >= pausedUntil'
      <4> SUFFICES ASSUME writesFailed' = FALSE
                   PROVE  saved' >= pausedUntil' /\ cooldownUntil' >= pausedUntil'
        OBVIOUS
      <4>1. up = TRUE BY DEF Answer, Types
      <4>2. cooldownUntil >= pausedUntil BY <2>5, <4>1 DEF Paused
      <4>3. Later(cooldownUntil, until) >= Later(pausedUntil, until)
        BY <2>2, <4>2 DEF Types, Later
      <4> QED BY <2>3, <2>5, <4>3
    <3> QED BY <1>3, <2>4, <3>1, <3>2 DEF Types, Paused
  <2>6. CASE /\ writesFailed' = TRUE /\ saved' = saved
             /\ cooldownUntil' = cooldownUntil \/ cooldownUntil' = Later(cooldownUntil, until)
    <3>1. up' \in BOOLEAN /\ saved' \in Nat /\ cooldownUntil' \in Nat
      BY <1>1, <2>2, <2>6, LaterIsLatest DEF Types
    <3> QED BY <1>3, <2>4, <2>6, <3>1 DEF Types, Paused
  <2> QED BY <2>1, <2>5, <2>6 DEF OnRateLimit
<1> QED BY <1>4, <1>5

LEMMA StepPauses == ASSUME Whole, Types, Paused, [Next]_vars PROVE Types' /\ Paused'
<1>1. CASE UNCHANGED vars
  BY <1>1 DEF vars, calls, database, history, Types, Paused, Places
<1>2. ASSUME NEW r \in Requests, Request(r) \/ Send(r) \/ Refuse(r) \/ BackoffEnds(r)
      PROVE  Types' /\ Paused'
  BY <1>2 DEF Request, Send, Refuse, BackoffEnds, Move, Ends, calls, database, history, Types, Paused, Places
<1>3. ASSUME NEW r \in Requests, Answer(r) PROVE Types' /\ Paused'
  BY <1>3, AnswerPauses
<1>4. CASE PersistMetrics
  <2>1. \/ UNCHANGED <<now, up, at, cooldownUntil, saved, pausedUntil, writesFailed>>
        \/ /\ up' = FALSE /\ at' = [r \in Requests |-> "idle"] /\ cooldownUntil' = 0
           /\ UNCHANGED <<now, saved, pausedUntil, writesFailed>>
    BY <1>4 DEF PersistMetrics, Dies, calls, history
  <2>2. CASE UNCHANGED <<now, up, at, cooldownUntil, saved, pausedUntil, writesFailed>>
    BY <2>2 DEF Types, Paused
  <2>3. CASE /\ up' = FALSE /\ at' = [r \in Requests |-> "idle"] /\ cooldownUntil' = 0
             /\ UNCHANGED <<now, saved, pausedUntil, writesFailed>>
    BY <2>3 DEF Types, Paused, Places
  <2> QED BY <2>1, <2>2, <2>3
<1>5. CASE Crash
  <2>1. /\ up' = FALSE /\ at' = [r \in Requests |-> "idle"] /\ cooldownUntil' = 0
        /\ UNCHANGED <<now, saved, pausedUntil, writesFailed>>
    BY <1>5 DEF Crash, Dies
  <2> QED BY <2>1 DEF Types, Paused, Places
<1>6. CASE Start
  BY <1>6 DEF Start, calls, database, history, Types, Paused, Places
<1>7. CASE Tick
  BY <1>7 DEF Tick, calls, database, history, Types, Paused, Places
<1> QED BY <1>1, <1>2, <1>3, <1>4, <1>5, <1>6, <1>7 DEF Next

(* If no JSON body of a 429 is cut off, nothing is sent in a cooldown.     *)
THEOREM PauseIsObserved == Whole => (Spec => NothingSentInCooldown)
<1> SUFFICES ASSUME Whole PROVE Spec => NothingSentInCooldown OBVIOUS
<1>1. Init => Types /\ Paused BY InitPaused
<1>2. Types /\ Paused /\ [Next]_vars => (Types /\ Paused)' BY StepPauses
<1>3. Types /\ Paused /\ [Next]_vars =>
        [\A r \in Requests :
           at'[r] = "fetching" /\ at[r] # "fetching" => now >= pausedUntil \/ writesFailed]_vars
  <2> SUFFICES ASSUME Types, Paused, Next, NEW r \in Requests,
                      at'[r] = "fetching", at[r] # "fetching"
               PROVE  now >= pausedUntil \/ writesFailed
    BY DEF vars, calls
  <2>1. \E q \in Requests : Send(q)
    <3>1. ASSUME NEW q \in Requests, Request(q) \/ Refuse(q) \/ Answer(q) \/ BackoffEnds(q)
          PROVE  FALSE
      <4>1. \/ at' = [at EXCEPT ![q] = "acquiring"]
            \/ at' = [at EXCEPT ![q] = "idle"]
            \/ at' = [at EXCEPT ![q] = "backoff"]
        BY <3>1 DEF Request, Refuse, Answer, BackoffEnds, Move, Ends
      <4> QED BY <4>1 DEF Types
    <3>2. CASE PersistMetrics BY <3>2 DEF PersistMetrics, Dies, calls, Types
    <3>3. CASE Crash BY <3>3 DEF Crash, Dies
    <3>4. CASE Start \/ Tick BY <3>4 DEF Start, Tick, calls
    <3> QED BY <3>1, <3>2, <3>3, <3>4 DEF Next
  <2>2. up /\ now >= cooldownUntil BY <2>1 DEF Send
  <2> QED BY <2>2 DEF Types, Paused, Places
<1> QED BY <1>1, <1>2, <1>3, PTL DEF Spec, NothingSentInCooldown

-----------------------------------------------------------------------------
(* What moves a caller, and what that does to the attempts under way.      *)
Calls ==
  /\ at \in [Requests -> Places] /\ attempt \in [Requests -> 0..2]
  /\ \A r \in Requests : at[r] = "idle" <=> attempt[r] = 0

Numbers == [attempts : Nat, successes : Nat]
Counted ==
  /\ metrics \in Numbers /\ counters \in Numbers
  /\ sent \in Nat /\ succeeded \in Nat /\ unsaved \in Nat
  /\ counters.attempts + metrics.attempts + Cardinality(Fetching) <= sent
  /\ sent <= counters.attempts + metrics.attempts + Cardinality(Fetching) + unsaved
  /\ counters.successes + metrics.successes <= succeeded
  /\ succeeded <= counters.successes + metrics.successes + unsaved
  /\ succeeded + Cardinality(Fetching) <= sent
  /\ metrics.successes <= metrics.attempts /\ counters.successes <= counters.attempts

LEMMA ZeroIsNumber == Zero \in Numbers /\ Zero.attempts = 0 /\ Zero.successes = 0
BY DEF Zero, Numbers

LEMMA InitCounted == Init => Calls /\ Counted
<1> SUFFICES ASSUME Init PROVE Calls /\ Counted
  OBVIOUS
<1>1. Fetching = {} /\ Calls
  BY DEF Init, Fetching, Calls, Places
<1>2. Cardinality(Fetching) = 0
  BY <1>1, FS_EmptySet
<1>3. metrics = Zero /\ counters = Zero /\ sent = 0 /\ succeeded = 0 /\ unsaved = 0
  BY DEF Init
<1> QED BY <1>1, <1>2, <1>3, ZeroIsNumber DEF Counted

LEMMA FetchingFinite == IsFiniteSet(Fetching) /\ Cardinality(Fetching) \in Nat
BY FS_Subset, FS_CardinalityType, ClientAssumption DEF Fetching

LEMMA MoveKeepsCalls ==
  ASSUME Calls, NEW r \in Requests, NEW place \in Places, NEW n \in 0..2, Move(r, place, n),
         place = "idle" <=> n = 0
  PROVE  Calls' /\ at'[r] = place /\ \A q \in Requests \ {r} : at'[q] = at[q]
BY DEF Calls, Move

LEMMA AttemptCounted ==
  ASSUME metrics \in Numbers, NEW success \in BOOLEAN, completeAttempt(success)
  PROVE  /\ metrics' \in Numbers
         /\ metrics'.attempts = metrics.attempts + 1
         /\ metrics'.successes = metrics.successes + IF success THEN 1 ELSE 0
BY DEF Numbers, completeAttempt

LEMMA SumIsNumber ==
  ASSUME counters \in Numbers, NEW more \in Numbers
  PROVE  /\ Sum(more) \in Numbers
         /\ Sum(more).attempts = counters.attempts + more.attempts
         /\ Sum(more).successes = counters.successes + more.successes
BY DEF Numbers, Sum

(* A caller that is not fetching moves to a place where it is not either.  *)
LEMMA OtherMovesCounted ==
  ASSUME Calls, Counted, NEW r \in Requests, Request(r) \/ Refuse(r) \/ BackoffEnds(r)
  PROVE  Calls' /\ Counted'
<1>1. PICK place \in {"idle", "acquiring"}, n \in 0..2 :
        Move(r, place, n) /\ (place = "idle" <=> n = 0)
  BY DEF Request, Refuse, BackoffEnds, Ends
<1>2. place \in Places
  BY <1>1 DEF Places
<1>3. Calls' /\ at'[r] = place /\ \A q \in Requests \ {r} : at'[q] = at[q]
  BY <1>1, <1>2, MoveKeepsCalls
<1>4. at[r] # "fetching" /\ UNCHANGED <<metrics, counters, sent, succeeded, unsaved>>
  BY DEF Request, Refuse, BackoffEnds, database, history
<1>5. Fetching' = Fetching
  BY <1>1, <1>3, <1>4 DEF Fetching
<1> QED BY <1>3, <1>4, <1>5 DEF Counted

LEMMA SendCounted ==
  ASSUME Calls, Counted, NEW r \in Requests, Send(r) PROVE Calls' /\ Counted'
<1>1. attempt[r] \in 0..2 /\ attempt[r] # 0 /\ at[r] = "acquiring" /\ Move(r, "fetching", attempt[r])
  BY DEF Send, Calls
<1>2. "fetching" \in Places
  BY DEF Places
<1>3. Calls' /\ at'[r] = "fetching" /\ \A q \in Requests \ {r} : at'[q] = at[q]
  BY <1>1, <1>2, MoveKeepsCalls
<1>4. Fetching' = Fetching \cup {r} /\ r \notin Fetching
  BY <1>1, <1>3 DEF Fetching
<1>5. Cardinality(Fetching') = Cardinality(Fetching) + 1
  BY <1>4, FetchingFinite, FS_AddElement
<1>6. sent' = sent + 1 /\ UNCHANGED <<metrics, counters, succeeded, unsaved>>
  BY DEF Send, database
<1> QED BY <1>3, <1>5, <1>6, FetchingFinite DEF Counted, Numbers

LEMMA AnswerCounted ==
  ASSUME Calls, Counted, NEW r \in Requests, Answer(r) PROVE Calls' /\ Counted'
<1>1. PICK success \in BOOLEAN :
        /\ completeAttempt(success)
        /\ succeeded' = succeeded + IF success THEN 1 ELSE 0
        /\ Move(r, "backoff", 1) \/ Move(r, "idle", 0)
        /\ UNCHANGED <<counters, sent, unsaved>>
        /\ at[r] = "fetching"
  BY DEF Answer, Ends
<1>2. Calls' /\ at'[r] # "fetching" /\ \A q \in Requests \ {r} : at'[q] = at[q]
  <2>1. "backoff" \in Places /\ "idle" \in Places
    BY DEF Places
  <2> QED BY <1>1, <2>1, MoveKeepsCalls
<1>3. Fetching' = Fetching \ {r} /\ r \in Fetching
  BY <1>1, <1>2 DEF Fetching
<1>4. Cardinality(Fetching') = Cardinality(Fetching) - 1
  BY <1>3, FetchingFinite, FS_RemoveElement
<1>5. /\ metrics' \in Numbers
      /\ metrics'.attempts = metrics.attempts + 1
      /\ metrics'.successes = metrics.successes + IF success THEN 1 ELSE 0
  BY <1>1, AttemptCounted DEF Counted
<1> QED BY <1>1, <1>2, <1>4, <1>5, FetchingFinite DEF Counted, Numbers

(* Nobody is fetching after the process has ended.                         *)
LEMMA DiesCounted ==
  ASSUME Calls, Counted, Dies, counters' \in Numbers,
         counters'.attempts <= counters.attempts + metrics.attempts,
         counters'.successes <= counters.successes + metrics.successes,
         counters'.attempts >= counters.attempts, counters'.successes >= counters.successes,
         counters'.successes <= counters'.attempts
  PROVE  Calls' /\ Counted'
<1>1. Fetching' = {} /\ Calls'
  BY DEF Dies, Fetching, Calls, Places
<1>2. Cardinality(Fetching') = 0
  BY <1>1, FS_EmptySet
<1>3. /\ metrics' = Zero /\ UNCHANGED <<sent, succeeded>>
      /\ unsaved' = unsaved + metrics.attempts + Cardinality(Fetching)
  BY DEF Dies
<1> QED BY <1>1, <1>2, <1>3, ZeroIsNumber, FetchingFinite DEF Counted, Numbers

LEMMA PersistCounted == ASSUME Calls, Counted, PersistMetrics PROVE Calls' /\ Counted'
<1>1. CASE counters' = Sum(metrics) /\ metrics' = Zero
         /\ UNCHANGED <<at, attempt, sent, succeeded, unsaved>>
  <2>1. /\ counters' \in Numbers
        /\ counters'.attempts = counters.attempts + metrics.attempts
        /\ counters'.successes = counters.successes + metrics.successes
    BY <1>1, SumIsNumber DEF Counted
  <2>2. Calls' /\ Fetching' = Fetching
    BY <1>1 DEF Calls, Fetching
  <2> QED BY <1>1, <2>1, <2>2, ZeroIsNumber, FetchingFinite DEF Counted, Numbers
<1>2. CASE counters' \in {counters, Sum([metrics EXCEPT !.successes = 0])} /\ Dies
  <2> DEFINE more == [metrics EXCEPT !.successes = 0]
  <2>1. more \in Numbers /\ more.attempts = metrics.attempts /\ more.successes = 0
    BY DEF Counted, Numbers
  <2>2. counters' \in {counters, Sum(more)}
    BY <1>2
  <2> HIDE DEF more
  <2>3. /\ Sum(more) \in Numbers
        /\ Sum(more).attempts = counters.attempts + metrics.attempts
        /\ Sum(more).successes = counters.successes
    BY <2>1, SumIsNumber DEF Counted, Numbers
  <2>4. /\ counters' \in Numbers
        /\ counters'.attempts <= counters.attempts + metrics.attempts
        /\ counters'.successes <= counters.successes + metrics.successes
        /\ counters'.attempts >= counters.attempts /\ counters'.successes >= counters.successes
        /\ counters'.successes <= counters'.attempts
    BY <2>2, <2>3 DEF Counted, Numbers
  <2> QED BY <1>2, <2>4, DiesCounted
<1> QED BY <1>1, <1>2 DEF PersistMetrics, calls, history

LEMMA CountedStep == ASSUME Calls, Counted, [Next]_vars PROVE Calls' /\ Counted'
<1>1. CASE Start \/ Tick \/ UNCHANGED vars
  <2>1. UNCHANGED <<at, attempt, metrics, counters, sent, succeeded, unsaved>>
    BY <1>1 DEF Start, Tick, vars, calls, database, history
  <2> QED BY <2>1 DEF Calls, Counted, Fetching
<1>2. CASE Crash
  BY <1>2, DiesCounted DEF Crash, Counted, Numbers
<1> QED BY <1>1, <1>2, OtherMovesCounted, SendCounted, AnswerCounted, PersistCounted DEF Next

(* Whatever fails and whenever the process dies, no attempt is counted     *)
(* twice, and none is missed but those a process had not saved at its end. *)
THEOREM NoAttemptIsMiscounted == Spec => []CountsAreAttempts
<1>1. Calls /\ Counted => CountsAreAttempts
  <2> SUFFICES ASSUME Counted PROVE CountsAreAttempts
    OBVIOUS
  <2> QED BY FetchingFinite DEF Counted, Numbers, CountsAreAttempts
<1> QED BY <1>1, InitCounted, CountedStep, PTL DEF Spec

-----------------------------------------------------------------------------
(* No answer asks for more than the longest reset that is accepted, and    *)
(* time only goes on.                                                      *)
Horizon == 0 .. now + MAX_ACCEPTED_RESET
Bounded ==
  /\ now \in Nat /\ crashes \in 0..MaxCrashes
  /\ cooldownUntil \in Horizon /\ saved \in Horizon /\ pausedUntil \in Horizon
Flags == up \in BOOLEAN /\ writesFailed \in BOOLEAN

LEMMA ResolvedWithinHorizon ==
  ASSUME now \in Nat, NEW answer \in Answers
  PROVE  resolveCooldown(answer) \in Horizon /\ Asked(answer) \in Horizon
<1>1. answer.header \in Resets \cup {NoReset} /\ answer.reset \in Resets \cup {NoReset}
  BY DEF Answers
<1>2. Resets \cup {NoReset} \subseteq Nat
  BY ClientAssumption DEF NoReset
<1>3. resolveCooldown(answer) \in Horizon
  BY <1>1, <1>2, ClientAssumption DEF resolveCooldown, validReset, Horizon
<1> QED BY <1>3, ClientAssumption DEF Asked, Horizon

LEMMA LaterWithinHorizon ==
  ASSUME now \in Nat, NEW a \in Horizon, NEW b \in Horizon PROVE Later(a, b) \in Horizon
BY DEF Later

LEMMA BoundedStep == ASSUME Bounded, [Next]_vars PROVE Bounded'
<1> USE ClientAssumption
<1>1. ASSUME NEW r \in Requests, Request(r) \/ Send(r) \/ Refuse(r) \/ BackoffEnds(r)
      PROVE  Bounded'
  BY <1>1 DEF Request, Send, Refuse, BackoffEnds, database, history, Bounded, Horizon
<1>2. ASSUME NEW r \in Requests, Answer(r) PROVE Bounded'
  <2>1. PICK answer \in Answers :
          /\ pausedUntil' = Later(pausedUntil, Asked(answer))
          /\ \/ OnRateLimit(resolveCooldown(answer))
             \/ UNCHANGED <<cooldownUntil, saved, writesFailed>>
          /\ UNCHANGED <<now, up, crashes>>
    BY <1>2 DEF Answer
  <2> DEFINE until == resolveCooldown(answer)
  <2>2. until \in Horizon /\ Asked(answer) \in Horizon
    BY ResolvedWithinHorizon DEF Bounded
  <2>3. pausedUntil' \in Horizon
    BY <2>1, <2>2, LaterWithinHorizon DEF Bounded
  <2>4. OnRateLimit(until) \/ UNCHANGED <<cooldownUntil, saved, writesFailed>>
    BY <2>1
  <2> HIDE DEF until
  <2>5. Later(cooldownUntil, until) \in Horizon
    BY <2>2, LaterWithinHorizon DEF Bounded
  <2>6. cooldownUntil' \in Horizon /\ saved' \in Horizon
    BY <2>4, <2>5 DEF OnRateLimit, Bounded
  <2> QED BY <2>1, <2>3, <2>6 DEF Bounded, Horizon
<1>3. CASE PersistMetrics
  <2>1. /\ UNCHANGED <<now, crashes, saved, pausedUntil>>
        /\ UNCHANGED cooldownUntil \/ cooldownUntil' = 0
    BY <1>3 DEF PersistMetrics, Dies, history
  <2> QED BY <2>1 DEF Bounded, Horizon
<1>4. CASE Crash
  <2>1. /\ UNCHANGED <<now, saved, pausedUntil>>
        /\ cooldownUntil' = 0 /\ crashes < MaxCrashes /\ crashes' = crashes + 1
    BY <1>4 DEF Crash, Dies, history
  <2> QED BY <2>1 DEF Bounded, Horizon
<1>5. CASE Start
  BY <1>5 DEF Start, database, history, Bounded, Horizon
<1>6. CASE Tick
  <2>1. now' = now + 1 /\ UNCHANGED <<crashes, cooldownUntil, saved, pausedUntil>>
    BY <1>6 DEF Tick, database, history
  <2> QED BY <2>1 DEF Bounded, Horizon
<1>7. CASE UNCHANGED vars
  BY <1>7 DEF vars, database, history, Bounded, Horizon
<1> QED BY <1>1, <1>2, <1>3, <1>4, <1>5, <1>6, <1>7 DEF Next

LEMMA FlagsStep == ASSUME Flags, [Next]_vars PROVE Flags'
<1>1. ASSUME NEW r \in Requests, Request(r) \/ Send(r) \/ Refuse(r) \/ BackoffEnds(r) \/ Answer(r)
      PROVE  Flags'
  BY <1>1 DEF Request, Send, Refuse, BackoffEnds, Answer, OnRateLimit, history, Flags
<1>2. CASE PersistMetrics \/ Crash \/ Start \/ Tick \/ UNCHANGED vars
  BY <1>2 DEF PersistMetrics, Crash, Dies, Start, Tick, vars, history, Flags
<1> QED BY <1>1, <1>2 DEF Next

(* The types; and whatever times GMGN gives, the bot never pauses beyond   *)
(* the longest reset it accepts.                                           *)
THEOREM PauseIsBounded == Spec => []TypeOK
<1>1. Init => Bounded
  <2>1. Init => /\ now = 1 /\ crashes = 0
                /\ cooldownUntil = 0 /\ saved = 0 /\ pausedUntil = 0
    BY DEF Init
  <2> QED BY <2>1, ClientAssumption DEF Bounded, Horizon
<1>2. Init => Flags
  BY DEF Init, Flags
<1>3. Bounded /\ Flags /\ Calls /\ Counted => TypeOK
  <2> SUFFICES ASSUME Bounded, Flags, Calls, Counted PROVE TypeOK
    OBVIOUS
  <2>1. succeeded \in 0..sent
    BY FetchingFinite DEF Counted
  <2> QED BY <2>1 DEF Bounded, Flags, Calls, Counted, Numbers, Horizon, TypeOK
<1> QED BY <1>1, <1>2, <1>3, InitCounted, BoundedStep, FlagsStep, CountedStep, PTL DEF Spec
=============================================================================
