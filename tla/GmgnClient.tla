----------------------------- MODULE GmgnClient -----------------------------
(***************************************************************************)
(* GmgnClient: a request to GMGN, from the limiter's permission to its end. *)
(* An attempt that got no answer, or a 5xx, is repeated once.  A 429, or a *)
(* body that says so, orders a pause until the time its header or its body *)
(* gives, or for the fallback; the pause is for everybody and outlives the *)
(* process.  Every attempt is counted, and the counts are moved to the     *)
(* database now and then.                                                  *)
(*                                                                         *)
(* RateLimiter has the limiter's queue and its bucket; here it only keeps  *)
(* requests back while its cooldown lasts.  Time is in ticks; resets that  *)
(* are no numbers are NoReset.                                             *)
(***************************************************************************)
EXTENDS Integers, FiniteSets

CONSTANTS
  Requests,                     \* the callers
  Resets,                       \* times GMGN may give, some past, some absurd
  Bodies,                       \* of 429 answers: json, text, broken, unread, lost
  RATE_LIMIT_RESET_BUFFER, DEFAULT_FALLBACK_COOLDOWN, MAX_ACCEPTED_RESET,
  Faults,                       \* subset of {"storage"}
  MaxTime, MaxCrashes, MaxSent  \* bounds of the model

NoReset == 0

ASSUME ClientAssumption ==
  /\ IsFiniteSet(Requests) /\ Resets \subseteq Nat
  /\ Bodies \subseteq {"json", "text", "broken", "unread", "lost"}
  /\ RATE_LIMIT_RESET_BUFFER \in Nat /\ DEFAULT_FALLBACK_COOLDOWN \in Nat \ {0}
  /\ MAX_ACCEPTED_RESET \in Nat /\ DEFAULT_FALLBACK_COOLDOWN <= MAX_ACCEPTED_RESET
  /\ Faults \subseteq {"storage"}
  /\ MaxTime \in Nat /\ MaxCrashes \in Nat /\ MaxSent \in Nat

VARIABLES
  now, up, crashes,
  at,              \* of a request: idle, acquiring, fetching, backoff
  attempt,         \* of a request: 1 or 2, 0 while idle
  cooldownUntil,   \* the limiter's; 0 is null
  metrics,         \* GmgnRequestMetrics
  saved,           \* runtime_state gmgn_cooldown_until
  counters,        \* runtime_state gmgn_request_attempts, _successes
  sent, succeeded, \* history: attempts made, and those that succeeded
  unsaved,         \* history: attempts in memory, or under way, when a
                   \* process ended
  pausedUntil,     \* history: the latest time a 429 answer asks to wait for
  writesFailed     \* history: a write failed while a 429 was handled

calls == <<at, attempt>>
database == <<saved, counters>>
history == <<sent, succeeded, unsaved, pausedUntil, writesFailed>>
vars == <<now, up, crashes, calls, cooldownUntil, metrics, database, history>>

Zero == [attempts |-> 0, successes |-> 0]

Init ==
  /\ now = 1 /\ up = TRUE /\ crashes = 0
  /\ at = [r \in Requests |-> "idle"] /\ attempt = [r \in Requests |-> 0]
  /\ cooldownUntil = 0 /\ metrics = Zero
  /\ saved = 0 /\ counters = Zero
  /\ sent = 0 /\ succeeded = 0 /\ unsaved = 0 /\ pausedUntil = 0 /\ writesFailed = FALSE

-----------------------------------------------------------------------------
(* What an answer is taken for. *)

(* Mutant: any time is believed.                                           *)
ResetBelieved(reset) == reset # NoReset

validReset(reset) ==
  reset # NoReset /\ reset > now /\ reset + RATE_LIMIT_RESET_BUFFER <= now + MAX_ACCEPTED_RESET

(* The header's time, the body's, or the fallback.                         *)
resolveCooldown(answer) ==
  IF validReset(answer.header) THEN answer.header + RATE_LIMIT_RESET_BUFFER
  ELSE IF answer.body = "json" /\ validReset(answer.reset)
       THEN answer.reset + RATE_LIMIT_RESET_BUFFER
  ELSE now + DEFAULT_FALLBACK_COOLDOWN

(* ok; none, for a timeout, a broken connection or a 5xx; bad, for all     *)
(* other failures; limit, for a status of 429 or a JSON body that says so. *)
Answers ==
  [kind : {"ok", "none", "bad"}, header : {NoReset}, body : {"json"}, reset : {NoReset}]
  \cup [kind : {"429"}, header : Resets \cup {NoReset}, body : Bodies, reset : Resets \cup {NoReset}]
  \cup [kind : {"200 limited"}, header : Resets \cup {NoReset}, body : {"json"},
        reset : Resets \cup {NoReset}]

Limits(answer) == answer.kind \in {"429", "200 limited"}

(* Mutant: only the status counts.                                         *)
OutcomeByStatus(answer) ==
  CASE answer.kind = "429" -> "limited"
    [] answer.kind = "200 limited" -> "bad"
    [] OTHER -> answer.kind

(* executeAttempt.  A 429 without a valid header, whose JSON body cannot   *)
(* be parsed, is taken for bad JSON; one with a valid header, whose        *)
(* connection is lost before its body is cancelled, for no answer.         *)
Outcome(answer) ==
  CASE ~Limits(answer) -> answer.kind
    [] answer.body = "broken" /\ ~validReset(answer.header) -> "bad"
    [] answer.body = "lost" /\ validReset(answer.header) -> "none"
    [] OTHER -> "limited"

(* gmgn-market-ingestion: any 429 pauses all requests, if it gives no      *)
(* valid time for the fallback.                                            *)
Asked(answer) == IF Limits(answer) THEN resolveCooldown(answer) ELSE 0

-----------------------------------------------------------------------------
(* The requests. *)

Later(a, b) == IF a < b THEN b ELSE a
Move(r, place, n) ==
  /\ at' = [at EXCEPT ![r] = place]
  /\ attempt' = [attempt EXCEPT ![r] = n]
Ends(r) == Move(r, "idle", 0)

Request(r) ==
  /\ up /\ at[r] = "idle" /\ sent < MaxSent
  /\ Move(r, "acquiring", 1)
  /\ UNCHANGED <<now, up, crashes, cooldownUntil, metrics, database, history>>

(* beforeAttempt: the limiter lets the attempt go, or refuses it at its    *)
(* deadline or when it is stopped.                                         *)
Send(r) ==
  /\ up /\ at[r] = "acquiring" /\ now >= cooldownUntil
  /\ Move(r, "fetching", attempt[r])
  /\ sent' = sent + 1
  /\ UNCHANGED <<now, up, crashes, cooldownUntil, metrics, database, succeeded, unsaved, pausedUntil, writesFailed>>
Refuse(r) ==
  /\ up /\ at[r] = "acquiring"
  /\ Ends(r)
  /\ UNCHANGED <<now, up, crashes, cooldownUntil, metrics, database, history>>

completeAttempt(success) ==
  metrics' = [attempts |-> metrics.attempts + 1,
              successes |-> metrics.successes + IF success THEN 1 ELSE 0]

(* main's onRateLimit, with the limiter's enterCooldown.  A 429 during a   *)
(* cooldown is first noted as uncontrolled; when that write fails, the     *)
(* cooldown is not extended; when the limiter's fails, it is not saved.    *)
OnRateLimit(until) ==
  \/ /\ cooldownUntil' = Later(cooldownUntil, until)
     /\ saved' = cooldownUntil'
     /\ UNCHANGED writesFailed
  \/ /\ "storage" \in Faults
     /\ writesFailed' = TRUE
     /\ \/ cooldownUntil > now /\ UNCHANGED cooldownUntil
        \/ cooldownUntil' = Later(cooldownUntil, until)
     /\ UNCHANGED saved

(* The end of an attempt, and of the request unless it is repeated.        *)
Retries(r, outcome) == outcome = "none" /\ attempt[r] = 1
Answer(r) ==
  /\ up /\ at[r] = "fetching"
  /\ \E answer \in Answers :
       LET outcome == Outcome(answer)
       IN /\ completeAttempt(outcome = "ok")
          /\ succeeded' = succeeded + IF outcome = "ok" THEN 1 ELSE 0
          /\ pausedUntil' = Later(pausedUntil, Asked(answer))
          /\ IF outcome = "limited"
             THEN OnRateLimit(resolveCooldown(answer))
             ELSE UNCHANGED <<cooldownUntil, saved, writesFailed>>
          /\ IF Retries(r, outcome) THEN Move(r, "backoff", 1) ELSE Ends(r)
  /\ UNCHANGED <<now, up, crashes, counters, sent, unsaved>>

BackoffEnds(r) ==
  /\ up /\ at[r] = "backoff"
  /\ Move(r, "acquiring", 2)
  /\ UNCHANGED <<now, up, crashes, cooldownUntil, metrics, database, history>>

-----------------------------------------------------------------------------
(* The process. *)

(* What was in memory is lost.                                             *)
Fetching == {r \in Requests : at[r] = "fetching"}
Dies ==
  /\ up' = FALSE
  /\ at' = [r \in Requests |-> "idle"] /\ attempt' = [r \in Requests |-> 0]
  /\ metrics' = Zero /\ cooldownUntil' = 0
  /\ unsaved' = unsaved + metrics.attempts + Cardinality(Fetching)
  /\ UNCHANGED <<now, saved, sent, succeeded, pausedUntil, writesFailed>>
Crash ==
  /\ up /\ crashes < MaxCrashes
  /\ crashes' = crashes + 1
  /\ Dies /\ UNCHANGED counters

Sum(more) ==
  [attempts |-> counters.attempts + more.attempts, successes |-> counters.successes + more.successes]

(* Mutant: a write that fails is caught, and the bot goes on.              *)
PersistCaught ==
  /\ up
  /\ counters' = Sum(metrics) \/ ("storage" \in Faults /\ UNCHANGED counters)
  /\ metrics' = Zero
  /\ UNCHANGED <<now, up, crashes, calls, cooldownUntil, saved, history>>

(* persistRequestMetrics: the counts are taken out of memory first, then   *)
(* added to two counters, one write after the other.  A write that fails   *)
(* throws out of the timer, which ends the process.                        *)
PersistMetrics ==
  /\ up
  /\ \/ /\ counters' = Sum(metrics) /\ metrics' = Zero
        /\ UNCHANGED <<now, up, crashes, calls, cooldownUntil, saved, history>>
     \/ /\ "storage" \in Faults
        /\ counters' \in {counters, Sum([metrics EXCEPT !.successes = 0])}
        /\ Dies /\ UNCHANGED crashes

(* The limiter starts with the saved cooldown.                             *)
Start ==
  /\ ~up
  /\ up' = TRUE /\ cooldownUntil' = saved
  /\ UNCHANGED <<now, crashes, calls, metrics, database, history>>

Tick ==
  /\ now < MaxTime /\ now' = now + 1
  /\ UNCHANGED <<up, crashes, calls, cooldownUntil, metrics, database, history>>

Next ==
  \/ \E r \in Requests : Request(r) \/ Send(r) \/ Refuse(r) \/ Answer(r) \/ BackoffEnds(r)
  \/ PersistMetrics \/ Crash \/ Start \/ Tick

Spec == Init /\ [][Next]_vars

-----------------------------------------------------------------------------
(* Properties. *)

Places == {"idle", "acquiring", "fetching", "backoff"}

(* The types; no 429, whatever times it gives, makes the bot pause beyond  *)
(* the longest reset it accepts.                                           *)
TypeOK ==
  /\ now \in Nat /\ up \in BOOLEAN /\ crashes \in 0..MaxCrashes
  /\ at \in [Requests -> Places]
  /\ attempt \in [Requests -> 0..2]
  /\ \A r \in Requests : at[r] = "idle" <=> attempt[r] = 0
  /\ {cooldownUntil, saved, pausedUntil} \subseteq 0 .. now + MAX_ACCEPTED_RESET
  /\ {metrics, counters} \subseteq [attempts : Nat, successes : Nat]
  /\ sent \in Nat /\ succeeded \in 0..sent /\ unsaved \in Nat /\ writesFailed \in BOOLEAN

(* gmgn-market-ingestion: whoever has received a 429, and whatever times   *)
(* came with it, nobody sends before the pause it asks for is over,        *)
(* retries and later processes included.  Provided that no JSON body of a  *)
(* 429 is cut off and no connection lost while a 429 is read (Bodies); and *)
(* that the writes of the handler have not failed: then only the running   *)
(* process knows, or, if the note of a second 429 failed, not even that.   *)
NothingSentInCooldown ==
  [][\A r \in Requests :
       at'[r] = "fetching" /\ at[r] # "fetching" => now >= pausedUntil \/ writesFailed]_vars

(* README, acceptance: the request counts that approve a configuration     *)
(* hold every attempt that was answered, and none twice, through resets,   *)
(* failing writes and crashes; they miss at most what was in memory, or    *)
(* under way, when a process ended.  The successes are among the attempts. *)
CountsAreAttempts ==
  LET counted == counters.attempts + metrics.attempts + Cardinality(Fetching)
      good == counters.successes + metrics.successes
  IN /\ counted <= sent /\ sent <= counted + unsaved
     /\ good <= succeeded /\ succeeded <= good + unsaved
     /\ counters.successes <= counters.attempts
=============================================================================
