-------------------------- MODULE SecurityManager --------------------------
(***************************************************************************)
(* SecurityManager and its most important caller: the recheck that the     *)
(* signal engine makes in the last moment before a card is sent.  One job  *)
(* per token fetches a security snapshot from GMGN; senders overtake       *)
(* preheats; successes and failures are remembered for a while.  The       *)
(* recheck waits for a snapshot, judges the token, and for a graduated     *)
(* token waits again for its pool.                                         *)
(*                                                                         *)
(* Time passes only while everybody waits for the network: a continuation  *)
(* that is ready (a job that is ending, a recheck that was answered) runs  *)
(* before the clock moves on.                                              *)
(***************************************************************************)
EXTENDS Integers, Sequences, FiniteSets

CONSTANTS
  Tokens,
  Concurrency,   \* security_max_concurrency
  CacheTtl,      \* security_cache, 60 s
  SendMaxAge,    \* security_max_age_at_send, 10 s
  MaxTime        \* bound of the model

ASSUME ConcurrencyAssumption == Concurrency \in Nat \ {0}
ASSUME AgeAssumption == SendMaxAge \in Nat /\ CacheTtl \in Nat /\ SendMaxAge <= CacheTtl
ASSUME MaxTimeAssumption == MaxTime \in Nat

None == -1   \* a time that is not set

VARIABLES
  now,
  cache,     \* capturedAt of the cached snapshot of each token
  failed,    \* failedPreheats
  job,       \* the job of each token: where it is, and whether it is urgent
  queue,     \* tokens whose jobs wait for their turn
  active,    \* jobs that were started and have not ended
  check      \* the recheck of each token

manager == <<cache, failed, job, queue, active>>
vars == <<now, manager, check>>

NoJob == [at |-> "none", urgent |-> FALSE]

(* since: when the pool was asked for;  captured: the snapshot judged;     *)
(* pool: when the pool response was received.                              *)
NoCheck == [at |-> "idle", since |-> None, captured |-> None, pool |-> None]

JobAt(t, place) == job[t].at = place
CheckAt(t, place) == check[t].at = place
Refuse(t) == check' = [check EXCEPT ![t] = NoCheck]

Init ==
  /\ now = 0
  /\ cache = [t \in Tokens |-> None]
  /\ failed = [t \in Tokens |-> None]
  /\ job = [t \in Tokens |-> NoJob]
  /\ queue = <<>>
  /\ active = 0
  /\ check = [t \in Tokens |-> NoCheck]

-----------------------------------------------------------------------------
(* request(): the cache, the suppression, the job that exists, a new job.  *)

Within(time, limit) == time # None /\ now - time <= limit
Pruned(times) == [t \in Tokens |-> IF Within(times[t], CacheTtl) THEN times[t] ELSE None]

(* Mutant: a job that becomes urgent keeps its place.                      *)
Unsorted(tokens, jobs) == {tokens}

(* sortQueue: the same tokens, urgent jobs first, otherwise in order of    *)
(* arrival (the sequence of which that is true).                           *)
Sorted(tokens, jobs) ==
  LET Ahead(t, u) == \E i, k \in DOMAIN tokens : i < k /\ tokens[i] = t /\ tokens[k] = u
  IN {s \in [DOMAIN tokens -> {tokens[i] : i \in DOMAIN tokens}] :
        /\ \A i \in DOMAIN tokens : \E k \in DOMAIN tokens : s[k] = tokens[i]
        /\ \A i, k \in DOMAIN tokens : i < k =>
             IF jobs[s[i]].urgent = jobs[s[k]].urgent THEN Ahead(s[i], s[k]) ELSE jobs[s[i]].urgent}

(* Mutants: one job too many; jobs are started by requests only.           *)
OneMore(tokens, running) == IF Len(tokens) < Concurrency + 1 - running
                            THEN Len(tokens) ELSE Concurrency + 1 - running

Startable(tokens, running) == IF Len(tokens) < Concurrency - running
                              THEN Len(tokens) ELSE Concurrency - running

(* pump(): start jobs from the head of the queue while there is room.      *)
Pump(tokens, jobs, running) ==
  LET n == Startable(tokens, running)
      starting == {tokens[i] : i \in 1..n}
  IN /\ job' = [t \in Tokens |-> IF t \in starting THEN [jobs[t] EXCEPT !.at = "fetching"] ELSE jobs[t]]
     /\ queue' = SubSeq(tokens, n + 1, Len(tokens))
     /\ active' = running + n

Join(t, urgent) ==
  LET jobs == [job EXCEPT ![t].urgent = @ \/ urgent]
  IN job' = jobs /\ queue' \in Sorted(queue, jobs) /\ UNCHANGED active

Enlist(t, urgent) ==
  LET jobs == [job EXCEPT ![t] = [at |-> "queued", urgent |-> urgent]]
  IN \E tokens \in Sorted(Append(queue, t), jobs) : Pump(tokens, jobs, active)

(* Mutant: every request starts a job.                                     *)
AwaitAnew(t, urgent) == Enlist(t, urgent)

Await(t, urgent) == IF JobAt(t, "none") THEN Enlist(t, urgent) ELSE Join(t, urgent)

Prune == cache' = Pruned(cache) /\ failed' = Pruned(failed)

(* An evaluation preheats a token and does not wait for the answer.        *)
Preheat(t) ==
  /\ Prune
  /\ IF Within(cache[t], CacheTtl) \/ Within(failed[t], CacheTtl)
     THEN UNCHANGED <<job, queue, active>> ELSE Await(t, FALSE)
  /\ UNCHANGED <<now, check>>

(* recheck: getFreshForSend.  A job that is just ending without a snapshot *)
(* answers at once.                                                        *)
BeginRecheck(t) ==
  /\ CheckAt(t, "idle")
  /\ Prune
  /\ \/ /\ Within(cache[t], SendMaxAge)
        /\ check' = [check EXCEPT ![t].at = "judging"]
        /\ UNCHANGED <<job, queue, active>>
     \/ /\ ~Within(cache[t], SendMaxAge)
        /\ Await(t, TRUE)
        /\ IF JobAt(t, "ending") THEN Refuse(t)
           ELSE check' = [check EXCEPT ![t].at = "security"]
  /\ UNCHANGED now

-----------------------------------------------------------------------------
(* run() and the handler that follows it.                                  *)

Ending(t) == job' = [job EXCEPT ![t].at = "ending"]
Answer(t, place) ==
  check' = IF CheckAt(t, "security") THEN [check EXCEPT ![t].at = place] ELSE check

(* The snapshot is stored, cached, and handed to whoever waits for it.     *)
FetchSucceeds(t) ==
  /\ JobAt(t, "fetching")
  /\ cache' = [cache EXCEPT ![t] = now]
  /\ failed' = [failed EXCEPT ![t] = None]
  /\ Ending(t)
  /\ Answer(t, "judging")
  /\ UNCHANGED <<now, queue, active>>

Remembered(t) == [failed EXCEPT ![t] = now]

(* The request, the response or its storage failed: an older snapshot      *)
(* stays in the cache, and whoever waits gets nothing.                     *)
FetchFails(t) ==
  /\ JobAt(t, "fetching")
  /\ failed' = Remembered(t)
  /\ Ending(t)
  /\ IF CheckAt(t, "security") THEN Refuse(t) ELSE UNCHANGED check
  /\ UNCHANGED <<now, cache, queue, active>>

(* Mutant: the place that became free is not filled.                       *)
Unfilled(t) ==
  /\ job' = [job EXCEPT ![t] = NoJob] /\ active' = active - 1
  /\ UNCHANGED queue

Refilled(t) == Pump(queue, [job EXCEPT ![t] = NoJob], active - 1)

(* finally: the job is over and the next one may start.                    *)
JobEnds(t) ==
  /\ JobAt(t, "ending")
  /\ Refilled(t)
  /\ UNCHANGED <<now, cache, failed, check>>

-----------------------------------------------------------------------------
(* The rest of recheck() and liquidityForSend().                           *)

(* Every other rule may refuse the token as well.                          *)
Judge(t) ==
  /\ CheckAt(t, "judging")
  /\ \/ Refuse(t)
     \/ /\ Within(cache[t], SendMaxAge)
        /\ \/ check' = [check EXCEPT ![t].at = "passed", ![t].captured = cache[t]]
           \/ check' = [check EXCEPT ![t].at = "pool", ![t].captured = cache[t], ![t].since = now]
  /\ UNCHANGED <<now, manager>>

(* The pool has liquidity; or it has none, or cannot be fetched.           *)
PoolAnswers(t) ==
  /\ CheckAt(t, "pool")
  /\ \/ check' = [check EXCEPT ![t].at = "assessing", ![t].pool = now]
     \/ Refuse(t)
  /\ UNCHANGED <<now, manager>>

(* Mutant: the age of the pool is taken when the response is there.        *)
ReadAfterwards(t) == now

AssessedAt(t) == check[t].since

(* assessDeliveryLiquidity: the response may be neither old nor, by the    *)
(* clock read before the request was made, from the future.                *)
Assess(t) ==
  /\ CheckAt(t, "assessing")
  /\ IF check[t].pool <= AssessedAt(t) /\ AssessedAt(t) - check[t].pool <= SendMaxAge
     THEN check' = [check EXCEPT ![t].at = "passed"] ELSE Refuse(t)
  /\ UNCHANGED <<now, manager>>

(* The publisher marks the row and calls sendMessage.                      *)
Send(t) ==
  /\ CheckAt(t, "passed")
  /\ Refuse(t)
  /\ UNCHANGED <<now, manager>>

WaitsForNetwork(t) ==
  job[t].at \in {"none", "queued", "fetching"} /\ check[t].at \in {"idle", "security", "pool"}

Tick ==
  /\ \A t \in Tokens : WaitsForNetwork(t)
  /\ now < MaxTime
  /\ now' = now + 1
  /\ UNCHANGED <<manager, check>>

Settle(t) ==
  \/ FetchSucceeds(t) \/ FetchFails(t) \/ JobEnds(t)
  \/ Judge(t) \/ PoolAnswers(t) \/ Assess(t) \/ Send(t)

Next == Tick \/ \E t \in Tokens : Preheat(t) \/ BeginRecheck(t) \/ Settle(t)

Spec == Init /\ [][Next]_vars

(* Requests to GMGN end: with an answer, at the client's timeout, or at    *)
(* the rate limiter's deadline.  Continuations that are ready run.         *)
FairSpec ==
  /\ Spec
  /\ \A t \in Tokens :
       /\ WF_vars(FetchSucceeds(t) \/ FetchFails(t))
       /\ WF_vars(JobEnds(t))
       /\ WF_vars(Judge(t) \/ PoolAnswers(t) \/ Assess(t) \/ Send(t))

-----------------------------------------------------------------------------
(* Properties. *)

Times == {None} \cup 0..now

(* The types; the jobs in flight never exceed security_max_concurrency.    *)
TypeOK ==
  /\ now \in Nat
  /\ cache \in [Tokens -> Times] /\ failed \in [Tokens -> Times]
  /\ job \in [Tokens -> [at : {"none", "queued", "fetching", "ending"}, urgent : BOOLEAN]]
  /\ check \in [Tokens -> [at : {"idle", "security", "judging", "pool", "assessing", "passed"},
                           since : Times, captured : Times, pool : Times]]
  /\ queue \in Seq(Tokens)
  /\ active \in 0..Concurrency

(* The three records of the jobs (jobs, queue, active) agree, no token has *)
(* two jobs, and no place is free while a job waits for one.               *)
Running == {t \in Tokens : job[t].at \in {"fetching", "ending"}}
JobsAccounted ==
  /\ active = Cardinality(Running)
  /\ {queue[i] : i \in DOMAIN queue} = {t \in Tokens : JobAt(t, "queued")}
  /\ Len(queue) = Cardinality({t \in Tokens : JobAt(t, "queued")})
  /\ queue # <<>> => active = Concurrency

(* A preheat never takes a place that a sender waits for, not even one     *)
(* that joined a job already in the queue.                                 *)
Starts(t) == ~JobAt(t, "fetching") /\ job'[t].at = "fetching"
UrgentFirst ==
  [][\A t, u \in Tokens : Starts(t) /\ ~job'[t].urgent /\ job'[u].at = "queued" => ~job'[u].urgent]_vars

(* gmgn-market-ingestion: the security result used for a send is at most   *)
(* 10 s old when the card is sent, whatever was awaited in between.        *)
SendUsesFreshSecurity ==
  \A t \in Tokens : CheckAt(t, "passed") => Within(check[t].captured, SendMaxAge)

(* A recheck holds its token's lock; it always ends, however many jobs are *)
(* ahead of its own.                                                       *)
RecheckEnds == \A t \in Tokens : ~CheckAt(t, "idle") ~> CheckAt(t, "idle")

(* gmgn-signal-quality: a graduated candidate uses a pool response that is *)
(* no older than ten seconds; one that has just arrived is accepted.       *)
FreshPoolAccepted ==
  [][\A t \in Tokens : CheckAt(t, "assessing") /\ Within(check[t].pool, SendMaxAge)
       => check'[t].at \in {"assessing", "passed"}]_vars

(* Without its jobs and places, the manager does what SnapshotView says.   *)
View == INSTANCE SnapshotView WITH
  captured <- Pruned(cache), missed <- Pruned(failed),
  asked <- {t \in Tokens : job[t].at \in {"queued", "fetching"}},
  awaited <- {t \in Tokens : CheckAt(t, "security")}
ImplementsSnapshotView == View!ViewSpec
=============================================================================
