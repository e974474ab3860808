--------------------------- MODULE OutcomeWorker ---------------------------
(***************************************************************************)
(* OutcomeWorker: what became of a signal, or of a research sample, some   *)
(* time after it.  Every 30 s the worker lists the jobs that are due and   *)
(* works them off one by one, waiting for GMGN in between; each ends in    *)
(* one write to its row.  The process may die at any moment; rows of an    *)
(* earlier release are requeued once, to be settled from saved prices.     *)
(*                                                                         *)
(* The rows of signal_outcomes and research_outcomes are one function      *)
(* here; a signal has one row instead of two, Final tells which of its     *)
(* checkpoints it is.  Prices, candles and returns are left out.           *)
(***************************************************************************)
EXTENDS Integers, Sequences, FiniteSets

CONSTANTS
  Jobs,                       \* numbers, in the order of the rows' ids
  Due,                        \* due_at; 0 for rows of an earlier release
  Profiles,                   \* what the jobs may be, see Profile
  OldStates,                  \* what an earlier release may have left in a row
  Limit,                      \* runDue's limit
  Grace, Retry,               \* GRACE_MS, RETRY_MS
  MaxTime, MaxMishaps         \* bounds: time; crashes and failed writes

Ends == {"completed", "no_trade", "pool_removed", "api_missing", "retry_exhausted"}

(* A signal or a research sample, on the curve or graduated, its last       *)
(* checkpoint (T+1h) or not, sent with a price or without.                 *)
Profile == [kind : {"signal", "research"}, lifecycle : {"curve", "graduated"},
            final : BOOLEAN, priced : BOOLEAN]

ASSUME JobsAssumption ==
  /\ Jobs \subseteq Nat /\ IsFiniteSet(Jobs)
  /\ Due \in [Jobs -> Nat]
  /\ Profiles \subseteq [Jobs -> Profile]
  /\ OldStates \subseteq Ends \cup {"pending"}
ASSUME WorkerAssumption ==
  /\ Limit \in Nat \ {0} /\ Grace \in Nat /\ Retry \in Nat \ {0}
  /\ MaxTime \in Nat /\ MaxMishaps \in Nat

Least(a, b) == IF a < b THEN a ELSE b
MaxAsks == 4 + MaxMishaps   \* bound: where the history stops counting

VARIABLES
  now,
  up,         \* the process runs
  crashes,    \* so far
  failures,   \* writes that have failed so far
  profile,    \* what each job is: columns that never change
  row,        \* the outcome rows
  requeued,   \* runtime_state snapshot_outcome_fallback_backfill_v1
  baseline,   \* signals.pool_baseline_json: none, asking (in memory) or saved
  ranked,     \* jobs with a saved rank price between sent_at and due_at
  batch,      \* the jobs of this tick that are left, as they were read
  at,         \* where the worker waits
  startedAt,  \* runJob's now, 0 outside of it
  asks,       \* history: kline requests made for each row, up to MaxAsks
  removed     \* history: rows that have ever said pool_removed

database == <<profile, row, requeued, baseline, ranked>>
worker == <<batch, at, startedAt>>
vars == <<now, up, crashes, failures, database, worker, asks, removed>>

Kind(j) == profile[j].kind
Lifecycle(j) == profile[j].lifecycle

(* note: the reason or flag in result_json that the code reads back.       *)
Row(state, attempts, next, note) ==
  [state |-> state, attempts |-> attempts, next |-> next, note |-> note]
Pending(j) == Row("pending", 0, Due[j], "none")
Missing(state) == Row(state, 0, 0, "none")   \* state is absent or gone

(* Rows that an earlier release has settled, or left pending.              *)
OldRows(j) ==
  {Row(state, IF state = "pending" THEN 0 ELSE 1, Due[j], "none") : state \in OldStates}

Init ==
  /\ now = 0 /\ up = FALSE /\ crashes = 0 /\ failures = 0
  /\ profile \in Profiles
  /\ row \in [Jobs -> (UNION {OldRows(j) : j \in Jobs}) \cup {Missing("absent")}]
  /\ \A j \in Jobs : row[j] \in IF Due[j] = 0 THEN OldRows(j) ELSE {Missing("absent")}
  /\ baseline \in [Jobs -> {"none", "saved"}]
  /\ \A j \in Jobs :
       /\ row[j].state = "absent" \/ Kind(j) = "research" \/ Lifecycle(j) = "curve"
            => baseline[j] = "none"
       /\ row[j].state = "pool_removed" => baseline[j] = "saved" /\ profile[j].priced
  /\ requeued = FALSE
  /\ ranked \in SUBSET Jobs
  /\ batch = <<>> /\ at = "idle" /\ startedAt = 0
  /\ asks = [j \in Jobs |-> 0]
  /\ removed = {j \in Jobs : row[j].state = "pool_removed"}

-----------------------------------------------------------------------------
(* The rows' other writers. *)

(* Mutants: the backfill is repeated at every start; it forgets what the   *)
(* row said.                                                               *)
RequeuedAlways(j) ==
  IF row[j].state \in Ends /\ j \in ranked
  THEN Row("pending", 0, Due[j], "backfill") ELSE row[j]
RequeuedPlainly(j) ==
  IF row[j].state \in Ends \ {"completed"} /\ j \in ranked /\ ~requeued
  THEN Row("pending", 0, Due[j], "backfill") ELSE row[j]

(* requeueSnapshotFallbackOutcomes.                                        *)
Requeued(j) ==
  IF row[j].state \in Ends \ {"completed"} /\ j \in ranked /\ ~requeued
  THEN Row("pending", 0, Due[j],
           IF row[j].state = "pool_removed" THEN "backfill_removed" ELSE "backfill")
  ELSE row[j]

Start ==
  /\ ~up
  /\ up' = TRUE
  /\ row' = [j \in Jobs |-> Requeued(j)]
  /\ requeued' = TRUE
  /\ UNCHANGED <<now, crashes, failures, profile, baseline, ranked, worker, asks, removed>>

(* markSent, or createResearchSample; the pool of a graduated token is     *)
(* asked for, and nobody waits for it.                                     *)
Create(j) ==
  /\ up /\ row[j].state = "absent" /\ now < Due[j]
  /\ row' = [row EXCEPT ![j] = Pending(j)]
  /\ baseline' = IF Kind(j) = "signal" /\ Lifecycle(j) = "graduated"
                 THEN [baseline EXCEPT ![j] = "asking"] ELSE baseline
  /\ UNCHANGED <<now, up, crashes, failures, profile, requeued, ranked, worker, asks, removed>>

(* The answer is saved, unless it has no liquidity, or anything fails.     *)
savePoolBaseline(j) == baseline' = [baseline EXCEPT ![j] = "saved"]
capturePoolBaseline(j) ==
  /\ up /\ baseline[j] = "asking"
  /\ savePoolBaseline(j) \/ baseline' = [baseline EXCEPT ![j] = "none"]
  /\ UNCHANGED <<now, up, crashes, failures, profile, row, requeued, ranked, worker, asks,
                 removed>>

(* runDatabaseMaintenance: old signals, old or too many research samples   *)
(* go with their rows; old or too many snapshots with their prices.        *)
Maintain(j) ==
  /\ up /\ at # "next"
  /\ \/ /\ Kind(j) = "research" \/ Due[j] = 0
        /\ row[j].state \notin {"absent", "gone"}
        /\ row' = [row EXCEPT ![j] = Missing("gone")]
        /\ removed' = removed \ {j}
        /\ UNCHANGED ranked
     \/ /\ j \in ranked
        /\ ranked' = ranked \ {j}
        /\ UNCHANGED <<row, removed>>
  /\ UNCHANGED <<now, up, crashes, failures, profile, requeued, baseline, worker, asks>>

(* What was in memory is lost: the batch, and a baseline not yet saved.    *)
Crash ==
  /\ up /\ crashes + failures < MaxMishaps
  /\ crashes' = crashes + 1
  /\ up' = FALSE
  /\ baseline' = [j \in Jobs |-> IF baseline[j] = "asking" THEN "none" ELSE baseline[j]]
  /\ batch' = <<>> /\ at' = "idle" /\ startedAt' = 0
  /\ UNCHANGED <<now, failures, profile, row, requeued, ranked, asks, removed>>

-----------------------------------------------------------------------------
(* runDue: list the jobs, then run them in order. *)

(* Mutant: a row that was missed within its grace is left alone.           *)
DueJobsInTime(kind) ==
  {j \in Jobs : /\ Kind(j) = kind /\ row[j].state = "pending" /\ Due[j] <= now
                /\ row[j].next <= now /\ now < Due[j] + Grace}
(* A row of a signal is made by markSent, after which the signal is sent   *)
(* or confirmed for good: that the query asks for this excludes no row.    *)
DueJobs(kind) ==
  {j \in Jobs : Kind(j) = kind /\ row[j].state = "pending" /\ Due[j] <= now /\ row[j].next <= now}
Earlier(i, j) == Due[i] < Due[j] \/ (Due[i] = Due[j] /\ i < j)

(* ORDER BY due_at, id LIMIT n: the sequence of the first n of S.           *)
First(S, n) ==
  {s \in [1..Least(Cardinality(S), n) -> S] :
     /\ \A i, k \in DOMAIN s : i < k => Earlier(s[i], s[k])
     /\ \A i \in DOMAIN s, j \in S : Earlier(j, s[i]) => \E k \in DOMAIN s : s[k] = j}

(* The job as it was read; research jobs never have a baseline.            *)
Read(j) ==
  [id |-> j, attempt |-> row[j].attempts + 1, note |-> row[j].note,
   baseline |-> Kind(j) = "signal" /\ baseline[j] = "saved"]

RunDue ==
  /\ up /\ at = "idle"
  /\ \E signals \in First(DueJobs("signal"), Limit) :
       \E samples \in First(DueJobs("research"), Limit - Len(signals)) :
         LET chosen == signals \o samples
         IN /\ chosen # <<>>
            /\ batch' = [i \in DOMAIN chosen |-> Read(chosen[i])]
  /\ at' = "next"
  /\ UNCHANGED <<now, up, crashes, failures, database, startedAt, asks, removed>>

job == Head(batch)
Final1h == profile[job.id].final
Await(place, since) ==
  at' = place /\ startedAt' = since /\ UNCHANGED <<batch, row, removed, failures>>
NextJob ==
  /\ batch' = Tail(batch)
  /\ at' = (IF Tail(batch) = <<>> THEN "idle" ELSE "next") /\ startedAt' = 0

(* A write fails with the database, or because the row's signal or sample  *)
(* is gone, which violates its foreign key; the first kind is counted.     *)
Gone == row[job.id].state = "gone"
CanFail(writes) == Gone \/ crashes + failures + writes <= MaxMishaps
Failed(writes) == failures' = IF Gone THEN failures ELSE failures + writes

(* A write that throws in runJob's catch ends the whole tick.              *)
Abort(writes) ==
  /\ CanFail(writes) /\ Failed(writes)
  /\ batch' = <<>> /\ at' = "idle" /\ startedAt' = 0 /\ UNCHANGED <<row, removed>>

(* save, after so many writes that failed: the update applies to a pending *)
(* row only.                                                               *)
Store(new, writes) ==
  /\ ~Gone /\ CanFail(writes) /\ Failed(writes)
  /\ row' = IF row[job.id].state = "pending" THEN [row EXCEPT ![job.id] = new] ELSE row
  /\ removed' = IF new.state = "pool_removed" THEN removed \cup {job.id} ELSE removed
  /\ NextJob

Ended(state, note) == Row(state, Least(job.attempt, 3), Due[job.id], note)

(* Mutants: attempts are not counted; they are not limited.                *)
RetriedUncounted(state) ==
  IF startedAt < Due[job.id] + Grace
  THEN Row("pending", job.attempt - 1, Least(startedAt + Retry, Due[job.id] + Grace), "none")
  ELSE Ended(state, "none")

RetriedInPlace(state) ==
  IF startedAt < Due[job.id] + Grace
  THEN Row("pending", job.attempt, Least(startedAt + Retry, Due[job.id] + Grace), "none")
  ELSE Ended(state, "none")

(* retryOrComplete                                                         *)
Retried(state) ==
  IF job.attempt < 3 /\ startedAt < Due[job.id] + Grace
  THEN Row("pending", job.attempt, Least(startedAt + Retry, Due[job.id] + Grace), "none")
  ELSE Ended(state, "none")

(* The catch of runJob, for a request or a write that failed.              *)
Rescue(writes) == Store(Retried("retry_exhausted"), writes) \/ Abort(writes + 1)
Finish(new) == Store(new, 0) \/ (CanFail(1) /\ Rescue(1))

(* Mutant: nobody asks for a baseline.                                     *)
TerminalByLookup(lookup) == IF lookup = "liquid" THEN "no_trade"
                            ELSE IF lookup = "other" THEN "api_missing" ELSE "pool_removed"

(* What fetchPool may find: a pool with liquidity, the baseline's pool dry, *)
(* another dry pool, or none.                                              *)
Lookups == {"liquid", "dry", "other", "missing"}

terminalPoolState(lookup) ==
  IF lookup = "liquid" THEN "no_trade"
  ELSE IF lookup \in {"dry", "missing"} /\ job.baseline THEN "pool_removed"
  ELSE "api_missing"

(* confirmCompletedPoolRemoval: whether the pool has to be asked for.      *)
Confirms == Lifecycle(job.id) = "graduated" /\ Final1h /\ job.baseline
CompleteOrConfirm(note) ==
  IF Confirms /\ note # "removed" THEN Await("confirm", startedAt) ELSE Finish(Ended("completed", note))

(* The evidence a job is settled by: candles, of which calculateOutcome    *)
(* makes all the returns the checkpoint needs or not; else the rank prices *)
(* saved since; for a curve, trenches that saw it complete, saw no swap    *)
(* around due_at, or tell nothing.                                         *)
CandlesSuffice == {TRUE, FALSE}
HasPrices == job.id \in ranked
CurveEvidence == {"graduated", "no_trade", "unknown"}

(* runJob up to its first wait: a job without a price, a job of the        *)
(* backfill, an ordinary job.                                              *)
Backfill == job.note \in {"backfill", "backfill_removed"}
StartJob ==
  /\ at = "next"
  /\ \/ /\ ~profile[job.id].priced
        /\ Store(Ended("api_missing", "none"), 0) \/ Abort(1)
        /\ UNCHANGED asks
     \/ /\ profile[job.id].priced /\ Backfill
        /\ Await("backfill", now) /\ UNCHANGED asks
     \/ /\ profile[job.id].priced /\ ~Backfill
        /\ Await("klines", now)
        /\ asks' = [asks EXCEPT ![job.id] = Least(@ + 1, MaxAsks)]
  /\ UNCHANGED <<now, up, crashes, profile, requeued, baseline, ranked>>

(* The saved prices settle it; else what the row said before does.         *)
RunBackfill ==
  /\ at = "backfill"
  /\ IF HasPrices
     THEN CompleteOrConfirm(IF job.note = "backfill_removed" THEN "removed" ELSE "none")
     ELSE Finish(Ended(IF job.note = "backfill_removed" THEN "pool_removed" ELSE "api_missing", "none"))
  /\ UNCHANGED <<now, up, crashes, profile, requeued, baseline, ranked, asks>>

FromCandles(suffice) == IF suffice THEN CompleteOrConfirm("none") ELSE Finish(Retried("api_missing"))
FromCurve(evidence) ==
  CASE evidence = "graduated" -> Await("pool", startedAt)
    [] evidence = "no_trade"  -> Finish(Ended("no_trade", "none"))
    [] evidence = "unknown"   -> Finish(Retried("api_missing"))

(* fetchKlines failed, has candles, or has none.                           *)
KlinesAnswer ==
  /\ at = "klines"
  /\ \/ Rescue(0)
     \/ \E suffice \in CandlesSuffice : FromCandles(suffice)
     \/ HasPrices /\ CompleteOrConfirm("none")
     \/ ~HasPrices /\ Lifecycle(job.id) = "graduated" /\ Await("pool", startedAt)
     \/ /\ ~HasPrices /\ Lifecycle(job.id) = "curve"
        /\ \E evidence \in CurveEvidence : FromCurve(evidence)
  /\ UNCHANGED <<now, up, crashes, profile, requeued, baseline, ranked, asks>>

(* The outcome is known; the pool only tells whether it was removed since. *)
ConfirmAnswer ==
  /\ at = "confirm"
  /\ \/ Finish(Ended("completed", "none"))
     \/ \E lookup \in Lookups :
          /\ terminalPoolState(lookup) = "pool_removed"
          /\ Finish(Ended("completed", "removed"))
  /\ UNCHANGED <<now, up, crashes, profile, requeued, baseline, ranked, asks>>

(* The pool decides; a failed request or a pool of another token does not. *)
PoolAnswer ==
  /\ at = "pool"
  /\ \/ Rescue(0)
     \/ \E lookup \in Lookups : Finish(Ended(terminalPoolState(lookup), "none"))
  /\ UNCHANGED <<now, up, crashes, profile, requeued, baseline, ranked, asks>>

Work == StartJob \/ RunBackfill \/ KlinesAnswer \/ ConfirmAnswer \/ PoolAnswer

(* Time passes while everybody waits: for GMGN, for the timer, for a start. *)
Tick ==
  /\ at \in {"idle", "klines", "confirm", "pool"}
  /\ now < MaxTime
  /\ now' = now + 1
  /\ UNCHANGED <<up, crashes, failures, database, worker, asks, removed>>

Next ==
  \/ Start \/ Crash \/ RunDue \/ Work \/ Tick
  \/ \E j \in Jobs : Create(j) \/ capturePoolBaseline(j) \/ Maintain(j)

Spec == Init /\ [][Next]_vars

(* The process is started again, its timer fires, requests to GMGN end.    *)
FairSpec ==
  Spec /\ WF_vars(Start) /\ WF_vars(RunDue) /\ WF_vars(Work) /\ WF_vars(Tick)

-----------------------------------------------------------------------------
(* Properties. *)

Places == {"idle", "next", "backfill", "klines", "confirm", "pool"}
Notes == {"none", "backfill", "backfill_removed", "removed"}

(* The types; attempts keep within the CHECK of the table, and the worker  *)
(* has a job exactly while it is not idle.                                 *)
TypeOK ==
  /\ now \in Nat /\ up \in BOOLEAN /\ crashes \in Nat /\ failures \in Nat
  /\ crashes + failures <= MaxMishaps
  /\ profile \in Profiles
  /\ row \in [Jobs -> [state : Ends \cup {"pending", "absent", "gone"},
                       attempts : 0..3, next : Nat, note : Notes]]
  /\ requeued \in BOOLEAN
  /\ baseline \in [Jobs -> {"none", "asking", "saved"}]
  /\ ranked \subseteq Jobs
  /\ batch \in Seq([id : Jobs, attempt : 1..3, note : Notes, baseline : BOOLEAN])
  /\ at \in Places /\ (at = "idle" <=> batch = <<>>)
  /\ startedAt \in 0..now
  /\ asks \in [Jobs -> Nat] /\ removed \subseteq Jobs

(* A result is final: completed rows never change, and every other end is  *)
(* reopened at most once, by the backfill.  (Maintenance may delete it.)   *)
ResultsAreFinal ==
  [][\A j \in Jobs :
       row[j].state \in Ends /\ row'[j] # row[j] /\ row'[j].state # "gone"
         => row[j].state # "completed" /\ ~requeued]_vars

(* signal-outcomes-and-stats: no pool counts as removed that was not known *)
(* to exist before; a curve's missing pool, a research sample's, or a      *)
(* failed lookup is no removal.                                            *)
RemovalNeedsBaseline ==
  \A j \in Jobs :
    row[j].state = "pool_removed" \/ row[j].note \in {"removed", "backfill_removed"}
      => baseline[j] = "saved"

(* signal-outcomes-and-stats: at most three queries for a checkpoint; only *)
(* one whose result a crash or a failing database lost is repeated.        *)
AsksBounded == \A j \in Jobs : asks[j] <= 3 + crashes + failures

(* The backfill recomputes; a removal that was confirmed before is not     *)
(* lost by it, unless the write of its result fails.                       *)
RemovalIsKept ==
  failures = 0 => \A j \in removed :
    \/ row[j].state = "pool_removed"
    \/ row[j].note \in {"backfill_removed", "removed"}

(* signal-outcomes-and-stats: no checkpoint stays pending for ever, though *)
(* ticks are aborted, rows vanish and the process dies now and then.       *)
CheckpointsEnd == \A j \in Jobs : row[j].state = "pending" ~> row[j].state # "pending"
=============================================================================
