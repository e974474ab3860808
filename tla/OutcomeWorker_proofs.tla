------------------------ MODULE OutcomeWorker_proofs ------------------------
(***************************************************************************)
(* What OutcomeWorker promises about results and removals, for any jobs,   *)
(* limits, graces and numbers of mishaps.                                  *)
(***************************************************************************)
EXTENDS OutcomeWorker, SequenceTheorems, FiniteSetTheorems, TLAPS

WorkerRow == [state : Ends \cup {"pending", "absent", "gone"},
              attempts : 0..3, next : Nat, note : Notes]
BatchJob == [id : Jobs, attempt : 1..3, note : Notes, baseline : BOOLEAN]

(* What a row says, and what was known when it was written.                *)
RowInv(j) ==
  /\ row[j].state = "pending" => row[j].attempts <= 2
  /\ row[j].state = "absent" => baseline[j] = "none" /\ j \notin removed
  /\ row[j].note \in {"backfill", "backfill_removed"} => row[j].state = "pending"
  /\ row[j].note = "removed" => row[j].state = "completed"
  /\ row[j].state = "pool_removed" \/ row[j].note = "backfill_removed" => profile[j].priced
  /\ row[j].state = "pool_removed" \/ row[j].note \in {"removed", "backfill_removed"}
       => baseline[j] = "saved"
  /\ j \in removed => row[j].state # "gone"
  /\ failures = 0 /\ j \in removed =>
       row[j].state = "pool_removed" \/ row[j].note \in {"backfill_removed", "removed"}

(* A job of the batch is still what was read, unless its row is deleted.   *)
Known(b) ==
  /\ b.baseline \/ b.note = "backfill_removed" => baseline[b.id] = "saved"
  /\ row[b.id].state \in {"pending", "gone"}
  /\ row[b.id].state = "pending" =>
       row[b.id].attempts + 1 = b.attempt /\ row[b.id].note = b.note

BatchInv ==
  /\ \A i \in 1..Len(batch) : Known(batch[i])
  /\ \A i, k \in 1..Len(batch) : i # k => batch[i].id # batch[k].id

(* Where the worker waits tells what kind of job it has.                   *)
PlaceInv ==
  /\ ~up => batch = <<>>
  /\ at \notin {"idle", "next"} => profile[job.id].priced
  /\ at = "backfill" => Backfill
  /\ at \in {"klines", "pool"} => ~Backfill
  /\ at = "confirm" => job.note # "backfill_removed"

WorkerInv == TypeOK /\ (\A j \in Jobs : RowInv(j)) /\ BatchInv /\ PlaceInv

-----------------------------------------------------------------------------
(* The worker's job is the head of its batch.                              *)
LEMMA JobTyped ==
  ASSUME WorkerInv, batch # <<>>
  PROVE  job \in BatchJob /\ Known(job) /\ job = batch[1] /\ 1 \in 1..Len(batch)
<1>1. batch \in Seq(BatchJob)
  BY DEF WorkerInv, TypeOK, BatchJob
<1>2. Len(batch) \in Nat /\ Len(batch) # 0 /\ job = batch[1]
  BY <1>1, LenProperties, EmptySeq, HeadTailProperties DEF job
<1>3. 1 \in 1..Len(batch)
  BY <1>2
<1> QED BY <1>1, <1>2, <1>3, ElementOfSeq DEF WorkerInv, BatchInv

(* What the worker writes at the end of a job, after so many failed writes. *)
Result(new, writes) ==
  /\ new \in WorkerRow /\ new.state \in Ends \cup {"pending"}
  /\ new.state = "pending" => new.attempts = job.attempt /\ new.attempts <= 2
  /\ new.note \in {"none", "removed"}
  /\ new.note = "removed" => new.state = "completed"
  /\ new.state = "pool_removed" \/ new.note = "removed" => baseline[job.id] = "saved"
  /\ new.state = "pool_removed" => profile[job.id].priced
  /\ writes = 0 /\ job.note = "backfill_removed" =>
       new.state = "pool_removed" \/ new.note = "removed"

(* What all steps of the worker leave alone.                               *)
RestSame == UNCHANGED <<now, up, crashes, profile, requeued, baseline, ranked>>

LEMMA TailTyped ==
  ASSUME WorkerInv, batch # <<>>
  PROVE  /\ Tail(batch) \in Seq(BatchJob) /\ Len(Tail(batch)) \in Nat
         /\ \A i \in 1..Len(Tail(batch)) :
              /\ i + 1 \in 1..Len(batch) /\ Tail(batch)[i] = batch[i + 1]
              /\ Tail(batch)[i] \in BatchJob /\ Tail(batch)[i].id # job.id
         /\ Tail(batch) = <<>> <=> Len(Tail(batch)) = 0
<1>1. batch \in Seq(BatchJob)
  BY DEF WorkerInv, TypeOK, BatchJob
<1>2. /\ Tail(batch) \in Seq(BatchJob) /\ Len(Tail(batch)) = Len(batch) - 1
      /\ \A i \in 1..Len(Tail(batch)) : Tail(batch)[i] = batch[i + 1]
  BY <1>1, HeadTailProperties
<1>3. Len(batch) \in Nat /\ Len(Tail(batch)) \in Nat
      /\ (Tail(batch) = <<>> <=> Len(Tail(batch)) = 0)
  BY <1>1, <1>2, LenProperties, EmptySeq
<1>4. ASSUME NEW i \in 1..Len(Tail(batch)) PROVE i + 1 \in 1..Len(batch) /\ i + 1 # 1
  BY <1>2, <1>3
<1>5. job = batch[1] /\ 1 \in 1..Len(batch)
  BY JobTyped
<1>6. ASSUME NEW i \in 1..Len(Tail(batch))
      PROVE  Tail(batch)[i] \in BatchJob /\ Tail(batch)[i].id # job.id
  BY <1>2, <1>4, <1>5, ElementOfSeq DEF WorkerInv, BatchInv
<1> QED BY <1>2, <1>3, <1>4, <1>6

(* The batch goes on to its next job.                                      *)
LEMMA NextJobKeeps ==
  ASSUME WorkerInv, batch # <<>>, NextJob, UNCHANGED <<up, profile, baseline>>,
         \A j \in Jobs \ {job.id} : row'[j] = row[j]
  PROVE  /\ batch' \in Seq(BatchJob) /\ at' \in Places /\ startedAt' = 0
         /\ (at' = "idle" <=> batch' = <<>>)
         /\ BatchInv' /\ PlaceInv'
<1>1. /\ batch' = Tail(batch) /\ startedAt' = 0
      /\ at' = (IF Tail(batch) = <<>> THEN "idle" ELSE "next")
  BY DEF NextJob
<1>2. ASSUME NEW i \in 1..Len(batch') PROVE Known(batch[i])'
  <2>1. /\ i + 1 \in 1..Len(batch) /\ batch'[i] = batch[i + 1]
        /\ batch'[i] \in BatchJob /\ batch'[i].id # job.id
    BY <1>1, TailTyped
  <2>2. Known(batch'[i])
    BY <2>1 DEF WorkerInv, BatchInv
  <2>3. row'[batch'[i].id] = row[batch'[i].id] /\ baseline' = baseline
    BY <2>1 DEF BatchJob
  <2> QED BY <2>2, <2>3 DEF Known
<1>3. \A i, k \in 1..Len(batch') : i # k => batch'[i].id # batch'[k].id
  <2> SUFFICES ASSUME NEW i \in 1..Len(batch'), NEW k \in 1..Len(batch'), i # k
               PROVE  batch'[i].id # batch'[k].id
    OBVIOUS
  <2>1. i + 1 # k + 1 /\ i + 1 \in 1..Len(batch) /\ k + 1 \in 1..Len(batch)
    BY <1>1, TailTyped
  <2> QED BY <1>1, <2>1, TailTyped DEF WorkerInv, BatchInv
<1>4. PlaceInv'
  <2>1. up = TRUE /\ up' = TRUE
    BY DEF WorkerInv, TypeOK, PlaceInv
  <2>2. at' = "idle" \/ at' = "next"
    BY <1>1
  <2> QED BY <2>1, <2>2 DEF PlaceInv
<1>5. BatchInv'
  BY <1>2, <1>3 DEF BatchInv
<1>6. batch' \in Seq(BatchJob) /\ at' \in Places /\ (at' = "idle" <=> batch' = <<>>)
  BY <1>1, TailTyped DEF Places
<1> QED BY <1>1, <1>4, <1>5, <1>6

LEMMA StoreKeeps ==
  ASSUME WorkerInv, batch # <<>>, NEW writes \in Nat, NEW new, Result(new, writes),
         Store(new, writes), RestSame, asks' \in [Jobs -> Nat]
  PROVE  WorkerInv'
<1> USE WorkerAssumption
<1>1. /\ ~Gone /\ crashes + failures + writes <= MaxMishaps /\ failures' = failures + writes
      /\ NextJob
  BY DEF Store, CanFail, Failed
<1>2. job \in BatchJob /\ Known(job) /\ job.id \in Jobs
  BY JobTyped DEF BatchJob
<1>3. row[job.id].state = "pending" /\ row[job.id].note = job.note
  BY <1>1, <1>2 DEF Known, Gone
<1>4. row \in [Jobs -> WorkerRow] /\ row' = [row EXCEPT ![job.id] = new]
  BY <1>3 DEF Store, WorkerInv, TypeOK, WorkerRow
<1>5. row' \in [Jobs -> WorkerRow] /\ row'[job.id] = new
      /\ \A j \in Jobs \ {job.id} : row'[j] = row[j]
  BY <1>2, <1>4 DEF Result
<1>6. removed' = IF new.state = "pool_removed" THEN removed \cup {job.id} ELSE removed
  BY DEF Store
<1>7. failures \in Nat /\ crashes \in Nat /\ failures' \in Nat /\ (failures' = 0 => failures = 0 /\ writes = 0)
  BY <1>1 DEF WorkerInv, TypeOK
<1>8. /\ batch' \in Seq(BatchJob) /\ at' \in Places /\ startedAt' = 0
      /\ (at' = "idle" <=> batch' = <<>>)
      /\ BatchInv' /\ PlaceInv'
  BY <1>1, <1>5, NextJobKeeps DEF RestSame
<1>9. TypeOK'
  <2>1. crashes' + failures' <= MaxMishaps
    BY <1>1, <1>7 DEF RestSame
  <2>2. startedAt' \in 0..now'
    BY <1>8 DEF RestSame, WorkerInv, TypeOK
  <2> QED BY <1>2, <1>5, <1>6, <1>7, <1>8, <2>1, <2>2
          DEF TypeOK, WorkerInv, RestSame, BatchJob, WorkerRow
<1>10. ASSUME NEW j \in Jobs \ {job.id} PROVE RowInv(j)'
  <2>1. RowInv(j) /\ row'[j] = row[j] /\ (j \in removed' <=> j \in removed)
    BY <1>5, <1>6 DEF WorkerInv
  <2> QED BY <1>7, <2>1 DEF RowInv, RestSame
<1>11. ASSUME NEW i \in Jobs, i = job.id PROVE RowInv(i)'
  <2>1. RowInv(i) /\ row'[i] = new /\ UNCHANGED <<baseline, profile>>
    BY <1>5, <1>11 DEF WorkerInv, RestSame
  <2>2. i \in removed' /\ failures' = 0 => new.state = "pool_removed" \/ new.note = "removed"
    BY <1>3, <1>6, <1>7, <1>11, <2>1 DEF RowInv, Result
  <2>3. new.state \notin {"absent", "gone"} /\ new.note \notin {"backfill", "backfill_removed"}
    BY DEF Result, Ends
  <2> QED BY <1>11, <2>1, <2>2, <2>3 DEF RowInv, Result
<1> QED BY <1>8, <1>9, <1>10, <1>11 DEF WorkerInv

(* A tick that is aborted leaves the rest of its jobs as they are.         *)
LEMMA AbortKeeps ==
  ASSUME WorkerInv, batch # <<>>, NEW writes \in Nat, Abort(writes), RestSame,
         asks' \in [Jobs -> Nat]
  PROVE  WorkerInv'
<1> USE WorkerAssumption
<1>1. /\ batch' = <<>> /\ at' = "idle" /\ startedAt' = 0 /\ UNCHANGED <<row, removed>>
      /\ CanFail(writes) /\ failures' = IF Gone THEN failures ELSE failures + writes
  BY DEF Abort, Failed
<1>2. failures' \in Nat /\ crashes + failures' <= MaxMishaps /\ (failures' = 0 => failures = 0)
  BY <1>1 DEF CanFail, WorkerInv, TypeOK
<1>3. Len(batch') = 0 /\ batch' \in Seq(BatchJob)
  BY <1>1, EmptySeq
<1>4. TypeOK'
  BY <1>1, <1>2, <1>3 DEF WorkerInv, TypeOK, RestSame, BatchJob, Places
<1>5. \A j \in Jobs : RowInv(j)'
  BY <1>1, <1>2 DEF WorkerInv, RowInv, RestSame
<1>6. BatchInv' /\ PlaceInv'
  BY <1>1, <1>3 DEF BatchInv, PlaceInv
<1> QED BY <1>4, <1>5, <1>6 DEF WorkerInv

LEMMA AwaitKeeps ==
  ASSUME WorkerInv, batch # <<>>, RestSame, asks' \in [Jobs -> Nat],
         NEW place \in Places \ {"idle", "next"}, NEW since \in 0..now, Await(place, since),
         profile[job.id].priced, place = "backfill" => Backfill,
         place \in {"klines", "pool"} => ~Backfill, place = "confirm" => job.note # "backfill_removed"
  PROVE  WorkerInv'
<1>1. at' = place /\ startedAt' = since /\ UNCHANGED <<batch, row, removed, failures>>
  BY DEF Await
<1>2. TypeOK'
  BY <1>1 DEF WorkerInv, TypeOK, RestSame, Places
<1>3. \A j \in Jobs : RowInv(j)'
  BY <1>1 DEF WorkerInv, RowInv, RestSame
<1>4. BatchInv'
  BY <1>1 DEF WorkerInv, BatchInv, Known, RestSame
<1>5. PlaceInv'
  BY <1>1 DEF WorkerInv, PlaceInv, RestSame, Backfill, job
<1> QED BY <1>2, <1>3, <1>4, <1>5 DEF WorkerInv

-----------------------------------------------------------------------------
(* The results the worker writes.                                          *)
LEMMA LeastTyped ==
  ASSUME NEW a \in Nat, NEW b \in Nat PROVE Least(a, b) \in Nat /\ Least(a, b) <= a
BY DEF Least

LEMMA EndedResult ==
  ASSUME WorkerInv, batch # <<>>, NEW state \in Ends, NEW note \in {"none", "removed"},
         NEW writes \in Nat,
         note = "removed" => state = "completed",
         state = "pool_removed" \/ note = "removed" => baseline[job.id] = "saved",
         state = "pool_removed" => profile[job.id].priced,
         writes = 0 /\ job.note = "backfill_removed" => state = "pool_removed" \/ note = "removed"
  PROVE  Result(Ended(state, note), writes)
<1> USE JobsAssumption
<1>1. job.id \in Jobs /\ job.attempt \in 1..3
  BY JobTyped DEF BatchJob
<1>2. Least(job.attempt, 3) \in 0..3 /\ Due[job.id] \in Nat
  <2>1. Due[job.id] \in Nat
    BY <1>1
  <2>2. Least(job.attempt, 3) \in 0..3
    BY <1>1 DEF Least
  <2> QED BY <2>1, <2>2
<1>3. Ended(state, note) \in WorkerRow
  BY <1>2 DEF Ended, Row, WorkerRow, Notes
<1>4. Ended(state, note).state = state /\ Ended(state, note).note = note /\ state # "pending"
  BY DEF Ended, Row, Ends
<1> QED BY <1>3, <1>4 DEF Result

LEMMA RetriedResult ==
  ASSUME WorkerInv, batch # <<>>, NEW state \in {"api_missing", "retry_exhausted"},
         NEW writes \in Nat, writes = 0 => job.note # "backfill_removed"
  PROVE  Result(Retried(state), writes)
<1> USE JobsAssumption, WorkerAssumption
<1>1. job.id \in Jobs /\ job.attempt \in 1..3 /\ startedAt \in Nat
  BY JobTyped DEF BatchJob, WorkerInv, TypeOK
<1>2. CASE job.attempt < 3 /\ startedAt < Due[job.id] + Grace
  <2> DEFINE next == Least(startedAt + Retry, Due[job.id] + Grace)
  <2>0. Due[job.id] \in Nat
    BY <1>1
  <2>1. startedAt + Retry \in Nat /\ Due[job.id] + Grace \in Nat
    BY <1>1, <2>0
  <2>2. next \in Nat
    BY <2>1, LeastTyped
  <2>3. Retried(state) = Row("pending", job.attempt, next, "none")
    BY <1>2 DEF Retried
  <2> HIDE DEF next
  <2>4. Retried(state) \in WorkerRow /\ Retried(state).attempts = job.attempt
        /\ Retried(state).state = "pending" /\ Retried(state).note = "none"
    BY <1>1, <2>2, <2>3 DEF Row, WorkerRow, Notes
  <2> QED BY <1>1, <1>2, <2>4 DEF Result
<1>3. CASE ~(job.attempt < 3 /\ startedAt < Due[job.id] + Grace)
  <2>1. Retried(state) = Ended(state, "none")
    BY <1>3 DEF Retried
  <2>2. state \in Ends /\ state # "pool_removed"
    BY DEF Ends
  <2> QED BY <2>1, <2>2, EndedResult
<1> QED BY <1>2, <1>3

(* What the worker does next: write a result, give up the tick, or wait.   *)
Waiting == {"klines", "confirm", "pool"}
Stores == \E writes \in Nat, new \in WorkerRow : Result(new, writes) /\ Store(new, writes)
Aborts == \E writes \in Nat \ {0} : Abort(writes)
Awaits ==
  \E place \in Places \ {"idle", "next"}, since \in 0..now :
    /\ Await(place, since)
    /\ profile[job.id].priced
    /\ place = "backfill" => Backfill
    /\ place \in {"klines", "pool"} => ~Backfill
    /\ place = "confirm" => job.note # "backfill_removed"
    /\ at \in Waiting => place \in Waiting
Does == Stores \/ Aborts \/ Awaits

LEMMA StoreDoes ==
  ASSUME NEW writes \in Nat, NEW new, Result(new, writes), Store(new, writes) PROVE Stores
BY DEF Stores, Result

LEMMA AbortDoes == ASSUME NEW writes \in Nat, Abort(writes + 1) PROVE Aborts
<1>1. writes + 1 \in Nat \ {0}
  OBVIOUS
<1> QED BY <1>1 DEF Aborts

LEMMA RescueDoes ==
  ASSUME WorkerInv, batch # <<>>, NEW writes \in Nat,
         writes = 0 => job.note # "backfill_removed", Rescue(writes)
  PROVE  Stores \/ Aborts
BY RetriedResult, StoreDoes, AbortDoes DEF Rescue

LEMMA FinishDoes ==
  ASSUME WorkerInv, batch # <<>>, NEW new, Result(new, 0), Finish(new)
  PROVE  Stores \/ Aborts
BY StoreDoes, RescueDoes DEF Finish

(* A pool counts as removed only for a job with a baseline.                *)
LEMMA RemovedWithBaseline ==
  ASSUME WorkerInv, batch # <<>>, NEW lookup \in Lookups
  PROVE  /\ terminalPoolState(lookup) \in Ends
         /\ terminalPoolState(lookup) = "pool_removed" => baseline[job.id] = "saved"
BY JobTyped DEF terminalPoolState, Ends, Known

LEMMA CompletedDoes ==
  ASSUME WorkerInv, batch # <<>>, NEW note \in {"none", "removed"},
         at \in {"backfill", "klines"}, note = "removed" <=> job.note = "backfill_removed",
         CompleteOrConfirm(note)
  PROVE  Does
<1>1. baseline[job.id] = "saved" \/ note # "removed"
  BY JobTyped DEF Known
<1>2. Result(Ended("completed", note), 0)
  BY <1>1, EndedResult DEF Ends
<1>3. startedAt \in 0..now /\ profile[job.id].priced
  BY DEF WorkerInv, TypeOK, PlaceInv
<1>4. CASE Await("confirm", startedAt) /\ note # "removed"
  BY <1>3, <1>4 DEF Places, Waiting, Does, Awaits
<1> QED BY <1>2, <1>4, FinishDoes DEF CompleteOrConfirm, Does

LEMMA WorkDoes ==
  ASSUME WorkerInv, Work
  PROVE  /\ Does /\ RestSame /\ batch # <<>> /\ at # "idle" /\ job.id \in Jobs
         /\ \/ asks' = asks
            \/ /\ asks' = [asks EXCEPT ![job.id] = Least(@ + 1, MaxAsks)]
               /\ at = "next" /\ at' = "klines" /\ Awaits
<1> USE JobsAssumption, WorkerAssumption
<1>1. at # "idle" /\ batch # <<>> /\ job.id \in Jobs /\ startedAt \in 0..now /\ now \in 0..now
  <2>1. at # "idle"
    BY DEF Work, StartJob, RunBackfill, KlinesAnswer, ConfirmAnswer, PoolAnswer
  <2>2. batch # <<>>
    BY <2>1 DEF WorkerInv, TypeOK
  <2> QED BY <2>1, <2>2, JobTyped DEF WorkerInv, TypeOK, BatchJob
<1>2. RestSame
  BY DEF Work, StartJob, RunBackfill, KlinesAnswer, ConfirmAnswer, PoolAnswer, RestSame
<1>3. \/ asks' = asks
      \/ /\ asks' = [asks EXCEPT ![job.id] = Least(@ + 1, MaxAsks)]
         /\ at = "next" /\ at' = "klines" /\ Awaits
  <2>1. CASE UNCHANGED asks
    BY <2>1
  <2>2. CASE /\ at = "next" /\ profile[job.id].priced /\ ~Backfill
             /\ Await("klines", now)
             /\ asks' = [asks EXCEPT ![job.id] = Least(@ + 1, MaxAsks)]
    <3>1. at' = "klines"
      BY <2>2 DEF Await
    <3>2. Awaits
      BY <1>1, <2>2 DEF Awaits, Places, Waiting
    <3> QED BY <2>2, <3>1, <3>2
  <2> QED BY <2>1, <2>2 DEF Work, StartJob, RunBackfill, KlinesAnswer, ConfirmAnswer, PoolAnswer
<1>4. ASSUME StartJob PROVE Does
  <2>1. CASE ~profile[job.id].priced /\ Store(Ended("api_missing", "none"), 0)
    <3>1. row[job.id].state = "pending" => job.note # "backfill_removed"
      BY <1>1, <2>1, JobTyped DEF WorkerInv, RowInv, Known
    <3>2. job.note # "backfill_removed"
      BY <1>1, <2>1, <3>1, JobTyped DEF Store, Gone, Known
    <3>3. Result(Ended("api_missing", "none"), 0)
      BY <1>1, <3>2, EndedResult DEF Ends
    <3> QED BY <1>1, <2>1, <3>3, StoreDoes DEF Does
  <2>2. CASE Abort(1)
    BY <2>2 DEF Does, Aborts
  <2>3. CASE profile[job.id].priced /\ Backfill /\ Await("backfill", now)
    <3>1. at = "next"
      BY <1>4 DEF StartJob
    <3> QED BY <1>1, <2>3, <3>1 DEF Places, Waiting, Does, Awaits
  <2>4. CASE profile[job.id].priced /\ ~Backfill /\ Await("klines", now)
    BY <1>1, <2>4 DEF Places, Waiting, Does, Awaits
  <2> QED BY <1>4, <2>1, <2>2, <2>3, <2>4 DEF StartJob
<1>5. ASSUME RunBackfill PROVE Does
  <2>1. at = "backfill" /\ profile[job.id].priced
    BY <1>5 DEF RunBackfill, WorkerInv, PlaceInv
  <2>2. CASE HasPrices
    BY <1>1, <1>5, <2>1, <2>2, CompletedDoes DEF RunBackfill
  <2>3. CASE ~HasPrices
    <3> DEFINE state == IF job.note = "backfill_removed" THEN "pool_removed" ELSE "api_missing"
    <3>1. state \in Ends /\ (state = "pool_removed" <=> job.note = "backfill_removed")
      BY DEF Ends
    <3>2. Finish(Ended(state, "none"))
      BY <1>5, <2>3 DEF RunBackfill
    <3> HIDE DEF state
    <3>3. Result(Ended(state, "none"), 0)
      BY <1>1, <2>1, <3>1, JobTyped, EndedResult DEF Known
    <3> QED BY <1>1, <3>2, <3>3, FinishDoes DEF Does
  <2> QED BY <2>2, <2>3
<1>6. ASSUME KlinesAnswer PROVE Does
  <2>1. at = "klines" /\ profile[job.id].priced /\ ~Backfill /\ job.note # "backfill_removed"
    BY <1>6 DEF KlinesAnswer, WorkerInv, PlaceInv, Backfill
  <2>2. CASE Rescue(0)
    BY <1>1, <2>1, <2>2, RescueDoes DEF Does
  <2>3. CASE CompleteOrConfirm("none")
    BY <1>1, <2>1, <2>3, CompletedDoes
  <2>4. CASE Finish(Retried("api_missing"))
    BY <1>1, <2>1, <2>4, RetriedResult, FinishDoes DEF Does
  <2>5. CASE Await("pool", startedAt)
    BY <1>1, <2>1, <2>5 DEF Places, Waiting, Does, Awaits
  <2>6. CASE Finish(Ended("no_trade", "none"))
    <3>1. Result(Ended("no_trade", "none"), 0)
      BY <1>1, <2>1, EndedResult DEF Ends
    <3> QED BY <1>1, <2>6, <3>1, FinishDoes DEF Does
  <2> QED BY <1>6, <2>2, <2>3, <2>4, <2>5, <2>6
          DEF KlinesAnswer, FromCandles, FromCurve, CurveEvidence
<1>7. ASSUME ConfirmAnswer PROVE Does
  <2>1. at = "confirm" /\ job.note # "backfill_removed"
    BY <1>7 DEF ConfirmAnswer, WorkerInv, PlaceInv
  <2>2. CASE Finish(Ended("completed", "none"))
    <3>1. Result(Ended("completed", "none"), 0)
      BY <1>1, <2>1, EndedResult DEF Ends
    <3> QED BY <1>1, <2>2, <3>1, FinishDoes DEF Does
  <2>3. ASSUME NEW lookup \in Lookups, terminalPoolState(lookup) = "pool_removed",
               Finish(Ended("completed", "removed"))
        PROVE  Does
    <3>1. Result(Ended("completed", "removed"), 0)
      BY <1>1, <2>1, <2>3, RemovedWithBaseline, EndedResult DEF Ends
    <3> QED BY <1>1, <2>3, <3>1, FinishDoes DEF Does
  <2> QED BY <1>7, <2>2, <2>3 DEF ConfirmAnswer
<1>8. ASSUME PoolAnswer PROVE Does
  <2>1. at = "pool" /\ profile[job.id].priced /\ job.note # "backfill_removed"
    BY <1>8 DEF PoolAnswer, WorkerInv, PlaceInv, Backfill
  <2>2. CASE Rescue(0)
    BY <1>1, <2>1, <2>2, RescueDoes DEF Does
  <2>3. ASSUME NEW lookup \in Lookups, Finish(Ended(terminalPoolState(lookup), "none"))
        PROVE  Does
    <3>1. Result(Ended(terminalPoolState(lookup), "none"), 0)
      BY <1>1, <2>1, RemovedWithBaseline, EndedResult
    <3> QED BY <1>1, <2>3, <3>1, FinishDoes DEF Does
  <2> QED BY <1>8, <2>2, <2>3 DEF PoolAnswer
<1>9. Does
  BY <1>4, <1>5, <1>6, <1>7, <1>8 DEF Work
<1> QED BY <1>1, <1>2, <1>3, <1>9


LEMMA AsksTyped ==
  ASSUME WorkerInv, Work PROVE asks' \in [Jobs -> Nat] /\ \A j \in Jobs : asks'[j] <= asks[j] + 1
<1>0. asks \in [Jobs -> Nat]
  BY DEF WorkerInv, TypeOK
<1>1. \A id \in Jobs : /\ asks[id] \in Nat /\ Least(asks[id] + 1, MaxAsks) \in Nat
                       /\ Least(asks[id] + 1, MaxAsks) <= asks[id] + 1
  BY <1>0, WorkerAssumption DEF MaxAsks, Least
<1> QED BY <1>0, <1>1, WorkDoes

LEMMA WorkStep == ASSUME WorkerInv, Work PROVE WorkerInv'
<1>1. Does /\ RestSame /\ batch # <<>> /\ asks' \in [Jobs -> Nat]
  BY WorkDoes, AsksTyped
<1>2. CASE Stores
  BY <1>1, <1>2, StoreKeeps DEF Stores
<1>3. CASE Aborts
  BY <1>1, <1>3, AbortKeeps DEF Aborts
<1>4. CASE Awaits
  BY <1>1, <1>4, AwaitKeeps DEF Awaits
<1> QED BY <1>1, <1>2, <1>3, <1>4 DEF Does

-----------------------------------------------------------------------------
(* runDue.  The jobs listed are pending, in order, and none is listed      *)
(* twice.                                                                  *)
LEMMA Irreflexive == \A i \in Jobs : ~Earlier(i, i)
BY JobsAssumption DEF Earlier

LEMMA FirstTyped ==
  ASSUME NEW S \in SUBSET Jobs, NEW n \in Nat, NEW s \in First(S, n)
  PROVE  /\ s \in Seq(S) /\ Len(s) \in Nat /\ Len(s) <= n
         /\ \A i, k \in 1..Len(s) : i # k => s[i] # s[k]
<1>1. Cardinality(S) \in Nat
  BY JobsAssumption, FS_Subset, FS_CardinalityType
<1> DEFINE m == Least(Cardinality(S), n)
<1>2. m \in Nat /\ m <= n
  BY <1>1 DEF Least
<1>3. s \in [1..m -> S] /\ \A i, k \in DOMAIN s : i < k => Earlier(s[i], s[k])
  BY DEF First
<1> HIDE DEF m
<1>4. s \in Seq(S)
  BY <1>2, <1>3, SeqDef
<1>5. Len(s) = m /\ DOMAIN s = 1..m
  BY <1>2, <1>3, <1>4, LenProperties
<1>6. ASSUME NEW i \in 1..m, NEW k \in 1..m, i # k PROVE s[i] # s[k]
  <2>1. s[i] \in Jobs /\ s[k] \in Jobs /\ (i < k \/ k < i)
    BY <1>2, <1>3, <1>6
  <2> QED BY <1>3, <1>5, <2>1, Irreflexive
<1> QED BY <1>2, <1>4, <1>5, <1>6

(* The signals' jobs and the samples' are different ones.                  *)
LEMMA ChosenTyped ==
  ASSUME NEW signals \in First(DueJobs("signal"), Limit),
         NEW samples \in First(DueJobs("research"), Limit - Len(signals))
  PROVE  LET chosen == signals \o samples
         IN /\ chosen \in Seq(DueJobs("signal") \cup DueJobs("research"))
            /\ Len(chosen) \in Nat
            /\ \A i, k \in 1..Len(chosen) : i # k => chosen[i] # chosen[k]
<1> DEFINE A == DueJobs("signal")
           B == DueJobs("research")
           chosen == signals \o samples
<1>1. A \subseteq Jobs /\ B \subseteq Jobs /\ A \cap B = {}
  BY DEF DueJobs
<1> HIDE DEF A, B
<1>2. Limit \in Nat
  BY WorkerAssumption
<1>3. /\ signals \in Seq(A) /\ Len(signals) \in Nat /\ Len(signals) <= Limit
      /\ \A i, k \in 1..Len(signals) : i # k => signals[i] # signals[k]
  BY <1>1, <1>2, FirstTyped DEF A
<1>4. Limit - Len(signals) \in Nat
  BY <1>2, <1>3
<1>5. /\ samples \in Seq(B) /\ Len(samples) \in Nat
      /\ \A i, k \in 1..Len(samples) : i # k => samples[i] # samples[k]
  BY <1>1, <1>4, FirstTyped DEF B
<1>6. signals \in Seq(A \cup B) /\ samples \in Seq(A \cup B)
  BY <1>3, <1>5, SeqMonotonic
<1>7. /\ chosen \in Seq(A \cup B) /\ Len(chosen) = Len(signals) + Len(samples)
      /\ \A i \in 1..Len(signals) + Len(samples) :
           chosen[i] = IF i <= Len(signals) THEN signals[i] ELSE samples[i - Len(signals)]
  BY <1>6, ConcatProperties
<1> HIDE DEF chosen
<1>8. ASSUME NEW i \in 1..Len(chosen)
      PROVE  \/ i \in 1..Len(signals) /\ chosen[i] = signals[i] /\ chosen[i] \in A
             \/ /\ i - Len(signals) \in 1..Len(samples)
                /\ chosen[i] = samples[i - Len(signals)] /\ chosen[i] \in B
  <2>1. CASE i <= Len(signals)
    <3>1. i \in 1..Len(signals) /\ chosen[i] = signals[i]
      BY <1>3, <1>5, <1>7, <2>1
    <3> QED BY <1>3, <3>1, ElementOfSeq
  <2>2. CASE ~(i <= Len(signals))
    <3>1. i - Len(signals) \in 1..Len(samples) /\ chosen[i] = samples[i - Len(signals)]
      BY <1>3, <1>5, <1>7, <2>2
    <3> QED BY <1>5, <3>1, ElementOfSeq
  <2> QED BY <2>1, <2>2
<1>9. ASSUME NEW i \in 1..Len(chosen), NEW k \in 1..Len(chosen), i # k
      PROVE  chosen[i] # chosen[k]
  <2>1. i \in Int /\ k \in Int
    OBVIOUS
  <2>2. i - Len(signals) # k - Len(signals)
    BY <1>3, <1>9, <2>1
  <2> QED BY <1>1, <1>3, <1>5, <1>8, <1>9, <2>2
<1>10. Len(chosen) \in Nat
  BY <1>3, <1>5, <1>7
<1> QED BY <1>7, <1>9, <1>10 DEF A, B, chosen

LEMMA ReadKnown ==
  ASSUME WorkerInv, NEW j \in DueJobs("signal") \cup DueJobs("research")
  PROVE  Read(j) \in BatchJob /\ Known(Read(j)) /\ Read(j).id = j
<1>1. j \in Jobs /\ row[j].state = "pending" /\ RowInv(j)
  BY DEF DueJobs, WorkerInv
<1>2. row[j] \in WorkerRow
  BY <1>1 DEF WorkerInv, TypeOK, WorkerRow
<1>3. row[j].attempts + 1 \in 1..3 /\ row[j].note \in Notes
  BY <1>1, <1>2 DEF RowInv, WorkerRow
<1>4. (Kind(j) = "signal" /\ baseline[j] = "saved") \in BOOLEAN
  OBVIOUS
<1>5. Read(j) \in BatchJob
  BY <1>1, <1>3, <1>4 DEF Read, BatchJob
<1>6. /\ Read(j).id = j /\ Read(j).attempt = row[j].attempts + 1 /\ Read(j).note = row[j].note
      /\ Read(j).baseline = (Kind(j) = "signal" /\ baseline[j] = "saved")
  BY DEF Read
<1>7. Known(Read(j))
  BY <1>1, <1>6 DEF Known, RowInv
<1> QED BY <1>5, <1>6, <1>7

LEMMA RunDueStep ==
  ASSUME WorkerInv, RunDue
  PROVE  WorkerInv' /\ \A i \in 1..Len(batch') : row[batch'[i].id].state = "pending"
<1>1. PICK signals \in First(DueJobs("signal"), Limit) :
      \E samples \in First(DueJobs("research"), Limit - Len(signals)) :
        LET chosen == signals \o samples
        IN /\ chosen # <<>>
           /\ batch' = [i \in DOMAIN chosen |-> Read(chosen[i])]
  BY DEF RunDue
<1>2. PICK samples \in First(DueJobs("research"), Limit - Len(signals)) :
        LET chosen == signals \o samples
        IN /\ chosen # <<>>
           /\ batch' = [i \in DOMAIN chosen |-> Read(chosen[i])]
  BY <1>1
<1> DEFINE S == DueJobs("signal") \cup DueJobs("research")
           chosen == signals \o samples
<1>3. /\ chosen \in Seq(S) /\ Len(chosen) \in Nat
      /\ \A i, k \in 1..Len(chosen) : i # k => chosen[i] # chosen[k]
  BY ChosenTyped
<1>4. chosen # <<>> /\ batch' = [i \in DOMAIN chosen |-> Read(chosen[i])]
  BY <1>2
<1> HIDE DEF chosen
<1>5. DOMAIN chosen = 1..Len(chosen) /\ Len(chosen) # 0
  BY <1>3, <1>4, LenProperties, EmptySeq
<1>6. ASSUME NEW i \in 1..Len(chosen)
      PROVE  /\ batch'[i] = Read(chosen[i]) /\ batch'[i] \in BatchJob
             /\ batch'[i].id = chosen[i] /\ Known(Read(chosen[i]))
  <2>1. chosen[i] \in S
    BY <1>3, ElementOfSeq
  <2> QED BY <1>4, <1>5, <2>1, ReadKnown
<1>7. batch' \in [1..Len(chosen) -> BatchJob]
  BY <1>4, <1>5, <1>6
<1>8. batch' \in Seq(BatchJob)
  BY <1>3, <1>7, SeqDef
<1>9. Len(batch') = Len(chosen) /\ batch' # <<>>
  BY <1>3, <1>5, <1>7, <1>8, LenProperties, EmptySeq
<1>10. /\ at = "idle" /\ at' = "next" /\ up = TRUE
       /\ UNCHANGED <<now, up, crashes, failures, profile, row, requeued, baseline, ranked,
                      startedAt, asks, removed>>
  BY DEF RunDue, database, WorkerInv, TypeOK
<1>11. TypeOK'
  BY <1>8, <1>9, <1>10 DEF WorkerInv, TypeOK, BatchJob, Places
<1>12. \A j \in Jobs : RowInv(j)'
  BY <1>10 DEF WorkerInv, RowInv
<1>13. BatchInv'
  <2>1. ASSUME NEW i \in 1..Len(batch') PROVE Known(batch[i])'
    BY <1>6, <1>9, <1>10 DEF Known
  <2>2. ASSUME NEW i \in 1..Len(batch'), NEW k \in 1..Len(batch'), i # k
        PROVE  batch'[i].id # batch'[k].id
    BY <1>3, <1>6, <1>9, <2>2
  <2> QED BY <2>1, <2>2 DEF BatchInv
<1>14. PlaceInv'
  BY <1>10 DEF PlaceInv
<1>15. ASSUME NEW i \in 1..Len(batch') PROVE row[batch'[i].id].state = "pending"
  <2>1. i \in 1..Len(chosen)
    BY <1>9
  <2>2. chosen[i] \in S
    BY <1>3, <2>1, ElementOfSeq
  <2> QED BY <1>6, <2>1, <2>2 DEF DueJobs
<1> QED BY <1>11, <1>12, <1>13, <1>14, <1>15 DEF WorkerInv

-----------------------------------------------------------------------------
(* The rows' other writers.                                                *)

(* A worker that does nothing may go on where it is.                       *)
LEMMA WorkerSame ==
  ASSUME WorkerInv, UNCHANGED <<up, profile, worker>>,
         \A j \in Jobs : baseline[j] = "saved" => baseline'[j] = "saved",
         \A j \in Jobs : row'[j] = row[j] \/ row'[j].state = "gone" \/ row[j].state = "absent"
  PROVE  BatchInv' /\ PlaceInv'
<1>1. UNCHANGED <<batch, at, up, profile>> /\ batch \in Seq(BatchJob)
  BY DEF worker, WorkerInv, TypeOK, BatchJob
<1>2. ASSUME NEW i \in 1..Len(batch) PROVE Known(batch[i])'
  <2>1. Known(batch[i])
    BY DEF WorkerInv, BatchInv
  <2>2. batch[i] \in BatchJob
    BY <1>1, ElementOfSeq
  <2>3. batch[i].id \in Jobs /\ batch' = batch
    BY <1>1, <2>2 DEF BatchJob
  <2> QED BY <2>1, <2>3 DEF Known
<1>3. BatchInv'
  BY <1>1, <1>2 DEF WorkerInv, BatchInv
<1>4. PlaceInv'
  BY <1>1 DEF WorkerInv, PlaceInv, Backfill, job
<1> QED BY <1>3, <1>4

LEMMA IdleBatch ==
  ASSUME batch' = <<>>, at' = "idle" PROVE BatchInv' /\ PlaceInv'
BY EmptySeq DEF BatchInv, PlaceInv

LEMMA StartStep == ASSUME WorkerInv, Start PROVE WorkerInv'
<1> USE JobsAssumption, WorkerAssumption
<1>1. /\ up' = TRUE /\ batch = <<>> /\ at = "idle" /\ row' = [j \in Jobs |-> Requeued(j)]
      /\ requeued' = TRUE
      /\ UNCHANGED <<now, crashes, failures, profile, baseline, ranked, batch, at, startedAt,
                     asks, removed>>
  BY DEF Start, worker, WorkerInv, TypeOK, PlaceInv
<1>2. ASSUME NEW j \in Jobs
      PROVE  /\ row'[j] \in WorkerRow
             /\ \/ row'[j] = row[j]
                \/ /\ row[j].state \in Ends \ {"completed"}
                   /\ row'[j].state = "pending" /\ row'[j].attempts = 0
                   /\ row'[j].note = IF row[j].state = "pool_removed"
                                     THEN "backfill_removed" ELSE "backfill"
  <2>1. row[j] \in WorkerRow /\ Due[j] \in Nat /\ row'[j] = Requeued(j)
    BY <1>1 DEF WorkerInv, TypeOK, WorkerRow
  <2> QED BY <2>1 DEF Requeued, Row, WorkerRow, Notes
<1>3. TypeOK'
  BY <1>1, <1>2 DEF WorkerInv, TypeOK, WorkerRow
<1>4. \A j \in Jobs : RowInv(j)'
  <2> SUFFICES ASSUME NEW j \in Jobs PROVE RowInv(j)'
    OBVIOUS
  <2>1. RowInv(j) /\ UNCHANGED <<failures, profile, baseline, removed>>
    BY <1>1 DEF WorkerInv
  <2>2. CASE row'[j] = row[j]
    BY <2>1, <2>2 DEF RowInv
  <2>3. CASE row'[j] # row[j]
    <3>1. /\ row[j].state \in Ends \ {"completed"}
          /\ row'[j].state = "pending" /\ row'[j].attempts = 0
          /\ row'[j].note = IF row[j].state = "pool_removed" THEN "backfill_removed" ELSE "backfill"
      BY <1>2, <2>3
    <3>2. row[j].state # "pending" /\ row[j].state # "gone" /\ row[j].state # "completed"
      BY <3>1 DEF Ends
    <3> QED BY <2>1, <3>1, <3>2 DEF RowInv
  <2> QED BY <2>2, <2>3
<1> QED BY <1>1, <1>3, <1>4, IdleBatch DEF WorkerInv

LEMMA CreateStep == ASSUME WorkerInv, NEW j \in Jobs, Create(j) PROVE WorkerInv'
<1> USE JobsAssumption, WorkerAssumption
<1>1. /\ row[j].state = "absent" /\ row' = [row EXCEPT ![j] = Pending(j)]
      /\ UNCHANGED <<now, up, crashes, failures, profile, requeued, ranked, worker, asks, removed>>
      /\ baseline[j] = "none" /\ j \notin removed
      /\ baseline' = baseline \/ baseline' = [baseline EXCEPT ![j] = "asking"]
  BY DEF Create, WorkerInv, RowInv
<1>2. Pending(j) \in WorkerRow /\ Pending(j).state = "pending" /\ Pending(j).attempts = 0
      /\ Pending(j).note = "none"
  <2>1. Due[j] \in Nat
    OBVIOUS
  <2> QED BY <2>1 DEF Pending, Row, WorkerRow, Notes
<1>3. row' \in [Jobs -> WorkerRow] /\ row'[j] = Pending(j)
      /\ \A i \in Jobs \ {j} : row'[i] = row[i] /\ baseline'[i] = baseline[i]
  BY <1>1, <1>2 DEF WorkerInv, TypeOK, WorkerRow
<1>4. TypeOK'
  BY <1>1, <1>3 DEF WorkerInv, TypeOK, WorkerRow, worker
<1>5. \A i \in Jobs : RowInv(i)'
  <2>1. RowInv(j)'
    BY <1>1, <1>2, <1>3 DEF RowInv
  <2>2. ASSUME NEW i \in Jobs \ {j} PROVE RowInv(i)'
    BY <1>1, <1>3 DEF WorkerInv, RowInv
  <2> QED BY <2>1, <2>2
<1>6. \A i \in Jobs : baseline[i] = "saved" => baseline'[i] = "saved"
  BY <1>1, <1>3
<1>7. BatchInv' /\ PlaceInv'
  BY <1>1, <1>3, <1>6, WorkerSame
<1> QED BY <1>4, <1>5, <1>7 DEF WorkerInv

LEMMA CaptureStep == ASSUME WorkerInv, NEW j \in Jobs, capturePoolBaseline(j) PROVE WorkerInv'
<1>1. /\ baseline[j] = "asking"
      /\ UNCHANGED <<now, up, crashes, failures, profile, row, requeued, ranked, worker, asks, removed>>
      /\ baseline' \in [Jobs -> {"none", "asking", "saved"}]
      /\ \A i \in Jobs \ {j} : baseline'[i] = baseline[i]
  BY DEF capturePoolBaseline, savePoolBaseline, WorkerInv, TypeOK
<1>2. TypeOK'
  BY <1>1 DEF WorkerInv, TypeOK, worker
<1>3. \A i \in Jobs : RowInv(i)'
  <2>1. row[j].state # "absent" /\ ~(row[j].state = "pool_removed"
          \/ row[j].note \in {"removed", "backfill_removed"})
    BY <1>1 DEF WorkerInv, RowInv
  <2>2. RowInv(j)'
    BY <1>1, <2>1 DEF WorkerInv, RowInv
  <2>3. ASSUME NEW i \in Jobs \ {j} PROVE RowInv(i)'
    BY <1>1 DEF WorkerInv, RowInv
  <2> QED BY <2>2, <2>3
<1>4. \A i \in Jobs : baseline[i] = "saved" => baseline'[i] = "saved"
  BY <1>1
<1>5. BatchInv' /\ PlaceInv'
  BY <1>1, <1>4, WorkerSame
<1> QED BY <1>2, <1>3, <1>5 DEF WorkerInv

LEMMA MaintainStep == ASSUME WorkerInv, NEW j \in Jobs, Maintain(j) PROVE WorkerInv'
<1>1. UNCHANGED <<now, up, crashes, failures, profile, requeued, baseline, worker, asks>>
  BY DEF Maintain
<1>2. CASE UNCHANGED <<row, removed>> /\ ranked' = ranked \ {j}
  <2>1. TypeOK'
    BY <1>1, <1>2 DEF WorkerInv, TypeOK, worker
  <2>2. \A i \in Jobs : RowInv(i)'
    BY <1>1, <1>2 DEF WorkerInv, RowInv
  <2>3. BatchInv' /\ PlaceInv'
    BY <1>1, <1>2, WorkerSame
  <2> QED BY <2>1, <2>2, <2>3 DEF WorkerInv
<1>3. CASE /\ row' = [row EXCEPT ![j] = Missing("gone")]
           /\ removed' = removed \ {j} /\ UNCHANGED ranked
  <2>1. Missing("gone") \in WorkerRow /\ Missing("gone").state = "gone" /\ Missing("gone").note = "none"
    BY DEF Missing, Row, WorkerRow, Notes
  <2>2. row' \in [Jobs -> WorkerRow] /\ row'[j] = Missing("gone")
        /\ \A i \in Jobs \ {j} : row'[i] = row[i]
    BY <1>3, <2>1 DEF WorkerInv, TypeOK, WorkerRow
  <2>3. TypeOK'
    BY <1>1, <1>3, <2>2 DEF WorkerInv, TypeOK, worker, WorkerRow
  <2>4. RowInv(j)'
    BY <1>3, <2>1, <2>2 DEF RowInv
  <2>5. ASSUME NEW i \in Jobs \ {j} PROVE RowInv(i)'
    BY <1>1, <1>3, <2>2 DEF WorkerInv, RowInv
  <2>6. BatchInv' /\ PlaceInv'
    BY <1>1, <2>1, <2>2, WorkerSame
  <2> QED BY <2>3, <2>4, <2>5, <2>6 DEF WorkerInv
<1> QED BY <1>2, <1>3 DEF Maintain

LEMMA CrashStep == ASSUME WorkerInv, Crash PROVE WorkerInv'
<1>1. /\ crashes + failures < MaxMishaps /\ crashes' = crashes + 1 /\ up' = FALSE
      /\ batch' = <<>> /\ at' = "idle" /\ startedAt' = 0
      /\ UNCHANGED <<now, failures, profile, row, requeued, ranked, asks, removed>>
      /\ baseline' = [j \in Jobs |-> IF baseline[j] = "asking" THEN "none" ELSE baseline[j]]
  BY DEF Crash
<1>2. crashes \in Nat /\ failures \in Nat /\ MaxMishaps \in Nat
  BY WorkerAssumption DEF WorkerInv, TypeOK
<1>3. crashes' \in Nat /\ crashes' + failures' <= MaxMishaps
  BY <1>1, <1>2
<1>4. batch' \in Seq(BatchJob)
  BY <1>1, EmptySeq
<1>5. TypeOK'
  <2>1. baseline' \in [Jobs -> {"none", "asking", "saved"}]
    BY <1>1 DEF WorkerInv, TypeOK
  <2>2. now \in Nat /\ now' = now /\ startedAt' = 0 /\ up' \in BOOLEAN
    BY <1>1 DEF WorkerInv, TypeOK
  <2>3. startedAt' \in 0..now'
    BY <2>2
  <2> QED BY <1>1, <1>3, <1>4, <2>1, <2>2, <2>3 DEF WorkerInv, TypeOK, BatchJob, Places
<1>6. \A j \in Jobs : RowInv(j)'
  BY <1>1 DEF WorkerInv, TypeOK, RowInv
<1> QED BY <1>1, <1>5, <1>6, IdleBatch DEF WorkerInv

LEMMA InitWorker == Init => WorkerInv
<1> SUFFICES ASSUME Init PROVE WorkerInv
  OBVIOUS
<1> USE JobsAssumption, WorkerAssumption
<1>1. ASSUME NEW j \in Jobs
      PROVE  /\ row[j] \in WorkerRow /\ row[j].note = "none" /\ row[j].attempts <= 1
             /\ row[j].state = "pending" => row[j].attempts = 0
             /\ row[j].state # "gone"
  <2>1. CASE Due[j] = 0
    <3>1. PICK state \in OldStates :
            row[j] = Row(state, IF state = "pending" THEN 0 ELSE 1, Due[j], "none")
      BY <2>1 DEF Init, OldRows
    <3>2. state \in Ends \cup {"pending"} /\ Due[j] \in Nat
      BY <3>1
    <3> QED BY <3>1, <3>2 DEF Row, WorkerRow, Notes, Ends
  <2>2. CASE Due[j] # 0
    <3>1. row[j] = Missing("absent")
      BY <2>2 DEF Init
    <3> QED BY <3>1 DEF Missing, Row, WorkerRow, Notes
  <2> QED BY <2>1, <2>2
<1>2. /\ batch = <<>> /\ at = "idle" /\ failures = 0 /\ removed = {j \in Jobs : row[j].state = "pool_removed"}
      /\ \A j \in Jobs : row[j].state = "absent" => baseline[j] = "none"
      /\ \A j \in Jobs : row[j].state = "pool_removed" => baseline[j] = "saved" /\ profile[j].priced
  BY DEF Init
<1>3. TypeOK
  <2>1. row \in [Jobs -> WorkerRow]
    BY <1>1 DEF Init
  <2>2. batch \in Seq(BatchJob)
    BY <1>2, EmptySeq
  <2>3. startedAt \in 0..now /\ now \in Nat /\ up \in BOOLEAN /\ requeued \in BOOLEAN
    <3>1. now = 0 /\ startedAt = 0
      BY DEF Init
    <3>2. up \in BOOLEAN /\ requeued \in BOOLEAN
      BY DEF Init
    <3> QED BY <3>1, <3>2
  <2>4. /\ baseline \in [Jobs -> {"none", "asking", "saved"}] /\ profile \in Profiles
        /\ ranked \subseteq Jobs /\ asks \in [Jobs -> Nat] /\ removed \subseteq Jobs
    <3>1. baseline \in [Jobs -> {"none", "asking", "saved"}]
      BY DEF Init
    <3>2. ranked \subseteq Jobs /\ asks = [j \in Jobs |-> 0] /\ profile \in Profiles
      BY DEF Init
    <3>3. removed \subseteq Jobs
      BY <1>2
    <3> QED BY <3>1, <3>2, <3>3
  <2>5. crashes = 0 /\ failures = 0 /\ MaxMishaps \in Nat
    BY DEF Init
  <2>6. crashes \in Nat /\ failures \in Nat /\ crashes + failures <= MaxMishaps
    BY <2>5
  <2> QED BY <1>2, <2>1, <2>2, <2>3, <2>4, <2>6 DEF TypeOK, WorkerRow, BatchJob, Places
<1>4. \A j \in Jobs : RowInv(j)
  BY <1>1, <1>2 DEF RowInv
<1>5. BatchInv /\ PlaceInv
  BY <1>2, EmptySeq DEF BatchInv, PlaceInv
<1> QED BY <1>3, <1>4, <1>5 DEF WorkerInv

LEMMA WorkerStep == ASSUME WorkerInv, [Next]_vars PROVE WorkerInv'
<1>1. CASE Tick \/ UNCHANGED vars
  <2>1. /\ UNCHANGED <<up, crashes, failures, profile, row, requeued, baseline, ranked, worker,
                       asks, removed>>
        /\ now' \in Nat /\ now \in Nat /\ now <= now'
    BY <1>1 DEF Tick, vars, database, WorkerInv, TypeOK
  <2>2. startedAt' \in 0..now'
    BY <2>1 DEF worker, WorkerInv, TypeOK
  <2>3. TypeOK'
    BY <2>1, <2>2 DEF WorkerInv, TypeOK, worker
  <2>4. \A j \in Jobs : RowInv(j)'
    BY <2>1 DEF WorkerInv, RowInv
  <2>5. BatchInv' /\ PlaceInv'
    BY <2>1, WorkerSame
  <2> QED BY <2>3, <2>4, <2>5 DEF WorkerInv
<1> QED
  BY <1>1, StartStep, CrashStep, RunDueStep, WorkStep, CreateStep, CaptureStep, MaintainStep DEF Next

-----------------------------------------------------------------------------
(* The types and WorkerInv, at every moment: what a row says is what was   *)
(* known when it was written, and the batch is still what runDue read.     *)
THEOREM WorkerIsTyped == Spec => [](TypeOK /\ WorkerInv)
<1>1. WorkerInv => TypeOK
  BY DEF WorkerInv
<1> QED BY <1>1, InitWorker, WorkerStep, PTL DEF Spec

(* No pool counts as removed that was not known to exist before.           *)
THEOREM RemovalsAreKnown == Spec => []RemovalNeedsBaseline
<1>1. WorkerInv => RemovalNeedsBaseline
  BY DEF WorkerInv, RowInv, RemovalNeedsBaseline
<1> QED BY <1>1, WorkerIsTyped, PTL

(* The backfill loses no removal, unless a write fails.                    *)
THEOREM RemovalsAreKept == Spec => []RemovalIsKept
<1>1. WorkerInv => RemovalIsKept
  BY DEF WorkerInv, TypeOK, RowInv, RemovalIsKept
<1> QED BY <1>1, WorkerIsTyped, PTL

(* The worker touches the row of its job only, and only while it is        *)
(* pending.                                                                *)
LEMMA WorkRows ==
  ASSUME WorkerInv, Work, NEW j \in Jobs, row'[j] # row[j]
  PROVE  j = job.id /\ row[j].state = "pending"
<1>1. Does
  BY WorkDoes
<1>2. CASE Aborts \/ Awaits
  BY <1>2 DEF Aborts, Awaits, Abort, Await
<1>3. CASE Stores
  <2>1. \E new \in WorkerRow :
          row' = IF row[job.id].state = "pending" THEN [row EXCEPT ![job.id] = new] ELSE row
    BY <1>3 DEF Stores, Store
  <2> QED BY <2>1 DEF WorkerInv, TypeOK
<1> QED BY <1>1, <1>2, <1>3 DEF Does

FinalStep ==
  \A j \in Jobs :
    row[j].state \in Ends /\ row'[j] # row[j] /\ row'[j].state # "gone"
      => row[j].state # "completed" /\ ~requeued

(* A completed row never changes; the others are reopened by the first     *)
(* start of a release only.                                                *)
THEOREM ResultsStay == Spec => ResultsAreFinal
<1>1. WorkerInv /\ [Next]_vars => [FinalStep]_vars
  <2> SUFFICES ASSUME WorkerInv, Next, NEW j \in Jobs, row[j].state \in Ends,
                      row'[j] # row[j], row'[j].state # "gone"
               PROVE  row[j].state # "completed" /\ ~requeued
    BY DEF FinalStep
  <2>1. row \in [Jobs -> WorkerRow] /\ row[j].state \notin {"pending", "absent"}
    BY DEF WorkerInv, TypeOK, WorkerRow, Ends
  <2>2. CASE Start
    BY <2>2 DEF Start, Requeued
  <2>3. ASSUME NEW i \in Jobs, Create(i) PROVE FALSE
    BY <2>1, <2>3 DEF Create
  <2>4. ASSUME NEW i \in Jobs, Maintain(i) PROVE FALSE
    <3>1. UNCHANGED row \/ row' = [row EXCEPT ![i] = Missing("gone")]
      BY <2>4 DEF Maintain
    <3>2. Missing("gone").state = "gone"
      BY DEF Missing, Row
    <3> QED BY <2>1, <3>1, <3>2
  <2>5. CASE Work
    BY <2>1, <2>5, WorkRows
  <2>6. ASSUME NEW i \in Jobs, capturePoolBaseline(i) PROVE FALSE
    BY <2>6 DEF capturePoolBaseline
  <2>7. CASE Crash \/ RunDue \/ Tick
    BY <2>7 DEF Crash, RunDue, Tick, database
  <2> QED BY <2>2, <2>3, <2>4, <2>5, <2>6, <2>7 DEF Next
<1>2. ResultsAreFinal <=> [][FinalStep]_vars
  BY PTL DEF ResultsAreFinal, FinalStep
<1> QED BY <1>1, <1>2, WorkerIsTyped, PTL DEF Spec

-----------------------------------------------------------------------------
(* Requests.  Every request for candles is counted by the attempts of its  *)
(* row, by the job under way, or by a mishap.                              *)
Asked(j) == IF at \in Waiting /\ j = job.id THEN 1 ELSE 0
AsksInv ==
  /\ \A j \in Jobs :
       /\ asks[j] <= 3 + crashes + failures
       /\ row[j].state = "absent" => asks[j] = 0
       /\ row[j].state = "pending" => asks[j] <= row[j].attempts + Asked(j) + crashes + failures
       /\ ~requeued => asks[j] = 0
  /\ \A i \in 1..Len(batch) :
       asks[batch[i].id] <= batch[i].attempt - 1 + Asked(batch[i].id) + crashes + failures
  /\ ~requeued => ~up

LEMMA AsksNumbers ==
  ASSUME WorkerInv
  PROVE  /\ crashes \in Nat /\ failures \in Nat
         /\ \A j \in Jobs : /\ asks[j] \in Nat /\ row[j].attempts \in 0..3 /\ Asked(j) \in 0..1
                            /\ row[j] \in WorkerRow
BY DEF WorkerInv, TypeOK, WorkerRow, Asked

(* Adding up.                                                              *)
LEMMA Carried ==
  ASSUME NEW a \in Nat, NEW b \in Nat, NEW x \in 0..1, NEW y \in 0..1, NEW n \in Nat,
         NEW m \in Int, b - a <= y - x, a <= m + x + n
  PROVE  b <= m + y + n
OBVIOUS

LEMMA Relaxed ==
  ASSUME NEW a \in Nat, NEW r \in Nat, NEW x \in Nat, NEW c \in Nat, NEW f \in Nat, NEW d \in Nat,
         NEW e \in Nat, x + c + f <= d + e, a <= r + x + c + f
  PROVE  a <= r + 0 + d + e
OBVIOUS

LEMMA Lifted ==
  ASSUME NEW a \in Nat, NEW c \in Nat, NEW f \in Nat, NEW d \in Nat, NEW e \in Nat,
         c + f <= d + e, a <= 3 + c + f
  PROVE  a <= 3 + d + e
OBVIOUS

LEMMA NotWaiting ==
  ASSUME at' \notin Waiting PROVE \A j \in Jobs : Asked(j)' = 0
BY DEF Asked

(* The worker, in the three things it may do.                              *)
LEMMA StoresAsks ==
  ASSUME WorkerInv, AsksInv, batch # <<>>, job.id \in Jobs, RestSame, Stores, UNCHANGED asks
  PROVE  AsksInv'
<1>1. PICK writes \in Nat, new \in WorkerRow : Result(new, writes) /\ Store(new, writes)
  BY DEF Stores
<1>2. /\ failures' = failures + writes /\ UNCHANGED <<crashes, requeued, up>>
      /\ row[job.id].state = "pending" => row' = [row EXCEPT ![job.id] = new]
      /\ row[job.id].state # "pending" => row' = row
      /\ ~Gone /\ NextJob
  BY <1>1 DEF Store, Failed, RestSame
<1>3. job \in BatchJob /\ Known(job) /\ job = batch[1] /\ 1 \in 1..Len(batch) /\ job.attempt \in 1..3
  BY JobTyped DEF BatchJob
<1>4. row[job.id].state = "pending" /\ row' = [row EXCEPT ![job.id] = new]
  BY <1>2, <1>3 DEF Known, Gone
<1>5. row'[job.id] = new /\ \A j \in Jobs \ {job.id} : row'[j] = row[j]
  BY <1>4 DEF WorkerInv, TypeOK, WorkerRow
<1>6. at' \in {"idle", "next"} /\ batch' = Tail(batch)
  BY <1>2 DEF NextJob
<1>7. \A j \in Jobs : Asked(j)' = 0
  BY <1>6, NotWaiting DEF Waiting
<1>8. \A j \in Jobs \ {job.id} : Asked(j) = 0
  BY DEF Asked
<1>9. crashes \in Nat /\ failures \in Nat /\ crashes' = crashes /\ failures' >= failures
  BY <1>2, AsksNumbers
<1>10. asks[job.id] <= job.attempt + crashes + failures
  <2>1. asks[job.id] <= job.attempt - 1 + Asked(job.id) + crashes + failures
    BY <1>3 DEF AsksInv
  <2>2. asks[job.id] \in Nat /\ Asked(job.id) \in 0..1
    BY AsksNumbers
  <2> QED BY <1>3, <1>9, <2>1, <2>2
<1>11. ASSUME NEW j \in Jobs
       PROVE  /\ asks[j] <= 3 + crashes' + failures'
              /\ row'[j].state = "absent" => asks[j] = 0
              /\ row'[j].state = "pending" => asks[j] <= row'[j].attempts + 0 + crashes' + failures'
              /\ ~requeued => asks[j] = 0
  <2>1. /\ asks[j] <= 3 + crashes + failures /\ (~requeued => asks[j] = 0)
        /\ (row[j].state = "absent" => asks[j] = 0)
        /\ (row[j].state = "pending" => asks[j] <= row[j].attempts + Asked(j) + crashes + failures)
    BY DEF AsksInv
  <2>2. asks[j] \in Nat /\ row[j].attempts \in 0..3 /\ Asked(j) \in 0..1 /\ failures' \in Nat
    BY <1>2, AsksNumbers
  <2>3. CASE j # job.id
    BY <1>5, <1>8, <1>9, <2>1, <2>2, <2>3
  <2>4. CASE j = job.id
    <3>1. row'[j] = new /\ new.state # "absent"
          /\ (new.state = "pending" => new.attempts = job.attempt)
      BY <1>1, <1>5, <2>4 DEF Result, Ends
    <3>2. asks[j] <= 3 + crashes' + failures'
      BY <1>9, <2>1, <2>2
    <3>3. asks[j] <= job.attempt + crashes' + failures'
      BY <1>3, <1>9, <1>10, <2>2, <2>4
    <3>4. new.state = "pending" => asks[j] <= new.attempts + 0 + crashes' + failures'
      BY <1>3, <1>9, <3>1, <3>3, <2>2
    <3> QED BY <2>1, <3>1, <3>2, <3>4
  <2> QED BY <2>3, <2>4
<1>12. ASSUME NEW i \in 1..Len(batch')
       PROVE  asks[batch'[i].id] <= batch'[i].attempt - 1 + Asked(batch[i].id)' + crashes' + failures'
  <2>1. /\ i + 1 \in 1..Len(batch) /\ batch'[i] = batch[i + 1] /\ batch'[i] \in BatchJob
        /\ batch'[i].id # job.id
    BY <1>6, TailTyped
  <2>2. batch'[i].id \in Jobs \ {job.id} /\ batch'[i].attempt \in 1..3
    BY <2>1 DEF BatchJob
  <2>3. asks[batch'[i].id] <= batch'[i].attempt - 1 + Asked(batch'[i].id) + crashes + failures
    BY <2>1 DEF AsksInv
  <2>4. Asked(batch'[i].id) = 0 /\ Asked(batch[i].id)' = 0
    BY <1>6, <1>8, <2>2 DEF Asked, Waiting
  <2>5. asks[batch'[i].id] \in Nat /\ failures' \in Nat
    BY <1>2, <2>2, AsksNumbers
  <2> QED BY <1>9, <2>2, <2>3, <2>4, <2>5
<1>13. ~requeued => ~up
  BY DEF AsksInv
<1> QED BY <1>2, <1>7, <1>11, <1>12, <1>13 DEF AsksInv

(* The batch is gone; the request under way, if any, becomes a mishap.     *)
LEMMA DroppedAsks ==
  ASSUME WorkerInv, AsksInv, batch' = <<>>, at' = "idle", crashes' \in Nat, failures' \in Nat,
         crashes + failures <= crashes' + failures', UNCHANGED <<row, asks, requeued>>,
         ~requeued => ~up',
         \A j \in Jobs : row[j].state = "pending" =>
           Asked(j) + crashes + failures <= crashes' + failures'
  PROVE  AsksInv'
<1>1. crashes \in Nat /\ failures \in Nat
  BY AsksNumbers
<1>2. \A j \in Jobs : Asked(j)' = 0
  BY NotWaiting DEF Waiting
<1>3. ASSUME NEW j \in Jobs
      PROVE  /\ asks[j] <= 3 + crashes' + failures'
             /\ row[j].state = "absent" => asks[j] = 0
             /\ row[j].state = "pending" => asks[j] <= row[j].attempts + 0 + crashes' + failures'
             /\ ~requeued => asks[j] = 0
  <2>1. asks[j] <= 3 + crashes + failures
    BY DEF AsksInv
  <2>2. asks[j] \in Nat /\ row[j].attempts \in Nat /\ Asked(j) \in Nat
    BY AsksNumbers
  <2>3. asks[j] <= 3 + crashes' + failures'
    BY <1>1, <2>1, <2>2, Lifted
  <2>4. CASE row[j].state = "pending"
    <3>1. Asked(j) + crashes + failures <= crashes' + failures'
      BY <2>4
    <3>2. asks[j] <= row[j].attempts + Asked(j) + crashes + failures
      BY <2>4 DEF AsksInv
    <3>3. asks[j] <= row[j].attempts + 0 + crashes' + failures'
      BY <1>1, <2>2, <3>1, <3>2, Relaxed
    <3> QED BY <2>3, <3>3 DEF AsksInv
  <2> QED BY <2>3, <2>4 DEF AsksInv
<1>4. 1..Len(batch') = {}
  BY EmptySeq
<1> QED BY <1>2, <1>3, <1>4 DEF AsksInv

LEMMA AbortsAsks ==
  ASSUME WorkerInv, AsksInv, batch # <<>>, RestSame, Aborts, UNCHANGED asks
  PROVE  AsksInv'
<1>1. PICK writes \in Nat \ {0} : Abort(writes)
  BY DEF Aborts
<1>2. /\ batch' = <<>> /\ at' = "idle" /\ UNCHANGED <<row, crashes, requeued, up>>
      /\ failures' = IF Gone THEN failures ELSE failures + writes
  BY <1>1 DEF Abort, Failed, RestSame
<1>3. crashes \in Nat /\ failures \in Nat /\ failures' \in Nat /\ failures <= failures'
      /\ (~Gone => failures + 1 <= failures')
  BY <1>2, AsksNumbers
<1>4. ASSUME NEW j \in Jobs, row[j].state = "pending"
      PROVE  Asked(j) + crashes + failures <= crashes' + failures'
  <2>1. Asked(j) \in 0..1 /\ (j # job.id => Asked(j) = 0)
    BY AsksNumbers DEF Asked
  <2>2. j = job.id => ~Gone
    BY <1>4 DEF Gone
  <2> QED BY <1>2, <1>3, <2>1, <2>2
<1>5. ~requeued => ~up'
  BY <1>2 DEF AsksInv
<1> QED BY <1>2, <1>3, <1>4, <1>5, DroppedAsks

LEMMA AwaitsAsks ==
  ASSUME WorkerInv, AsksInv, Work, RestSame, Awaits, batch # <<>>, job.id \in Jobs,
         \/ asks' = asks
         \/ /\ asks' = [asks EXCEPT ![job.id] = Least(@ + 1, MaxAsks)]
            /\ at = "next" /\ at' = "klines"
  PROVE  AsksInv'
<1>1. /\ UNCHANGED <<batch, row, failures, crashes, requeued, up>>
      /\ at' \in Places /\ (at \in Waiting => at' \in Waiting)
  BY DEF Awaits, Await, RestSame
<1>2. crashes \in Nat /\ failures \in Nat
  BY AsksNumbers
<1>3. job \in BatchJob /\ Known(job) /\ job = batch[1] /\ 1 \in 1..Len(batch) /\ job' = job
      /\ job.attempt \in 1..3
  <2>1. job' = job
    BY <1>1 DEF job
  <2>2. job \in BatchJob /\ Known(job) /\ job = batch[1] /\ 1 \in 1..Len(batch)
    BY JobTyped
  <2>3. job.attempt \in 1..3
    BY <2>2 DEF BatchJob
  <2> QED BY <2>1, <2>2, <2>3
<1>4. up = TRUE /\ requeued = TRUE
  <2>1. up = TRUE
    BY DEF WorkerInv, TypeOK, PlaceInv
  <2> QED BY <2>1 DEF AsksInv, WorkerInv, TypeOK
(* A job's request makes it one that is asked for.                         *)
<1>5. ASSUME NEW j \in Jobs
      PROVE  /\ asks'[j] \in Nat /\ asks[j] \in Nat /\ Asked(j) \in 0..1 /\ Asked(j)' \in 0..1
             /\ asks'[j] - asks[j] <= Asked(j)' - Asked(j)
             /\ j # job.id => asks'[j] = asks[j] /\ Asked(j) = 0
  <2>1. asks \in [Jobs -> Nat] /\ asks' \in [Jobs -> Nat] /\ asks'[j] <= asks[j] + 1
    BY AsksTyped DEF WorkerInv, TypeOK
  <2>2. Asked(j) \in 0..1 /\ Asked(j)' \in 0..1
    BY DEF Asked
  <2>3. CASE j # job.id
    <3>1. asks'[j] = asks[j] /\ Asked(j) = 0
      BY <2>1, <2>3 DEF Asked
    <3> QED BY <2>1, <2>2, <2>3, <3>1
  <2>4. CASE j = job.id /\ asks' = asks
    <3>1. Asked(j) <= Asked(j)'
      BY <1>1, <1>3, <2>4 DEF Asked
    <3> QED BY <2>1, <2>2, <2>4, <3>1
  <2>5. CASE j = job.id /\ at = "next" /\ at' = "klines"
    <3>1. Asked(j) = 0 /\ Asked(j)' = 1
      BY <1>3, <2>5 DEF Asked, Waiting
    <3> QED BY <2>1, <2>5, <3>1
  <2> QED BY <2>3, <2>4, <2>5
<1>6. asks[job.id] <= job.attempt - 1 + Asked(job.id) + crashes + failures
  BY <1>3 DEF AsksInv
<1>7. ASSUME NEW j \in Jobs
      PROVE  /\ asks'[j] <= 3 + crashes + failures
             /\ row[j].state = "absent" => asks'[j] = 0
             /\ row[j].state = "pending" => asks'[j] <= row[j].attempts + Asked(j)' + crashes + failures
  <2>1. /\ asks[j] <= 3 + crashes + failures /\ (row[j].state = "absent" => asks[j] = 0)
        /\ (row[j].state = "pending" => asks[j] <= row[j].attempts + Asked(j) + crashes + failures)
    BY DEF AsksInv
  <2>2. row[j].attempts \in 0..3
    BY AsksNumbers
  <2>3. CASE j # job.id
    <3>1. asks'[j] = asks[j] /\ Asked(j) = 0 /\ Asked(j)' \in 0..1 /\ asks[j] \in Nat
      BY <1>5, <2>3
    <3>2. row[j].state = "pending" => asks[j] <= row[j].attempts + Asked(j)' + crashes + failures
      <4>1. CASE row[j].state = "pending"
        <5>1. asks[j] <= row[j].attempts + Asked(j) + crashes + failures
          BY <2>1, <4>1
        <5> QED BY <1>2, <2>2, <3>1, <5>1
      <4> QED BY <4>1
    <3> QED BY <2>1, <3>1, <3>2
  <2>4. CASE j = job.id
    <3>1. row[j].state # "absent"
      BY <1>3, <2>4 DEF Known
    <3>2. /\ asks'[j] \in Nat /\ asks[j] \in Nat /\ Asked(j) \in 0..1 /\ Asked(j)' \in 0..1
          /\ asks'[j] - asks[j] <= Asked(j)' - Asked(j)
      BY <1>5
    <3>3. asks[j] <= job.attempt - 1 + Asked(j) + crashes + failures
      BY <1>6, <2>4
    <3>4. asks'[j] <= 3 + crashes + failures
      BY <1>2, <1>3, <3>2, <3>3
    <3>5. row[j].state = "pending" => asks'[j] <= row[j].attempts + Asked(j)' + crashes + failures
      <4>1. CASE row[j].state = "pending"
        <5>1. asks[j] <= row[j].attempts + Asked(j) + crashes + failures
          BY <2>1, <4>1
        <5>2. crashes + failures \in Nat /\ row[j].attempts \in Int
          BY <1>2, <2>2
        <5>3. asks[j] <= row[j].attempts + Asked(j) + (crashes + failures)
          BY <1>2, <2>2, <3>2, <5>1
        <5>4. asks'[j] <= row[j].attempts + Asked(j)' + (crashes + failures)
          BY <3>2, <5>2, <5>3, Carried
        <5> QED BY <1>2, <2>2, <3>2, <5>4
      <4> QED BY <4>1
    <3> QED BY <3>1, <3>4, <3>5
  <2> QED BY <2>3, <2>4
<1>8. ASSUME NEW i \in 1..Len(batch)
      PROVE  asks'[batch[i].id] <= batch[i].attempt - 1 + Asked(batch[i].id)' + crashes + failures
  <2>1. batch[i] \in BatchJob
    BY ElementOfSeq DEF WorkerInv, TypeOK, BatchJob
  <2>2. batch[i].id \in Jobs /\ batch[i].attempt \in 1..3
    BY <2>1 DEF BatchJob
  <2>3. asks[batch[i].id] <= batch[i].attempt - 1 + Asked(batch[i].id) + crashes + failures
    BY DEF AsksInv
  <2>4. /\ asks'[batch[i].id] \in Nat /\ asks[batch[i].id] \in Nat
        /\ Asked(batch[i].id) \in 0..1
        /\ asks'[batch[i].id] - asks[batch[i].id] <= Asked(batch[i].id)' - Asked(batch[i].id)
    BY <1>1, <1>5, <2>2
  <2>5. Asked(batch[i].id)' \in 0..1
    BY DEF Asked
  <2> DEFINE m == batch[i].attempt - 1
  <2>6. m \in Int /\ crashes + failures \in Nat
    BY <1>2, <2>2
  <2>7. asks[batch[i].id] <= m + Asked(batch[i].id) + (crashes + failures)
    BY <1>2, <2>2, <2>3, <2>4
  <2> HIDE DEF m
  <2>8. asks'[batch[i].id] <= m + Asked(batch[i].id)' + (crashes + failures)
    BY <2>4, <2>5, <2>6, <2>7, Carried
  <2> QED BY <1>2, <2>2, <2>5, <2>8 DEF m
<1> QED BY <1>1, <1>4, <1>7, <1>8 DEF AsksInv

LEMMA WorkAsks == ASSUME WorkerInv, AsksInv, Work PROVE AsksInv'
<1>1. /\ Does /\ RestSame /\ batch # <<>> /\ job.id \in Jobs
      /\ \/ asks' = asks
         \/ /\ asks' = [asks EXCEPT ![job.id] = Least(@ + 1, MaxAsks)]
            /\ at = "next" /\ at' = "klines" /\ Awaits
  BY WorkDoes
<1>2. CASE Awaits
  BY <1>1, <1>2, AwaitsAsks
<1>3. CASE Stores /\ asks' = asks
  BY <1>1, <1>3, StoresAsks
<1>4. CASE Aborts /\ asks' = asks
  BY <1>1, <1>4, AbortsAsks
<1> QED BY <1>1, <1>2, <1>3, <1>4 DEF Does

(* The others: nobody's requests change, and a row only begins or ends.    *)
LEMMA OthersAsks ==
  ASSUME WorkerInv, AsksInv, UNCHANGED <<worker, asks, crashes, failures, requeued, up>>,
         \A j \in Jobs : \/ row'[j] = row[j]
                         \/ row'[j].state = "gone"
                         \/ row[j].state = "absent" /\ row'[j].state = "pending"
                            /\ row'[j].attempts = 0
  PROVE  AsksInv'
<1>1. UNCHANGED <<batch, at>> /\ \A j \in Jobs : Asked(j)' = Asked(j)
  BY DEF worker, Asked, job
<1>2. crashes \in Nat /\ failures \in Nat
  BY AsksNumbers
<1>3. ASSUME NEW j \in Jobs
      PROVE  /\ asks[j] <= 3 + crashes + failures
             /\ row'[j].state = "absent" => asks[j] = 0
             /\ row'[j].state = "pending" => asks[j] <= row'[j].attempts + Asked(j) + crashes + failures
             /\ ~requeued => asks[j] = 0
  <2>1. /\ asks[j] <= 3 + crashes + failures /\ (~requeued => asks[j] = 0)
        /\ (row[j].state = "absent" => asks[j] = 0)
        /\ (row[j].state = "pending" => asks[j] <= row[j].attempts + Asked(j) + crashes + failures)
    BY DEF AsksInv
  <2>2. Asked(j) \in 0..1
    BY AsksNumbers
  <2>3. CASE row[j].state = "absent" /\ row'[j].state = "pending" /\ row'[j].attempts = 0
    <3>1. asks[j] = 0 /\ 0 <= 0 + Asked(j) + crashes + failures
      BY <1>2, <2>1, <2>2, <2>3
    <3> QED BY <2>1, <2>3, <3>1
  <2> QED BY <2>1, <2>3
<1>4. ASSUME NEW i \in 1..Len(batch)
      PROVE  asks[batch[i].id] <= batch[i].attempt - 1 + Asked(batch[i].id)' + crashes + failures
  <2>1. batch[i] \in BatchJob
    BY ElementOfSeq DEF WorkerInv, TypeOK, BatchJob
  <2>2. Asked(batch[i].id)' = Asked(batch[i].id)
    BY <1>1, <2>1 DEF BatchJob
  <2>3. asks[batch[i].id] <= batch[i].attempt - 1 + Asked(batch[i].id) + crashes + failures
    BY DEF AsksInv
  <2> QED BY <2>2, <2>3
<1> QED BY <1>1, <1>3, <1>4 DEF AsksInv

(* The backfill comes before any request of this release.                  *)
LEMMA StartAsks == ASSUME WorkerInv, AsksInv, Start PROVE AsksInv'
<1>1. /\ batch' = <<>> /\ at' = "idle" /\ requeued' = TRUE
      /\ UNCHANGED <<asks, crashes, failures>> /\ row' = [j \in Jobs |-> Requeued(j)]
      /\ at = "idle"
  BY DEF Start, worker, WorkerInv, TypeOK, PlaceInv
<1>2. crashes \in Nat /\ failures \in Nat
  BY AsksNumbers
<1>3. \A j \in Jobs : Asked(j)' = 0 /\ Asked(j) = 0
  BY <1>1 DEF Asked, Waiting
<1>4. ASSUME NEW j \in Jobs
      PROVE  /\ asks[j] <= 3 + crashes + failures
             /\ row'[j].state = "absent" => asks[j] = 0
             /\ row'[j].state = "pending" => asks[j] <= row'[j].attempts + 0 + crashes + failures
  <2>1. /\ asks[j] <= 3 + crashes + failures /\ (~requeued => asks[j] = 0)
        /\ (row[j].state = "absent" => asks[j] = 0)
        /\ (row[j].state = "pending" => asks[j] <= row[j].attempts + 0 + crashes + failures)
    BY <1>3 DEF AsksInv
  <2>2. row'[j] = Requeued(j)
    BY <1>1
  <2>3. CASE row'[j] = row[j]
    BY <2>1, <2>3
  <2>4. CASE row'[j] # row[j]
    <3>1. ~requeued /\ row'[j].state = "pending" /\ row'[j].attempts = 0
      BY <2>2, <2>4 DEF Requeued, Row
    <3>2. 0 <= 0 + 0 + crashes + failures
      BY <1>2
    <3> QED BY <2>1, <3>1, <3>2
  <2> QED BY <2>3, <2>4
<1>5. 1..Len(batch') = {}
  BY <1>1, EmptySeq
<1> QED BY <1>1, <1>3, <1>4, <1>5 DEF AsksInv

LEMMA CrashAsks == ASSUME WorkerInv, AsksInv, Crash PROVE AsksInv'
<1>1. /\ batch' = <<>> /\ at' = "idle" /\ crashes' = crashes + 1 /\ up' = FALSE
      /\ UNCHANGED <<row, asks, requeued, failures>>
  BY DEF Crash
<1>2. crashes \in Nat /\ failures \in Nat /\ \A j \in Jobs : Asked(j) \in 0..1
  BY AsksNumbers
<1>3. /\ crashes' \in Nat /\ failures' \in Nat /\ crashes + failures <= crashes' + failures'
      /\ \A j \in Jobs : Asked(j) + crashes + failures <= crashes' + failures'
  BY <1>1, <1>2
<1> QED BY <1>1, <1>3, DroppedAsks

(* What is read counts the attempts so far.                                *)
LEMMA RunDueAsks == ASSUME WorkerInv, AsksInv, RunDue PROVE AsksInv'
<1>1. WorkerInv'
  BY RunDueStep
<1>2. /\ at = "idle" /\ at' = "next"
      /\ UNCHANGED <<up, crashes, failures, row, requeued, asks>>
  BY DEF RunDue, database
<1>3. \A j \in Jobs : Asked(j) = 0 /\ Asked(j)' = 0
  BY <1>2 DEF Asked, Waiting
<1>4. \A i \in 1..Len(batch') : Known(batch[i])' /\ batch'[i] \in BatchJob
  BY <1>1, ElementOfSeq DEF WorkerInv, TypeOK, BatchInv, BatchJob
<1>5. ASSUME NEW i \in 1..Len(batch')
      PROVE  asks[batch'[i].id] <= batch'[i].attempt - 1 + Asked(batch[i].id)' + crashes + failures
  <2>1. batch'[i].id \in Jobs /\ batch'[i].attempt \in 1..3
    BY <1>4 DEF BatchJob
  <2>3. row[batch'[i].id].state = "pending"
    BY RunDueStep
  <2>4. row[batch'[i].id].attempts = batch'[i].attempt - 1
    <3>1. row[batch'[i].id].attempts + 1 = batch'[i].attempt
      BY <1>2, <1>4, <2>3 DEF Known
    <3>2. row[batch'[i].id].attempts \in 0..3
      BY <2>1, AsksNumbers
    <3> QED BY <2>1, <3>1, <3>2
  <2>5. asks[batch'[i].id] <= row[batch'[i].id].attempts + Asked(batch'[i].id) + crashes + failures
    BY <2>1, <2>3 DEF AsksInv
  <2>6. Asked(batch'[i].id) = 0 /\ Asked(batch[i].id)' = 0
    BY <1>2, <2>1 DEF Asked, Waiting
  <2> QED BY <2>4, <2>5, <2>6
<1> QED BY <1>2, <1>3, <1>5 DEF AsksInv

LEMMA AsksStep == ASSUME WorkerInv, AsksInv, [Next]_vars PROVE AsksInv'
<1>1. CASE Tick \/ UNCHANGED vars
  <2>1. UNCHANGED <<row, worker, asks, crashes, failures, requeued, up>>
    BY <1>1 DEF Tick, vars, database
  <2> QED BY <2>1, OthersAsks
<1>2. ASSUME NEW j \in Jobs, Create(j) PROVE AsksInv'
  <2>1. /\ row[j].state = "absent" /\ row' = [row EXCEPT ![j] = Pending(j)]
        /\ UNCHANGED <<worker, asks, crashes, failures, requeued, up>>
    BY <1>2 DEF Create
  <2>2. \A i \in Jobs : row'[i] = row[i] \/ (i = j /\ row'[i] = Pending(j))
    BY <2>1 DEF WorkerInv, TypeOK
  <2>3. Pending(j).state = "pending" /\ Pending(j).attempts = 0
    BY DEF Pending, Row
  <2> QED BY <2>1, <2>2, <2>3, OthersAsks
<1>3. ASSUME NEW j \in Jobs, capturePoolBaseline(j) PROVE AsksInv'
  BY <1>3, OthersAsks DEF capturePoolBaseline
<1>4. ASSUME NEW j \in Jobs, Maintain(j) PROVE AsksInv'
  <2>1. UNCHANGED row \/ row' = [row EXCEPT ![j] = Missing("gone")]
    BY <1>4 DEF Maintain
  <2>2. Missing("gone").state = "gone"
    BY DEF Missing, Row
  <2>3. \A i \in Jobs : row'[i] = row[i] \/ row'[i].state = "gone"
    BY <2>1, <2>2 DEF WorkerInv, TypeOK
  <2>4. UNCHANGED <<worker, asks, crashes, failures, requeued, up>>
    BY <1>4 DEF Maintain
  <2> QED BY <2>3, <2>4, OthersAsks
<1> QED
  BY <1>1, <1>2, <1>3, <1>4, StartAsks, CrashAsks, RunDueAsks, WorkAsks DEF Next

LEMMA InitAsks == Init => AsksInv
<1> SUFFICES ASSUME Init PROVE AsksInv
  OBVIOUS
<1>1. /\ crashes = 0 /\ failures = 0 /\ batch = <<>> /\ up = FALSE
      /\ \A j \in Jobs : asks[j] = 0
  BY DEF Init
<1>2. \A j \in Jobs : row[j].attempts \in 0..3 /\ Asked(j) \in 0..1
  BY InitWorker, AsksNumbers
<1>3. \A j \in Jobs : 0 <= 3 + 0 + 0 /\ 0 <= row[j].attempts + Asked(j) + 0 + 0
  BY <1>2
<1>4. 1..Len(batch) = {}
  BY <1>1, EmptySeq
<1> QED BY <1>1, <1>3, <1>4 DEF AsksInv

(* At most three requests for a checkpoint; only one whose result a crash  *)
(* or a failing database lost is repeated.                                 *)
THEOREM AsksAreBounded == Spec => []AsksBounded
<1>1. AsksInv => AsksBounded
  BY DEF AsksInv, AsksBounded
<1>2. WorkerInv /\ AsksInv /\ [Next]_vars => AsksInv'
  BY AsksStep
<1>3. Spec => []WorkerInv
  BY WorkerIsTyped, PTL
<1> QED BY <1>1, <1>2, <1>3, InitAsks, PTL DEF Spec
=============================================================================
