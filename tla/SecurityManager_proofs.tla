----------------------- MODULE SecurityManager_proofs -----------------------
(***************************************************************************)
(* What SecurityManager and the recheck promise, for every set of tokens,  *)
(* every concurrency and all ages: a send uses a fresh result, the jobs    *)
(* are accounted for, and senders go first.                                *)
(***************************************************************************)
EXTENDS SecurityManager, SequenceTheorems, FunctionTheorems, FiniteSetTheorems, TLAPS

CheckRecord ==
  [at : {"idle", "security", "judging", "pool", "assessing", "passed"},
   since : Int, captured : Int, pool : Int]

(* A recheck that has judged a snapshot knows that it was fresh when the   *)
(* pool was asked for; no time passes once the pool has answered.          *)
Judged(t) ==
  /\ check[t].at \in {"pool", "assessing"} =>
       /\ check[t].captured # None
       /\ check[t].since <= now /\ check[t].since - check[t].captured <= SendMaxAge
  /\ CheckAt(t, "assessing") => check[t].pool = now
  /\ CheckAt(t, "passed") => Within(check[t].captured, SendMaxAge)

CheckInv ==
  /\ now \in Nat
  /\ cache \in [Tokens -> Int]
  /\ check \in [Tokens -> CheckRecord]
  /\ \A t \in Tokens : Judged(t)

LEMMA NoCheckTyped == NoCheck \in CheckRecord /\ NoCheck.at = "idle"
BY DEF NoCheck, CheckRecord, None

(* A step of one token's recheck leaves the others alone.                  *)
LEMMA CheckOfOne ==
  ASSUME CheckInv, NEW t \in Tokens, NEW c \in CheckRecord,
         check' = [check EXCEPT ![t] = c], UNCHANGED now, cache' \in [Tokens -> Int],
         Judged(t)'
  PROVE  CheckInv'
<1>1. \A u \in Tokens \ {t} : Judged(u)'
  BY DEF CheckInv, Judged, CheckAt, Within
<1> QED BY <1>1 DEF CheckInv

LEMMA RefuseKeeps ==
  ASSUME CheckInv, NEW t \in Tokens, Refuse(t), UNCHANGED now, cache' \in [Tokens -> Int]
  PROVE  CheckInv'
<1>1. check' = [check EXCEPT ![t] = NoCheck] /\ check'[t] = NoCheck
  BY DEF Refuse, CheckInv
<1>2. Judged(t)'
  BY <1>1, NoCheckTyped DEF Judged, CheckAt
<1> QED BY <1>1, <1>2, NoCheckTyped, CheckOfOne

(* The recheck goes on to wait for the security result, or to judge it.    *)
LEMMA WaitKeeps ==
  ASSUME CheckInv, NEW t \in Tokens, NEW place \in {"security", "judging"},
         check' = [check EXCEPT ![t].at = place], UNCHANGED now, cache' \in [Tokens -> Int]
  PROVE  CheckInv'
<1> DEFINE c == [check[t] EXCEPT !.at = place]
<1>1. c \in CheckRecord /\ check' = [check EXCEPT ![t] = c] /\ check'[t].at = place
  BY DEF CheckInv, CheckRecord
<1>2. Judged(t)'
  BY <1>1 DEF Judged, CheckAt
<1> HIDE DEF c
<1> QED BY <1>1, <1>2, CheckOfOne

LEMMA SameKeeps ==
  ASSUME CheckInv, UNCHANGED <<now, check>>, cache' \in [Tokens -> Int] PROVE CheckInv'
BY DEF CheckInv, Judged, CheckAt, Within

LEMMA CheckStep == ASSUME CheckInv, [Next]_vars PROVE CheckInv'
<1> USE AgeAssumption
<1>1. Pruned(cache) \in [Tokens -> Int]
  BY DEF Pruned, CheckInv, None
<1>2. ASSUME NEW t \in Tokens, Preheat(t) PROVE CheckInv'
  BY <1>1, <1>2, SameKeeps DEF Preheat, Prune
<1>3. ASSUME NEW t \in Tokens, BeginRecheck(t) PROVE CheckInv'
  BY <1>1, <1>3, WaitKeeps, RefuseKeeps DEF BeginRecheck, Prune
<1>4. ASSUME NEW t \in Tokens, FetchSucceeds(t) PROVE CheckInv'
  <2>1. cache' \in [Tokens -> Int]
    BY <1>4 DEF FetchSucceeds, CheckInv
  <2> QED BY <1>4, <2>1, WaitKeeps, SameKeeps DEF FetchSucceeds, Answer
<1>5. ASSUME NEW t \in Tokens, FetchFails(t) PROVE CheckInv'
  <2>1. cache' \in [Tokens -> Int]
    BY <1>5 DEF FetchFails, CheckInv
  <2> QED BY <1>5, <2>1, RefuseKeeps, SameKeeps DEF FetchFails
<1>6. ASSUME NEW t \in Tokens, JobEnds(t) PROVE CheckInv'
  <2>1. cache' \in [Tokens -> Int]
    BY <1>6 DEF JobEnds, CheckInv
  <2> QED BY <1>6, <2>1, SameKeeps DEF JobEnds
<1>7. ASSUME NEW t \in Tokens, Judge(t) PROVE CheckInv'
  <2>1. cache' \in [Tokens -> Int] /\ UNCHANGED now /\ now \in Int /\ cache[t] \in Int
    BY <1>7 DEF Judge, manager, CheckInv
  <2>2. CASE Refuse(t)
    BY <2>1, <2>2, RefuseKeeps
  <2>3. CASE /\ Within(cache[t], SendMaxAge)
             /\ check' = [check EXCEPT ![t].at = "passed", ![t].captured = cache[t]]
    <3> DEFINE c == [check[t] EXCEPT !.at = "passed", !.captured = cache[t]]
    <3>1. c \in CheckRecord /\ check' = [check EXCEPT ![t] = c] /\ check'[t] = c
      BY <2>1, <2>3 DEF CheckInv, CheckRecord
    <3>2. c.at = "passed" /\ c.captured = cache[t]
      BY <2>1 DEF CheckInv, CheckRecord
    <3> HIDE DEF c
    <3>3. Judged(t)'
      BY <2>1, <2>3, <3>1, <3>2 DEF Judged, CheckAt, Within
    <3> QED BY <2>1, <3>1, <3>3, CheckOfOne
  <2>4. CASE /\ Within(cache[t], SendMaxAge)
             /\ check' = [check EXCEPT ![t].at = "pool", ![t].captured = cache[t], ![t].since = now]
    <3> DEFINE c == [check[t] EXCEPT !.at = "pool", !.captured = cache[t], !.since = now]
    <3>0. check[t] \in CheckRecord /\ check' = [check EXCEPT ![t] = c] /\ check'[t] = c
      BY <2>4 DEF CheckInv
    <3>1. c \in CheckRecord /\ check' = [check EXCEPT ![t] = c] /\ check'[t] = c
      BY <2>1, <3>0 DEF CheckRecord
    <3>2. c.at = "pool" /\ c.captured = cache[t] /\ c.since = now
      BY DEF CheckInv, CheckRecord
    <3> HIDE DEF c
    <3>3. Judged(t)'
      BY <2>1, <2>4, <3>1, <3>2 DEF Judged, CheckAt, Within
    <3> QED BY <2>1, <3>1, <3>3, CheckOfOne
  <2> QED BY <1>7, <2>2, <2>3, <2>4 DEF Judge
<1>8. ASSUME NEW t \in Tokens, PoolAnswers(t) PROVE CheckInv'
  <2>1. cache' \in [Tokens -> Int] /\ UNCHANGED now /\ now \in Int
    BY <1>8 DEF PoolAnswers, manager, CheckInv
  <2>2. CASE check' = [check EXCEPT ![t].at = "assessing", ![t].pool = now]
    <3> DEFINE c == [check[t] EXCEPT !.at = "assessing", !.pool = now]
    <3>0. check[t] \in CheckRecord /\ check' = [check EXCEPT ![t] = c] /\ check'[t] = c
      BY <2>2 DEF CheckInv
    <3>1. c \in CheckRecord /\ check' = [check EXCEPT ![t] = c] /\ check'[t] = c
      BY <2>1, <3>0 DEF CheckRecord
    <3>2. c.at = "assessing" /\ c.pool = now
          /\ c.since = check[t].since /\ c.captured = check[t].captured
      BY DEF CheckInv, CheckRecord
    <3> HIDE DEF c
    <3>3. Judged(t)'
      BY <1>8, <2>1, <3>1, <3>2 DEF Judged, CheckAt, PoolAnswers, CheckInv
    <3> QED BY <2>1, <3>1, <3>3, CheckOfOne
  <2> QED BY <1>8, <2>1, <2>2, RefuseKeeps DEF PoolAnswers
<1>9. ASSUME NEW t \in Tokens, Assess(t) PROVE CheckInv'
  <2>1. cache' \in [Tokens -> Int] /\ UNCHANGED now /\ now \in Nat
    BY <1>9 DEF Assess, manager, CheckInv
  <2>2. CASE check[t].pool <= AssessedAt(t) /\ check' = [check EXCEPT ![t].at = "passed"]
    <3> DEFINE c == [check[t] EXCEPT !.at = "passed"]
    <3>1. c \in CheckRecord /\ check' = [check EXCEPT ![t] = c] /\ check'[t] = c
      BY <2>2 DEF CheckInv, CheckRecord
    <3>2. c.at = "passed" /\ c.captured = check[t].captured
      BY DEF CheckInv, CheckRecord
    <3> HIDE DEF c
    <3>3. /\ check[t].captured # None /\ check[t].captured \in Int /\ check[t].since \in Int
          /\ check[t].since - check[t].captured <= SendMaxAge
          /\ check[t].since <= now /\ now <= check[t].since
      BY <1>9, <2>2 DEF Assess, Judged, CheckAt, AssessedAt, CheckInv, CheckRecord
    <3>4. now - check[t].captured <= SendMaxAge
      BY <2>1, <3>3
    <3>5. Judged(t)'
      BY <2>1, <3>1, <3>2, <3>3, <3>4 DEF Judged, CheckAt, Within
    <3> QED BY <2>1, <3>1, <3>5, CheckOfOne
  <2> QED BY <1>9, <2>1, <2>2, RefuseKeeps DEF Assess
<1>10. ASSUME NEW t \in Tokens, Send(t) PROVE CheckInv'
  BY <1>10, RefuseKeeps DEF Send, manager, CheckInv
<1>11. CASE Tick
  <2>1. \A t \in Tokens : check[t].at \notin {"passed", "assessing"}
    BY <1>11 DEF Tick, WaitsForNetwork
  <2>2. UNCHANGED <<cache, check>> /\ now' = now + 1
    BY <1>11 DEF Tick, manager
  <2>3. \A t \in Tokens : check[t].since \in Int
    BY DEF CheckInv, CheckRecord
  <2> QED BY <2>1, <2>2, <2>3 DEF CheckInv, Judged, CheckAt
<1>12. CASE UNCHANGED vars
  BY <1>12, SameKeeps DEF vars, manager, CheckInv
<1> QED
  BY <1>2, <1>3, <1>4, <1>5, <1>6, <1>7, <1>8, <1>9, <1>10, <1>11, <1>12 DEF Next, Settle

(* The security result a card is sent on is never older than the limit     *)
(* when it is sent, whatever the recheck has waited for in between.        *)
THEOREM SendIsFresh == Spec => []SendUsesFreshSecurity
<1>1. Init => CheckInv
  BY NoCheckTyped DEF Init, CheckInv, Judged, CheckAt, None
<1>2. CheckInv => SendUsesFreshSecurity
  BY DEF CheckInv, Judged, SendUsesFreshSecurity
<1> QED BY <1>1, <1>2, CheckStep, PTL DEF Spec

-----------------------------------------------------------------------------
(* The queue.  Each token that waits for a place is in it once, urgent     *)
(* ones first; the places taken are those of the jobs that run, and as     *)
(* long as somebody waits all of them are.                                 *)
JobRecord == [at : {"none", "queued", "fetching", "ending"}, urgent : BOOLEAN]
In(t, seq) == \E i \in 1..Len(seq) : seq[i] = t
Distinct(seq) == \A i, k \in 1..Len(seq) : seq[i] = seq[k] => i = k
UrgentAhead(seq, jobs) ==
  \A i, k \in 1..Len(seq) : i < k => jobs[seq[i]].urgent \/ ~jobs[seq[k]].urgent
Busy(jobs) == {t \in Tokens : jobs[t].at \in {"fetching", "ending"}}

QueueOK(seq, jobs) ==
  /\ seq \in Seq(Tokens) /\ jobs \in [Tokens -> JobRecord]
  /\ Distinct(seq) /\ UrgentAhead(seq, jobs)
  /\ \A t \in Tokens : jobs[t].at = "queued" <=> In(t, seq)
PlacesOK(jobs, running) ==
  /\ IsFiniteSet(Busy(jobs)) /\ running = Cardinality(Busy(jobs)) /\ running \in 0..Concurrency

QueueInv ==
  /\ QueueOK(queue, job) /\ PlacesOK(job, active)
  /\ queue # <<>> => active = Concurrency

UrgentStep ==
  \A t, u \in Tokens : Starts(t) /\ ~job'[t].urgent /\ job'[u].at = "queued" => ~job'[u].urgent

(* A sequence without duplicates has as many elements as its length.       *)
LEMMA CountOfSeq ==
  ASSUME NEW s \in Seq(Tokens), Distinct(s), NEW n \in 0..Len(s)
  PROVE  IsFiniteSet({s[i] : i \in 1..n}) /\ Cardinality({s[i] : i \in 1..n}) = n
<1> DEFINE F == {s[i] : i \in 1..n}
           f == [i \in 1..n |-> s[i]]
<1>1. n \in Nat /\ n <= Len(s) /\ Len(s) \in Nat
  BY LenProperties
<1>2. f \in [1..n -> F] /\ \A t \in F : \E i \in 1..n : f[i] = t
  OBVIOUS
<1>3. \A i, k \in 1..n : f[i] = f[k] => i = k
  BY <1>1 DEF Distinct
<1>4. f \in Bijection(1..n, F)
  BY <1>2, <1>3, Fun_IsBij
<1>5. ExistsBijection(1..n, F)
  BY <1>4, Fun_ExistsBij
<1>6. IsFiniteSet(1..n) /\ Cardinality(1..n) = n
  <2>1. IsFiniteSet(1..n) /\ Cardinality(1..n) = IF 1 > n THEN 0 ELSE n - 1 + 1
    BY <1>1, FS_Interval
  <2> QED BY <1>1, <2>1
<1> QED BY <1>5, <1>6, FS_Bijection

(* sortQueue keeps the tokens and puts the urgent ones first.              *)
LEMMA SortedKeeps ==
  ASSUME NEW tokens \in Seq(Tokens), NEW jobs \in [Tokens -> JobRecord], Distinct(tokens),
         NEW s \in Sorted(tokens, jobs)
  PROVE  /\ s \in Seq(Tokens) /\ Len(s) = Len(tokens)
         /\ Distinct(s) /\ UrgentAhead(s, jobs)
         /\ \A t \in Tokens : In(t, s) <=> In(t, tokens)
<1> DEFINE D == 1..Len(tokens)
<1>1. Len(tokens) \in Nat /\ DOMAIN tokens = D /\ \A i \in D : tokens[i] \in Tokens
  BY LenProperties, ElementOfSeq
<1> DEFINE Ahead(t, u) == \E i, k \in DOMAIN tokens : i < k /\ tokens[i] = t /\ tokens[k] = u
<1>0. /\ s \in [DOMAIN tokens -> {tokens[i] : i \in DOMAIN tokens}]
      /\ \A i \in DOMAIN tokens : \E k \in DOMAIN tokens : s[k] = tokens[i]
      /\ \A i, k \in DOMAIN tokens : i < k =>
           IF jobs[s[i]].urgent = jobs[s[k]].urgent THEN Ahead(s[i], s[k]) ELSE jobs[s[i]].urgent
  BY Zenon DEF Sorted
<1>2. /\ s \in [D -> {tokens[i] : i \in D}]
      /\ \A i \in D : \E k \in D : s[k] = tokens[i]
      /\ \A i, k \in D : i < k =>
           IF jobs[s[i]].urgent = jobs[s[k]].urgent THEN Ahead(s[i], s[k]) ELSE jobs[s[i]].urgent
  BY <1>0, <1>1
<1> HIDE DEF Ahead
<1>3. s \in [D -> Tokens]
  BY <1>1, <1>2
<1>4. s \in Seq(Tokens)
  BY <1>1, <1>3, SeqDef
<1>5. Len(s) = Len(tokens)
  BY <1>1, <1>3, <1>4, LenProperties
<1>6. ASSUME NEW i \in D, NEW k \in D, i < k
      PROVE  s[i] # s[k] /\ (jobs[s[i]].urgent \/ ~jobs[s[k]].urgent)
  <2>1. s[i] \in Tokens /\ s[k] \in Tokens
    BY <1>3
  <2>2. jobs[s[i]].urgent \in BOOLEAN /\ jobs[s[k]].urgent \in BOOLEAN
    BY <2>1 DEF JobRecord
  <2>3. CASE jobs[s[i]].urgent = jobs[s[k]].urgent
    <3>0. Ahead(s[i], s[k])
      BY <1>2, <1>6, <2>3
    <3>1. PICK m \in D, n \in D : m < n /\ tokens[m] = s[i] /\ tokens[n] = s[k]
      BY <1>1, <3>0 DEF Ahead
    <3>2. tokens[m] # tokens[n]
      BY <1>1, <3>1 DEF Distinct
    <3> QED BY <2>2, <2>3, <3>1, <3>2
  <2>4. CASE jobs[s[i]].urgent # jobs[s[k]].urgent
    BY <1>2, <1>6, <2>2, <2>4
  <2> QED BY <2>3, <2>4
<1>7. Distinct(s)
  <2> SUFFICES ASSUME NEW i \in D, NEW k \in D, i # k PROVE s[i] # s[k]
    BY <1>5 DEF Distinct
  <2>1. i < k \/ k < i
    BY <1>1
  <2> QED BY <1>6, <2>1
<1>8. UrgentAhead(s, jobs)
  BY <1>5, <1>6 DEF UrgentAhead
<1>9. ASSUME NEW t \in Tokens PROVE In(t, s) <=> In(t, tokens)
  <2>1. ASSUME In(t, s) PROVE In(t, tokens)
    <3>1. PICK k \in D : s[k] = t
      BY <1>5, <2>1 DEF In
    <3>2. s[k] \in {tokens[i] : i \in D}
      BY <1>2
    <3> QED BY <3>1, <3>2 DEF In
  <2>2. ASSUME In(t, tokens) PROVE In(t, s)
    <3>1. PICK i \in D : tokens[i] = t
      BY <2>2 DEF In
    <3>2. PICK k \in D : s[k] = tokens[i]
      BY <1>2
    <3> QED BY <1>5, <3>1, <3>2 DEF In
  <2> QED BY <2>1, <2>2
<1> QED BY <1>4, <1>5, <1>7, <1>8, <1>9

(* pump starts the first jobs of the queue while there is room.            *)
LEMMA PumpKeeps ==
  ASSUME NEW tokens, NEW jobs, NEW running,
         QueueOK(tokens, jobs), PlacesOK(jobs, running), Pump(tokens, jobs, running),
         \A t \in Tokens : jobs[t].at = "fetching" => job[t].at = "fetching"
  PROVE  QueueInv' /\ UrgentStep
<1> DEFINE n == Startable(tokens, running)
           starting == {tokens[i] : i \in 1..n}
<1>1. tokens \in Seq(Tokens) /\ jobs \in [Tokens -> JobRecord] /\ Distinct(tokens)
      /\ Len(tokens) \in Nat /\ \A i \in 1..Len(tokens) : tokens[i] \in Tokens
  BY LenProperties, ElementOfSeq DEF QueueOK
<1>2. running \in Nat /\ Concurrency \in Nat /\ running <= Concurrency
  BY ConcurrencyAssumption DEF PlacesOK
<1>3. n \in 0..Len(tokens) /\ running + n <= Concurrency /\ running + n \in Nat
      /\ (n = Len(tokens) \/ running + n = Concurrency)
  BY <1>1, <1>2 DEF Startable
<1>4. /\ job' = [t \in Tokens |-> IF t \in starting THEN [jobs[t] EXCEPT !.at = "fetching"] ELSE jobs[t]]
      /\ queue' = SubSeq(tokens, n + 1, Len(tokens)) /\ active' = running + n
  BY DEF Pump
<1>5. starting \subseteq Tokens /\ \A t \in starting : jobs[t].at = "queued"
  <2>1. ASSUME NEW i \in 1..n PROVE tokens[i] \in Tokens /\ jobs[tokens[i]].at = "queued"
    <3>1. i \in 1..Len(tokens)
      BY <1>1, <1>3
    <3> QED BY <1>1, <3>1 DEF QueueOK, In
  <2> QED BY <2>1
<1> HIDE DEF n
<1>6. IsFiniteSet(starting) /\ Cardinality(starting) = n
  BY <1>1, <1>3, CountOfSeq
<1>7. ASSUME NEW t \in Tokens
      PROVE  /\ t \in starting => job'[t].at = "fetching" /\ job'[t].urgent = jobs[t].urgent
             /\ t \notin starting => job'[t] = jobs[t]
             /\ job'[t] \in JobRecord
  <2>1. jobs[t] \in JobRecord
    BY <1>1
  <2> QED BY <1>4, <2>1 DEF JobRecord
<1>8. job' \in [Tokens -> JobRecord]
  BY <1>4, <1>7
(* The places.                                                             *)
<1>9. PlacesOK(job, active)'
  <2>1. Busy(job)' = Busy(jobs) \cup starting
    BY <1>5, <1>7 DEF Busy
  <2>2. Busy(jobs) \cap starting = {}
    BY <1>5 DEF Busy
  <2>3. IsFiniteSet(Busy(jobs)) /\ running = Cardinality(Busy(jobs))
    BY DEF PlacesOK
  <2>4. IsFiniteSet(Busy(jobs) \cup starting)
        /\ Cardinality(Busy(jobs) \cup starting) = running + n - Cardinality({})
    BY <1>6, <2>2, <2>3, FS_Union
  <2>5. Cardinality({}) = 0
    BY FS_EmptySet
  <2>6. Cardinality(Busy(jobs) \cup starting) = running + n
    BY <1>2, <1>3, <2>4, <2>5
  <2>7. active' \in 0..Concurrency
    BY <1>2, <1>3, <1>4
  <2>8. IsFiniteSet(Busy(job)') /\ active' = Cardinality(Busy(job)')
    BY <1>4, <2>1, <2>4, <2>6
  <2> QED BY <2>7, <2>8 DEF PlacesOK
(* The queue.                                                              *)
<1>10. /\ queue' \in Seq(Tokens) /\ Len(queue') = Len(tokens) - n /\ Len(queue') \in Nat
       /\ \A i \in 1..Len(queue') : n + i \in 1..Len(tokens) /\ queue'[i] = tokens[n + i]
  <2>1. \A i \in n + 1 .. Len(tokens) : tokens[i] \in Tokens
    BY <1>1, <1>3
  <2>2. n + 1 \in Int /\ Len(tokens) \in Int
    BY <1>1, <1>3
  <2>3. /\ queue' \in Seq(Tokens)
        /\ Len(queue') = IF n + 1 <= Len(tokens) THEN Len(tokens) - (n + 1) + 1 ELSE 0
        /\ \A i \in 1 .. Len(tokens) - (n + 1) + 1 : queue'[i] = tokens[(n + 1) + i - 1]
    BY <1>4, <2>1, <2>2, SubSeqProperties
  <2>4. Len(queue') = Len(tokens) - n /\ Len(queue') \in Nat
    BY <1>1, <1>3, <2>3
  <2>5. ASSUME NEW i \in 1..Len(queue')
        PROVE  n + i \in 1..Len(tokens) /\ queue'[i] = tokens[n + i]
    <3>1. i \in 1 .. Len(tokens) - (n + 1) + 1 /\ (n + 1) + i - 1 = n + i
      BY <1>1, <1>3, <2>4
    <3>2. queue'[i] = tokens[n + i]
      BY <2>3, <3>1
    <3> QED BY <1>1, <1>3, <2>4, <3>2
  <2> QED BY <2>3, <2>4, <2>5
<1>11. \A i \in 1..Len(queue') : queue'[i] \in Tokens \ starting
  <2> SUFFICES ASSUME NEW i \in 1..Len(queue') PROVE queue'[i] \in Tokens \ starting
    OBVIOUS
  <2>1. n + i \in 1..Len(tokens) /\ queue'[i] = tokens[n + i] /\ tokens[n + i] \in Tokens
    BY <1>1, <1>10
  <2>2. ASSUME NEW k \in 1..n PROVE tokens[n + i] # tokens[k]
    <3>1. k \in 1..Len(tokens) /\ k # n + i
      BY <1>1, <1>3, <1>10
    <3> QED BY <1>1, <2>1, <3>1 DEF Distinct
  <2> QED BY <2>1, <2>2
<1>12. Distinct(queue')
  <2> SUFFICES ASSUME NEW i \in 1..Len(queue'), NEW k \in 1..Len(queue'), queue'[i] = queue'[k]
               PROVE  i = k
    BY DEF Distinct
  <2>1. n + i = n + k
    BY <1>1, <1>10 DEF Distinct
  <2> QED BY <1>3, <1>10, <2>1
<1>13. UrgentAhead(queue', job')
  <2> SUFFICES ASSUME NEW i \in 1..Len(queue'), NEW k \in 1..Len(queue'), i < k
               PROVE  job'[queue'[i]].urgent \/ ~job'[queue'[k]].urgent
    BY DEF UrgentAhead
  <2>1. n + i < n + k
    BY <1>3, <1>10
  <2>2. jobs[tokens[n + i]].urgent \/ ~jobs[tokens[n + k]].urgent
    BY <1>10, <2>1 DEF QueueOK, UrgentAhead
  <2> QED BY <1>7, <1>10, <1>11, <2>2
<1>14. ASSUME NEW t \in Tokens PROVE job'[t].at = "queued" <=> In(t, queue')
  <2>1. CASE t \in starting
    <3>1. ~In(t, queue')
      BY <1>11, <2>1 DEF In
    <3> QED BY <1>7, <2>1, <3>1
  <2>2. CASE t \notin starting
    <3>1. job'[t] = jobs[t] /\ (jobs[t].at = "queued" <=> In(t, tokens))
      BY <1>7, <2>2 DEF QueueOK
    <3>2. In(t, queue') => In(t, tokens)
      BY <1>10 DEF In
    <3>3. ASSUME In(t, tokens) PROVE In(t, queue')
      <4>1. PICK m \in 1..Len(tokens) : tokens[m] = t
        BY <3>3 DEF In
      <4>2. m \notin 1..n
        BY <2>2, <4>1
      <4>3. m - n \in 1..Len(queue') /\ n + (m - n) = m
        BY <1>1, <1>3, <1>10, <4>2
      <4>4. queue'[m - n] = t
        BY <1>10, <4>1, <4>3
      <4> QED BY <4>3, <4>4 DEF In
    <3> QED BY <3>1, <3>2, <3>3
  <2> QED BY <2>1, <2>2
<1>15. QueueOK(queue, job)'
  BY <1>8, <1>10, <1>12, <1>13, <1>14 DEF QueueOK
<1>16. queue' # <<>> => active' = Concurrency
  <2> SUFFICES ASSUME queue' # <<>> PROVE active' = Concurrency
    OBVIOUS
  <2>1. Len(queue') # 0
    BY <1>10, EmptySeq
  <2> QED BY <1>1, <1>3, <1>4, <1>10, <2>1
(* What starts is ahead of what stays.                                     *)
<1>17. ASSUME NEW t \in Tokens, NEW u \in Tokens, Starts(t), ~job'[t].urgent, job'[u].at = "queued"
       PROVE  ~job'[u].urgent
  <2>1. t \in starting
    BY <1>7, <1>17 DEF Starts, JobAt
  <2>2. PICK i \in 1..n : tokens[i] = t
    BY <2>1
  <2>3. PICK k \in 1..Len(queue') : queue'[k] = u
    BY <1>14, <1>17 DEF In
  <2>4. i \in 1..Len(tokens) /\ n + k \in 1..Len(tokens) /\ i < n + k /\ tokens[n + k] = u
    BY <1>1, <1>3, <1>10, <2>2, <2>3
  <2>5. ~jobs[t].urgent
    BY <1>7, <1>17, <2>1
  <2>6. ~jobs[u].urgent
    BY <2>2, <2>4, <2>5 DEF QueueOK, UrgentAhead
  <2>7. u \notin starting
    BY <1>11, <2>3
  <2> QED BY <1>7, <2>6, <2>7
<1>18. UrgentStep
  BY <1>17 DEF UrgentStep
<1> QED BY <1>9, <1>15, <1>16, <1>18 DEF QueueInv

(* A request joins its token's job, or makes one.                          *)
LEMMA JoinKeeps ==
  ASSUME QueueInv, NEW t \in Tokens, NEW urgent \in BOOLEAN, Join(t, urgent)
  PROVE  QueueInv' /\ UrgentStep
<1>1. PICK jobs : /\ jobs = [job EXCEPT ![t].urgent = @ \/ urgent]
                  /\ job' = jobs /\ queue' \in Sorted(queue, jobs) /\ active' = active
  BY DEF Join
<1>2. queue \in Seq(Tokens) /\ job \in [Tokens -> JobRecord] /\ Distinct(queue)
  BY DEF QueueInv, QueueOK
<1>3. jobs \in [Tokens -> JobRecord] /\ \A u \in Tokens : jobs[u].at = job[u].at
  <2>1. job[t] \in JobRecord
    BY <1>2
  <2>2. (job[t].urgent \/ urgent) \in BOOLEAN
    BY <2>1 DEF JobRecord
  <2>3. [job[t] EXCEPT !.urgent = @ \/ urgent] \in JobRecord
        /\ [job[t] EXCEPT !.urgent = @ \/ urgent].at = job[t].at
    BY <2>1, <2>2 DEF JobRecord
  <2> QED BY <1>1, <1>2, <2>3
<1>4. /\ queue' \in Seq(Tokens) /\ Len(queue') = Len(queue) /\ Distinct(queue')
      /\ UrgentAhead(queue', jobs) /\ \A u \in Tokens : In(u, queue') <=> In(u, queue)
  BY <1>1, <1>2, <1>3, SortedKeeps
<1>5. QueueOK(queue', job')
  BY <1>1, <1>3, <1>4 DEF QueueOK, QueueInv
<1>6. PlacesOK(job', active')
  <2>1. Busy(job') = Busy(job)
    BY <1>1, <1>3 DEF Busy
  <2> QED BY <1>1, <2>1 DEF PlacesOK, QueueInv
<1>7. queue' # <<>> => active' = Concurrency
  <2> SUFFICES ASSUME queue' # <<>> PROVE active = Concurrency
    BY <1>1
  <2>1. Len(queue) # 0
    BY <1>4, EmptySeq
  <2>2. queue # <<>>
    BY <2>1, EmptySeq
  <2> QED BY <2>2 DEF QueueInv
<1>8. \A u \in Tokens : ~Starts(u)
  BY <1>1, <1>3 DEF Starts, JobAt
<1> QED BY <1>5, <1>6, <1>7, <1>8 DEF QueueInv, UrgentStep

Listed(t, urgent) == [job EXCEPT ![t] = [at |-> "queued", urgent |-> urgent]]

LEMMA EnlistedQueue ==
  ASSUME QueueInv, NEW t \in Tokens, NEW urgent \in BOOLEAN, JobAt(t, "none"),
         NEW tokens \in Sorted(Append(queue, t), Listed(t, urgent))
  PROVE  /\ QueueOK(tokens, Listed(t, urgent)) /\ PlacesOK(Listed(t, urgent), active)
         /\ Listed(t, urgent)[t].at = "queued"
         /\ \A u \in Tokens \ {t} : Listed(t, urgent)[u] = job[u]
<1> DEFINE jobs == Listed(t, urgent)
<1>1. tokens \in Sorted(Append(queue, t), jobs)
  OBVIOUS
<1>2. /\ queue \in Seq(Tokens) /\ job \in [Tokens -> JobRecord] /\ Distinct(queue)
      /\ \A u \in Tokens : job[u].at = "queued" <=> In(u, queue)
  BY DEF QueueInv, QueueOK
<1>3. /\ jobs \in [Tokens -> JobRecord] /\ jobs[t].at = "queued"
      /\ \A u \in Tokens \ {t} : jobs[u] = job[u]
  <2>1. [at |-> "queued", urgent |-> urgent] \in JobRecord
    BY DEF JobRecord
  <2> QED BY <1>2, <2>1 DEF Listed
<1> HIDE DEF jobs
<1>4. job[t].at = "none" /\ ~In(t, queue)
  BY <1>2 DEF JobAt
<1> DEFINE longer == Append(queue, t)
<1>5. /\ longer \in Seq(Tokens) /\ Len(longer) = Len(queue) + 1 /\ Len(queue) \in Nat
      /\ \A i \in 1..Len(queue) : longer[i] = queue[i]
      /\ longer[Len(queue) + 1] = t
  BY <1>2, AppendProperties, LenProperties
<1> HIDE DEF longer
<1>6. Distinct(longer)
  <2> SUFFICES ASSUME NEW i \in 1..Len(queue) + 1, NEW k \in 1..Len(queue) + 1, longer[i] = longer[k]
               PROVE  i = k
    BY <1>5 DEF Distinct
  <2>1. \A m \in 1..Len(queue) + 1 : m \in 1..Len(queue) \/ m = Len(queue) + 1
    BY <1>5
  <2>2. \A m \in 1..Len(queue) : longer[m] # t
    BY <1>4, <1>5 DEF In
  <2>3. CASE i \in 1..Len(queue) /\ k \in 1..Len(queue)
    BY <1>2, <1>5, <2>3 DEF Distinct
  <2> QED BY <1>5, <2>1, <2>2, <2>3
<1>7. \A u \in Tokens : In(u, longer) <=> In(u, queue) \/ u = t
  <2> SUFFICES ASSUME NEW u \in Tokens PROVE In(u, longer) <=> In(u, queue) \/ u = t
    OBVIOUS
  <2>1. \A m \in 1..Len(queue) + 1 : m \in 1..Len(queue) \/ m = Len(queue) + 1
    BY <1>5
  <2>2. Len(queue) + 1 \in 1..Len(longer) /\ 1..Len(queue) \subseteq 1..Len(longer)
    BY <1>5
  <2> QED BY <1>5, <2>1, <2>2 DEF In
<1>8. /\ tokens \in Seq(Tokens) /\ Distinct(tokens) /\ UrgentAhead(tokens, jobs)
      /\ \A u \in Tokens : In(u, tokens) <=> In(u, longer)
  BY <1>1, <1>3, <1>5, <1>6, SortedKeeps DEF longer
<1>9. QueueOK(tokens, jobs)
  <2>1. \A u \in Tokens : jobs[u].at = "queued" <=> In(u, tokens)
    BY <1>2, <1>3, <1>7, <1>8
  <2> QED BY <1>3, <1>8, <2>1 DEF QueueOK
<1>10. PlacesOK(jobs, active)
  <2>1. Busy(jobs) = Busy(job)
    BY <1>3, <1>4 DEF Busy
  <2> QED BY <2>1 DEF PlacesOK, QueueInv
<1> QED BY <1>3, <1>9, <1>10 DEF jobs

LEMMA EnlistKeeps ==
  ASSUME QueueInv, NEW t \in Tokens, NEW urgent \in BOOLEAN, JobAt(t, "none"), Enlist(t, urgent)
  PROVE  QueueInv' /\ UrgentStep
<1>1. PICK tokens \in Sorted(Append(queue, t), Listed(t, urgent)) :
             Pump(tokens, Listed(t, urgent), active)
  BY DEF Enlist, Listed
<1>2. \A u \in Tokens : Listed(t, urgent)[u].at = "fetching" => job[u].at = "fetching"
  BY EnlistedQueue
<1> QED BY <1>1, <1>2, EnlistedQueue, PumpKeeps

LEMMA AwaitKeeps ==
  ASSUME QueueInv, NEW t \in Tokens, NEW urgent \in BOOLEAN, Await(t, urgent)
  PROVE  QueueInv' /\ UrgentStep
BY JoinKeeps, EnlistKeeps DEF Await

(* A job that is over leaves its place to the next.                        *)
Ended(t) == [job EXCEPT ![t] = NoJob]

LEMMA EndedQueue ==
  ASSUME QueueInv, NEW t \in Tokens, JobAt(t, "ending")
  PROVE  /\ QueueOK(queue, Ended(t)) /\ PlacesOK(Ended(t), active - 1)
         /\ Ended(t)[t].at = "none" /\ \A u \in Tokens \ {t} : Ended(t)[u] = job[u]
<1> DEFINE jobs == Ended(t)
<1>1. job[t].at = "ending"
  BY DEF JobAt
<1>2. /\ queue \in Seq(Tokens) /\ job \in [Tokens -> JobRecord]
      /\ \A u \in Tokens : job[u].at = "queued" <=> In(u, queue)
  BY DEF QueueInv, QueueOK
<1>3. /\ jobs \in [Tokens -> JobRecord] /\ jobs[t].at = "none"
      /\ \A u \in Tokens \ {t} : jobs[u] = job[u]
  <2>1. NoJob \in JobRecord /\ NoJob.at = "none"
    BY DEF JobRecord, NoJob
  <2> QED BY <1>2, <2>1 DEF Ended
<1> HIDE DEF jobs
<1>4. ~In(t, queue)
  BY <1>1, <1>2
<1>5. QueueOK(queue, jobs)
  <2>1. UrgentAhead(queue, jobs)
    <3>1. \A i \in 1..Len(queue) : queue[i] \in Tokens \ {t}
      BY <1>2, <1>4, ElementOfSeq DEF In
    <3> QED BY <1>3, <3>1 DEF UrgentAhead, QueueInv, QueueOK
  <2>2. \A u \in Tokens : jobs[u].at = "queued" <=> In(u, queue)
    BY <1>2, <1>3, <1>4
  <2> QED BY <1>3, <2>1, <2>2 DEF QueueOK, QueueInv
<1>6. PlacesOK(jobs, active - 1)
  <2>1. Busy(jobs) = Busy(job) \ {t} /\ t \in Busy(job)
    BY <1>1, <1>3 DEF Busy
  <2>2. IsFiniteSet(Busy(job)) /\ active = Cardinality(Busy(job)) /\ active \in 0..Concurrency
    BY DEF PlacesOK, QueueInv
  <2>3. IsFiniteSet(Busy(jobs)) /\ Cardinality(Busy(jobs)) = active - 1 /\ Cardinality(Busy(jobs)) \in Nat
    BY <2>1, <2>2, FS_RemoveElement, FS_CardinalityType
  <2>4. active - 1 \in 0..Concurrency
    BY <2>2, <2>3, ConcurrencyAssumption
  <2> QED BY <2>3, <2>4 DEF PlacesOK
<1> QED BY <1>3, <1>5, <1>6 DEF jobs

LEMMA EndKeeps ==
  ASSUME QueueInv, NEW t \in Tokens, JobEnds(t) PROVE QueueInv' /\ UrgentStep
<1>1. Pump(queue, Ended(t), active - 1) /\ JobAt(t, "ending")
  BY DEF JobEnds, Refilled, Ended
<1>2. \A u \in Tokens : Ended(t)[u].at = "fetching" => job[u].at = "fetching"
  BY <1>1, EndedQueue
<1> QED BY <1>1, <1>2, EndedQueue, PumpKeeps

(* A job that has its answer is ending; nothing else moves.                *)
LEMMA EndingKeeps ==
  ASSUME QueueInv, NEW t \in Tokens, JobAt(t, "fetching"), Ending(t), UNCHANGED <<queue, active>>
  PROVE  QueueInv' /\ UrgentStep
<1>1. job \in [Tokens -> JobRecord] /\ job' = [job EXCEPT ![t].at = "ending"] /\ job[t].at = "fetching"
      /\ queue' = queue /\ active' = active
  BY DEF Ending, JobAt, QueueInv, QueueOK
<1>2. /\ job' \in [Tokens -> JobRecord] /\ job'[t].at = "ending" /\ job'[t].urgent = job[t].urgent
      /\ \A u \in Tokens \ {t} : job'[u] = job[u]
  <2>1. job[t] \in JobRecord
    BY <1>1
  <2>2. [job[t] EXCEPT !.at = "ending"] \in JobRecord
        /\ [job[t] EXCEPT !.at = "ending"].at = "ending"
        /\ [job[t] EXCEPT !.at = "ending"].urgent = job[t].urgent
    BY <2>1 DEF JobRecord
  <2> QED BY <1>1, <2>2
<1>3. Busy(job') = Busy(job)
  BY <1>1, <1>2 DEF Busy
<1>4. QueueOK(queue', job')
  <2>1. \A u \in Tokens : job'[u].at = "queued" <=> job[u].at = "queued"
    BY <1>1, <1>2
  <2>2. \A u \in Tokens : job'[u].urgent = job[u].urgent
    BY <1>2
  <2>3. \A i \in 1..Len(queue) : queue[i] \in Tokens
    BY ElementOfSeq DEF QueueInv, QueueOK
  <2>4. UrgentAhead(queue', job')
    BY <1>1, <2>2, <2>3 DEF UrgentAhead, QueueInv, QueueOK
  <2> QED BY <1>1, <1>2, <2>1, <2>4 DEF QueueOK, QueueInv
<1>5. PlacesOK(job', active')
  BY <1>1, <1>3 DEF PlacesOK, QueueInv
<1>6. \A u \in Tokens : ~Starts(u)
  BY <1>1, <1>2 DEF Starts, JobAt
<1> QED BY <1>1, <1>4, <1>5, <1>6 DEF QueueInv, UrgentStep

LEMMA StillKeeps ==
  ASSUME QueueInv, UNCHANGED <<job, queue, active>> PROVE QueueInv' /\ UrgentStep
<1>1. QueueInv'
  BY DEF QueueInv, QueueOK, PlacesOK, Busy, In, Distinct, UrgentAhead
<1>2. \A u \in Tokens : ~Starts(u)
  BY DEF Starts, JobAt
<1> QED BY <1>1, <1>2 DEF UrgentStep

LEMMA QueueStep == ASSUME QueueInv, [Next]_vars PROVE QueueInv' /\ UrgentStep
<1>1. ASSUME NEW t \in Tokens, Preheat(t) PROVE QueueInv' /\ UrgentStep
  BY <1>1, AwaitKeeps, StillKeeps DEF Preheat
<1>2. ASSUME NEW t \in Tokens, BeginRecheck(t) PROVE QueueInv' /\ UrgentStep
  BY <1>2, AwaitKeeps, StillKeeps DEF BeginRecheck
<1>3. ASSUME NEW t \in Tokens, FetchSucceeds(t) \/ FetchFails(t) PROVE QueueInv' /\ UrgentStep
  BY <1>3, EndingKeeps DEF FetchSucceeds, FetchFails
<1>4. ASSUME NEW t \in Tokens, Judge(t) \/ PoolAnswers(t) \/ Assess(t) \/ Send(t)
      PROVE  QueueInv' /\ UrgentStep
  BY <1>4, StillKeeps DEF Judge, PoolAnswers, Assess, Send, manager
<1>5. CASE Tick \/ UNCHANGED vars
  BY <1>5, StillKeeps DEF Tick, vars, manager
<1> QED BY <1>1, <1>2, <1>3, <1>4, <1>5, EndKeeps DEF Next, Settle

LEMMA InitQueue == Init => QueueInv
<1> SUFFICES ASSUME Init PROVE QueueInv
  OBVIOUS
<1>1. queue = <<>> /\ active = 0 /\ job = [t \in Tokens |-> NoJob]
  BY DEF Init
<1>2. NoJob \in JobRecord /\ NoJob.at = "none"
  BY DEF NoJob, JobRecord
<1>3. queue \in Seq(Tokens) /\ 1..Len(queue) = {}
  BY <1>1, EmptySeq
<1>4. QueueOK(queue, job)
  BY <1>1, <1>2, <1>3 DEF QueueOK, Distinct, UrgentAhead, In
<1>5. Busy(job) = {}
  BY <1>1, <1>2 DEF Busy
<1>6. PlacesOK(job, active)
  <2>1. IsFiniteSet(Busy(job)) /\ Cardinality(Busy(job)) = 0
    BY <1>5, FS_EmptySet
  <2>2. active = 0 /\ 0 \in 0..Concurrency
    BY <1>1, ConcurrencyAssumption
  <2> QED BY <2>1, <2>2 DEF PlacesOK
<1> QED BY <1>1, <1>4, <1>6 DEF QueueInv

THEOREM AlwaysQueued == Spec => []QueueInv
BY InitQueue, QueueStep, PTL DEF Spec

(* Jobs, queue and places agree, no token has two jobs, and no place is    *)
(* free while a job waits for one, for any concurrency.                    *)
THEOREM JobsAreAccounted == Spec => []JobsAccounted
<1>1. QueueInv => JobsAccounted
  <2> SUFFICES ASSUME QueueInv PROVE JobsAccounted
    OBVIOUS
  <2> DEFINE Waiting == {t \in Tokens : JobAt(t, "queued")}
             Places == {queue[i] : i \in DOMAIN queue}
  <2>1. queue \in Seq(Tokens) /\ Distinct(queue) /\ Len(queue) \in Nat
        /\ DOMAIN queue = 1..Len(queue) /\ \A i \in 1..Len(queue) : queue[i] \in Tokens
    BY LenProperties, ElementOfSeq DEF QueueInv, QueueOK
  <2>2. \A t \in Tokens : JobAt(t, "queued") <=> In(t, queue)
    BY DEF QueueInv, QueueOK, JobAt
  <2>3. Places = Waiting
    BY <2>1, <2>2 DEF In
  <2>4. Cardinality(Places) = Len(queue)
    <3>1. Len(queue) \in 0..Len(queue) /\ Places = {queue[i] : i \in 1..Len(queue)}
      BY <2>1
    <3> QED BY <2>1, <3>1, CountOfSeq
  <2>5. active = Cardinality(Running)
    BY DEF QueueInv, PlacesOK, Busy, Running
  <2> QED BY <2>3, <2>4, <2>5 DEF JobsAccounted, QueueInv
<1> QED BY <1>1, AlwaysQueued, PTL

(* No preheat takes a place that a sender waits for.                       *)
THEOREM UrgentGoFirst == Spec => UrgentFirst
<1>1. QueueInv /\ [Next]_vars => [UrgentStep]_vars
  BY QueueStep
<1>2. UrgentFirst <=> [][UrgentStep]_vars
  BY PTL DEF UrgentFirst, UrgentStep
<1> QED BY <1>1, <1>2, AlwaysQueued, PTL DEF Spec

(* The types: the times are not in the future.                             *)
TimesInv ==
  /\ now \in Nat
  /\ cache \in [Tokens -> Times] /\ failed \in [Tokens -> Times]
  /\ check \in [Tokens -> [at : {"idle", "security", "judging", "pool", "assessing", "passed"},
                           since : Times, captured : Times, pool : Times]]

LEMMA TimesStep == ASSUME TimesInv, [Next]_vars PROVE TimesInv'
<1> DEFINE Checks == [at : {"idle", "security", "judging", "pool", "assessing", "passed"},
                      since : Times, captured : Times, pool : Times]
<1>1. NoCheck \in Checks /\ None \in Times /\ now \in Times
  BY DEF TimesInv, NoCheck, Times
<1>2. ASSUME UNCHANGED now PROVE Times' = Times
  BY <1>2 DEF Times
<1>3. Pruned(cache) \in [Tokens -> Times] /\ Pruned(failed) \in [Tokens -> Times]
  BY <1>1 DEF Pruned, TimesInv
<1>4. ASSUME NEW t \in Tokens, Preheat(t) PROVE TimesInv'
  BY <1>2, <1>3, <1>4 DEF Preheat, Prune, TimesInv
<1>5. ASSUME NEW t \in Tokens, BeginRecheck(t) PROVE TimesInv'
  <2>1. UNCHANGED now /\ cache' = Pruned(cache) /\ failed' = Pruned(failed)
    BY <1>5 DEF BeginRecheck, Prune
  <2>2. \/ check' = [check EXCEPT ![t].at = "judging"]
        \/ check' = [check EXCEPT ![t].at = "security"]
        \/ check' = [check EXCEPT ![t] = NoCheck]
    BY <1>5 DEF BeginRecheck, Refuse
  <2>3. check' \in [Tokens -> Checks]
    BY <1>1, <2>2 DEF TimesInv
  <2> QED BY <1>2, <1>3, <2>1, <2>3 DEF TimesInv
<1>6. ASSUME NEW t \in Tokens, FetchSucceeds(t) PROVE TimesInv'
  BY <1>1, <1>2, <1>6 DEF FetchSucceeds, TimesInv, Answer
<1>7. ASSUME NEW t \in Tokens, FetchFails(t) PROVE TimesInv'
  BY <1>1, <1>2, <1>7 DEF FetchFails, Remembered, TimesInv, Refuse
<1>8. ASSUME NEW t \in Tokens, JobEnds(t) PROVE TimesInv'
  BY <1>2, <1>8 DEF JobEnds, TimesInv
<1>9. ASSUME NEW t \in Tokens, Judge(t) PROVE TimesInv'
  BY <1>1, <1>2, <1>9 DEF Judge, TimesInv, Refuse, manager
<1>10. ASSUME NEW t \in Tokens, PoolAnswers(t) \/ Assess(t) \/ Send(t) PROVE TimesInv'
  BY <1>1, <1>2, <1>10 DEF PoolAnswers, Assess, Send, TimesInv, Refuse, manager
<1>11. CASE Tick
  <2>1. Times \subseteq Times' /\ now' \in Nat /\ UNCHANGED <<cache, failed, check>>
    BY <1>11 DEF Tick, Times, TimesInv, manager
  <2> QED BY <2>1 DEF TimesInv
<1>12. CASE UNCHANGED vars
  BY <1>2, <1>12 DEF vars, manager, TimesInv
<1> QED
  BY <1>4, <1>5, <1>6, <1>7, <1>8, <1>9, <1>10, <1>11, <1>12 DEF Next, Settle

THEOREM AlwaysTimed == Spec => []TimesInv
<1>1. Init => TimesInv
  BY DEF Init, TimesInv, Times, NoCheck
<1> QED BY <1>1, TimesStep, PTL DEF Spec

(* The types, with no more jobs in flight than security_max_concurrency.   *)
THEOREM ManagerIsTyped == Spec => []TypeOK
<1>1. QueueInv /\ TimesInv => TypeOK
  BY DEF QueueInv, QueueOK, PlacesOK, JobRecord, TimesInv, TypeOK
<1> QED BY <1>1, AlwaysQueued, AlwaysTimed, PTL

-----------------------------------------------------------------------------
(* The refinement.  A token is asked for from the request of its job on,   *)
(* whether the job has a place or waits for one, until its answer.         *)
Asked(jobs) == {t \in Tokens : jobs[t].at \in {"queued", "fetching"}}
Awaited(checks) == {t \in Tokens : checks[t].at = "security"}

Same == UNCHANGED <<now, Pruned(cache), Pruned(failed), Asked(job), Awaited(check)>>

LEMMA SameIsStutter == ASSUME Same PROVE UNCHANGED View!viewVars
BY DEF Same, View!viewVars, Asked, Awaited, CheckAt

(* A place makes no difference.                                            *)
LEMMA PumpAsks ==
  ASSUME NEW tokens, NEW jobs, NEW running \in Int, QueueOK(tokens, jobs), Pump(tokens, jobs, running)
  PROVE  Asked(job') = Asked(jobs)
<1> DEFINE starting == {tokens[i] : i \in 1..Startable(tokens, running)}
<1>1. Len(tokens) \in Nat /\ jobs \in [Tokens -> JobRecord]
      /\ \A i \in 1..Len(tokens) : tokens[i] \in Tokens
  BY LenProperties, ElementOfSeq DEF QueueOK
<1>2. Startable(tokens, running) \in Int /\ Startable(tokens, running) <= Len(tokens)
  BY <1>1, ConcurrencyAssumption DEF Startable
<1>3. \A t \in starting : jobs[t].at = "queued"
  <2>1. ASSUME NEW i \in 1..Startable(tokens, running) PROVE jobs[tokens[i]].at = "queued"
    <3>1. i \in 1..Len(tokens)
      BY <1>1, <1>2
    <3> QED BY <1>1, <3>1 DEF QueueOK, In
  <2> QED BY <2>1
<1>4. job' = [t \in Tokens |-> IF t \in starting THEN [jobs[t] EXCEPT !.at = "fetching"] ELSE jobs[t]]
  BY DEF Pump
<1> HIDE DEF starting
<1>5. ASSUME NEW t \in Tokens
      PROVE  job'[t].at \in {"queued", "fetching"} <=> jobs[t].at \in {"queued", "fetching"}
  <2>1. jobs[t] \in JobRecord
    BY <1>1
  <2>2. [jobs[t] EXCEPT !.at = "fetching"].at = "fetching"
    BY <2>1 DEF JobRecord
  <2> QED BY <1>3, <1>4, <2>2
<1> QED BY <1>5 DEF Asked

(* A request asks for its token, unless the token's job is just ending.    *)
LEMMA AwaitAsks ==
  ASSUME QueueInv, NEW t \in Tokens, NEW urgent \in BOOLEAN, Await(t, urgent)
  PROVE  Asked(job') = IF JobAt(t, "ending") THEN Asked(job) ELSE Asked(job) \cup {t}
<1>1. job \in [Tokens -> JobRecord] /\ active \in Int
  BY DEF QueueInv, QueueOK, PlacesOK
<1>2. CASE JobAt(t, "none")
  <2>1. PICK tokens \in Sorted(Append(queue, t), Listed(t, urgent)) :
               Pump(tokens, Listed(t, urgent), active)
    BY <1>2 DEF Await, Enlist, Listed
  <2>2. Asked(job') = Asked(Listed(t, urgent))
    BY <1>1, <1>2, <2>1, EnlistedQueue, PumpAsks
  <2>3. Asked(Listed(t, urgent)) = Asked(job) \cup {t}
    BY <1>2, <2>1, EnlistedQueue DEF Asked
  <2> QED BY <1>2, <2>2, <2>3 DEF JobAt
<1>3. CASE ~JobAt(t, "none")
  <2>1. job' = [job EXCEPT ![t].urgent = @ \/ urgent]
    BY <1>3 DEF Await, Join
  <2>2. \A u \in Tokens : job'[u].at = job[u].at
    BY <1>1, <2>1 DEF JobRecord
  <2>3. Asked(job') = Asked(job)
    BY <2>2 DEF Asked
  <2>4. job[t] \in JobRecord
    BY <1>1
  <2>5. t \in Asked(job) \/ JobAt(t, "ending")
    BY <1>3, <2>4 DEF Asked, JobAt, JobRecord
  <2> QED BY <2>3, <2>5
<1> QED BY <1>2, <1>3

LEMMA PrunedTwice ==
  ASSUME now \in Nat, NEW times \in [Tokens -> Times], UNCHANGED now
  PROVE  Pruned(Pruned(times)) = Pruned(times)
BY DEF Pruned, Within

LEMMA PruneHides ==
  ASSUME TimesInv, Prune, UNCHANGED now
  PROVE  UNCHANGED <<Pruned(cache), Pruned(failed)>>
<1>1. Pruned(cache)' = Pruned(Pruned(cache)) /\ Pruned(failed)' = Pruned(Pruned(failed))
  BY DEF Prune, Pruned, Within
<1> QED BY <1>1, PrunedTwice DEF TimesInv

LEMMA StepOfView ==
  ASSUME QueueInv, TimesInv, [Next]_vars PROVE [View!ViewNext]_(View!viewVars)
<1> USE AgeAssumption
<1>0. /\ now \in Nat /\ cache \in [Tokens -> Times] /\ failed \in [Tokens -> Times]
      /\ job \in [Tokens -> JobRecord] /\ DOMAIN check = Tokens
      /\ \A t \in Tokens : check[t] = [check[t] EXCEPT !.at = check[t].at]
      /\ check \in [Tokens -> [at : {"idle", "security", "judging", "pool", "assessing", "passed"},
                               since : Times, captured : Times, pool : Times]]
  BY DEF TimesInv, QueueInv, QueueOK
<1>1. CASE Same
  BY <1>1, SameIsStutter
<1>2. ASSUME NEW t \in Tokens, Preheat(t) PROVE View!ViewNext \/ Same
  <2>1. UNCHANGED <<now, Pruned(cache), Pruned(failed), Awaited(check)>>
    BY <1>2, PruneHides DEF Preheat, Awaited
  <2>2. CASE UNCHANGED job
    BY <2>1, <2>2 DEF Same, Asked
  <2>3. CASE Await(t, FALSE) /\ ~Within(cache[t], CacheTtl) /\ ~Within(failed[t], CacheTtl)
    <3>1. CASE JobAt(t, "ending")
      BY <2>1, <2>3, <3>1, AwaitAsks DEF Same
    <3>2. CASE ~JobAt(t, "ending")
      <4>1. Asked(job') = Asked(job) \cup {t}
        BY <2>3, <3>2, AwaitAsks
      <4>2. Pruned(cache)[t] = None /\ Pruned(failed)[t] = None
        BY <2>3 DEF Pruned
      <4>3. View!Preheat(t)
        BY <2>1, <4>1, <4>2 DEF View!Preheat, Asked, Awaited, CheckAt
      <4> QED BY <4>3 DEF View!ViewNext
    <3> QED BY <3>1, <3>2
  <2> QED BY <1>2, <2>2, <2>3 DEF Preheat
<1>3. ASSUME NEW t \in Tokens, BeginRecheck(t) PROVE View!ViewNext \/ Same
  <2>1. UNCHANGED <<now, Pruned(cache), Pruned(failed)>> /\ check[t].at = "idle"
    BY <1>3, PruneHides DEF BeginRecheck, CheckAt
  <2>2. CASE check' = [check EXCEPT ![t].at = "judging"] /\ UNCHANGED job
    <3>1. Awaited(check') = Awaited(check)
      BY <1>0, <2>1, <2>2 DEF Awaited
    <3> QED BY <2>1, <2>2, <3>1 DEF Same, Asked
  <2>3. CASE ~Within(cache[t], SendMaxAge) /\ Await(t, TRUE) /\ JobAt(t, "ending") /\ Refuse(t)
    <3>1. Awaited(check') = Awaited(check)
      BY <1>0, <2>1, <2>3 DEF Awaited, Refuse, NoCheck
    <3>2. Asked(job') = Asked(job)
      BY <2>3, AwaitAsks
    <3> QED BY <2>1, <3>1, <3>2 DEF Same
  <2>4. CASE /\ ~Within(cache[t], SendMaxAge) /\ Await(t, TRUE) /\ ~JobAt(t, "ending")
             /\ check' = [check EXCEPT ![t].at = "security"]
    <3>1. Awaited(check') = Awaited(check) \cup {t}
      BY <1>0, <2>4 DEF Awaited
    <3>2. Asked(job') = Asked(job) \cup {t}
      BY <2>4, AwaitAsks
    <3>3. Pruned(cache)[t] = None \/ now - Pruned(cache)[t] > SendMaxAge
      BY <1>0, <2>4 DEF Pruned, Within, Times, None
    <3>4. View!Require(t)
      BY <2>1, <3>1, <3>2, <3>3 DEF View!Require, Asked, Awaited, CheckAt
    <3> QED BY <3>4 DEF View!ViewNext
  <2> QED BY <1>3, <2>2, <2>3, <2>4 DEF BeginRecheck
<1>4. ASSUME NEW t \in Tokens, FetchSucceeds(t) \/ FetchFails(t) PROVE View!ViewNext
  <2>1. /\ job[t].at = "fetching" /\ job' = [job EXCEPT ![t].at = "ending"] /\ now' = now
        /\ \/ check[t].at # "security" /\ check' = check
           \/ check' = [check EXCEPT ![t].at = "judging"]
           \/ check' = [check EXCEPT ![t] = NoCheck]
    BY <1>4 DEF FetchSucceeds, FetchFails, JobAt, Ending, Answer, Refuse, CheckAt
  <2>2. Asked(job') = Asked(job) \ {t} /\ t \in Asked(job)
    BY <1>0, <2>1 DEF Asked, JobRecord
  <2>3. Awaited(check') = Awaited(check) \ {t}
    BY <1>0, <2>1 DEF Awaited, NoCheck
  <2>4. View!Answered(t)
    BY <2>1, <2>2, <2>3 DEF View!Answered, Asked, Awaited, CheckAt
  <2>5. Within(now, CacheTtl) /\ ~Within(None, CacheTtl)
    BY <1>0 DEF Within, None
  <2>6. CASE FetchSucceeds(t)
    <3>1. cache' = [cache EXCEPT ![t] = now] /\ failed' = [failed EXCEPT ![t] = None]
      BY <2>6 DEF FetchSucceeds
    <3>2. Pruned(cache)' = [Pruned(cache) EXCEPT ![t] = now]
      BY <1>0, <2>1, <2>5, <3>1 DEF Pruned, Within
    <3>3. Pruned(failed)' = [Pruned(failed) EXCEPT ![t] = None]
      BY <1>0, <2>1, <2>5, <3>1 DEF Pruned, Within
    <3>4. View!Arrives(t)
      BY <2>4, <3>2, <3>3 DEF View!Arrives
    <3> QED BY <3>4 DEF View!ViewNext
  <2>7. CASE FetchFails(t)
    <3>1. cache' = cache /\ failed' = [failed EXCEPT ![t] = now]
      BY <2>7 DEF FetchFails, Remembered
    <3>2. Pruned(cache)' = Pruned(cache)
      BY <2>1, <3>1 DEF Pruned, Within
    <3>3. Pruned(failed)' = [Pruned(failed) EXCEPT ![t] = now]
      BY <1>0, <2>1, <2>5, <3>1 DEF Pruned, Within
    <3>4. View!Fails(t)
      BY <2>4, <3>2, <3>3 DEF View!Fails
    <3> QED BY <3>4 DEF View!ViewNext
  <2> QED BY <1>4, <2>6, <2>7
<1>5. ASSUME NEW t \in Tokens, JobEnds(t) PROVE Same
  <2>1. JobAt(t, "ending") /\ Pump(queue, Ended(t), active - 1) /\ UNCHANGED <<now, cache, failed, check>>
    BY <1>5 DEF JobEnds, Refilled, Ended
  <2>2. active - 1 \in Int
    BY DEF QueueInv, PlacesOK
  <2>3. Asked(job') = Asked(Ended(t))
    BY <2>1, <2>2, EndedQueue, PumpAsks
  <2>4. Asked(Ended(t)) = Asked(job)
    BY <2>1, EndedQueue DEF Asked, JobAt
  <2> QED BY <2>1, <2>3, <2>4 DEF Same, Pruned, Within, Awaited
<1>6. ASSUME NEW t \in Tokens, Judge(t) \/ PoolAnswers(t) \/ Assess(t) \/ Send(t) PROVE Same
  <2>1. UNCHANGED <<now, manager>> /\ check[t].at # "security"
    BY <1>6 DEF Judge, PoolAnswers, Assess, Send, CheckAt
  <2>2. /\ \A u \in Tokens \ {t} : check'[u] = check[u]
        /\ check'[t].at # "security"
    BY <1>0, <1>6 DEF Judge, PoolAnswers, Assess, Send, Refuse, NoCheck
  <2>3. Awaited(check') = Awaited(check)
    BY <2>1, <2>2 DEF Awaited
  <2> QED BY <2>1, <2>3 DEF Same, Pruned, Within, Asked, manager
<1>7. CASE Tick
  <2>1. now' = now + 1 /\ UNCHANGED <<cache, failed, job, check>>
    BY <1>7 DEF Tick, manager
  <2> DEFINE Left(times) ==
        [t \in Tokens |-> IF times[t] # None /\ now' - times[t] <= CacheTtl THEN times[t] ELSE None]
  <2>2. ASSUME NEW times \in [Tokens -> Times] PROVE Left(times) = View!Lasting(Pruned(times))
    <3>1. ASSUME NEW t \in Tokens
          PROVE  times[t] # None /\ now' - times[t] <= CacheTtl <=>
                   Pruned(times)[t] # None /\ now' - Pruned(times)[t] <= CacheTtl
      BY <1>0, <2>1 DEF Pruned, Within, Times, None
    <3>2. \A t \in Tokens : Pruned(times)[t] # None => Pruned(times)[t] = times[t]
      BY DEF Pruned
    <3> QED BY <3>1, <3>2 DEF View!Lasting
  <2>3. Pruned(cache)' = View!Lasting(Pruned(cache)) /\ Pruned(failed)' = View!Lasting(Pruned(failed))
    <3>1. Pruned(cache)' = Left(cache) /\ Pruned(failed)' = Left(failed)
      BY <2>1 DEF Pruned, Within
    <3>2. Left(cache) = View!Lasting(Pruned(cache)) /\ Left(failed) = View!Lasting(Pruned(failed))
      BY <1>0, <2>2
    <3> QED BY <3>1, <3>2
  <2>4. View!Pass
    BY <2>1, <2>3 DEF View!Pass, CheckAt
  <2> QED BY <2>4 DEF View!ViewNext
<1>8. CASE UNCHANGED vars
  <2>1. Same
    BY <1>8 DEF vars, manager, Same, Pruned, Within, Asked, Awaited
  <2> QED BY <2>1, <1>1
<1> QED BY <1>1, <1>2, <1>3, <1>4, <1>5, <1>6, <1>7, <1>8 DEF Next, Settle

(* What SignalEvaluation takes the manager for: with any number of places, *)
(* whatever overtakes in the queue, every step of the manager asks,        *)
(* answers, forgets as SnapshotView says, or does nothing it speaks of.    *)
THEOREM ManagerImplementsView == Spec => ImplementsSnapshotView
<1>1. Init => View!ViewInit
  BY DEF Init, View!ViewInit, View!Nothing, Pruned, Within, NoJob, NoCheck, CheckAt
<1>2. QueueInv /\ TimesInv /\ [Next]_vars => [View!ViewNext]_(View!viewVars)
  BY StepOfView
<1> QED BY <1>1, <1>2, AlwaysQueued, AlwaysTimed, PTL DEF Spec, ImplementsSnapshotView, View!ViewSpec
=============================================================================
