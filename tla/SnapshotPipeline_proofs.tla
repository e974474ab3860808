----------------------- MODULE SnapshotPipeline_proofs -----------------------
(***************************************************************************)
(* Proofs about SnapshotPipeline, for any tokens, sources and bounds: the  *)
(* log tells who is on a list, its numbers tell the order, misses are      *)
(* counted right, windows end with what is newest, and silence ends the    *)
(* process.                                                                *)
(*                                                                         *)
(* Presence, order and windows rest on one fact about the numbers: all     *)
(* that is logged, and the number the process began with, is behind        *)
(* next_ingest_seq.  It makes what earlier processes have logged distinct  *)
(* from what this one logs, and a new number greater than every other.     *)
(***************************************************************************)
EXTENDS SnapshotPipeline, FiniteSetTheorems, SequenceTheorems, TLAPS

(* The part of the types the proofs need.                                  *)
Shapes ==
  /\ next_ingest_seq \in Nat \ {0} /\ firstSeq \in Nat
  /\ logged \in [Sources -> [Tokens ->
       [type : Types \cup {"none"}, payload : Payloads \cup {Absent}, at : Int,
        seq : Nat]]]
  /\ list \in [Sources -> [Tokens -> Payloads \cup {Absent}]]
  /\ phase \in {"running", "stopping", "down"}

NumbersBehind ==
  /\ 1 <= firstSeq /\ firstSeq <= next_ingest_seq
  /\ \A s \in Sources, t \in Tokens : logged[s][t].seq < next_ingest_seq

(* The list of a process that has ended still agrees with its log.         *)
Presence ==
  \A s \in Sources, t \in Tokens :
    list[s][t] # Absent <=> Logged(s, t) /\ logged[s][t].type # "exit"

PipelineInv == Shapes /\ NumbersBehind /\ Presence

(* An answer logs an exit exactly for the tokens that are no longer there, *)
(* and everything that is not an update.                                   *)
LEMMA WhatIsLogged ==
  ASSUME NEW s \in Sources, NEW t \in Tokens, NEW next \in Answers,
         NEW high
  PROVE  /\ t \in Batch(s, next, high) =>
              (EventType(list[s][t], next[t]) = "exit" <=> next[t] = Absent)
         /\ t \notin Batch(s, next, high) => (list[s][t] = Absent <=> next[t] = Absent)
BY DEF Batch, EventType, SamePayload, shouldPersist

LEMMA InitInv == Init => PipelineInv
<1> SUFFICES ASSUME Init PROVE PipelineInv OBVIOUS
<1>1. Shapes BY DEF Init, Shapes, OnAll, Unlogged, Never, Types
<1>2. NumbersBehind BY DEF Init, NumbersBehind, OnAll, Unlogged
<1>3. Presence BY DEF Init, Presence, Logged, OnAll, Unlogged
<1> QED BY <1>1, <1>2, <1>3 DEF PipelineInv

(* A good answer: the changed row of the log and of the list, token by     *)
(* token.                                                                  *)
LEMMA CommitInv ==
  ASSUME PipelineInv, NEW s \in Sources, NEW next \in Answers,
         NEW high, Commit(s, next, high), now \in Nat, UNCHANGED <<phase, firstSeq>>
  PROVE  PipelineInv'
<1> DEFINE batch == Batch(s, next, high)
<1>1. batch \subseteq Tokens BY DEF Batch
<1>2. \A t \in batch : Event(s, t, next[t]) \in
        [type : Types \cup {"none"}, payload : Payloads \cup {Absent}, at : Int,
         seq : Nat]
  BY <1>1 DEF Answers, Event, EventType, SamePayload, Types, PipelineInv, Shapes
<1>3. logged' = [logged EXCEPT ![s] =
        [t \in Tokens |-> IF t \in batch THEN Event(s, t, next[t]) ELSE @[t]]]
  BY <1>1 DEF Commit, appendSourceBatch
<1>4. list' = [list EXCEPT ![s] = next] BY DEF Commit
<1>5. /\ next_ingest_seq \in Nat \ {0}
      /\ next_ingest_seq' = IF batch = {} THEN next_ingest_seq ELSE next_ingest_seq + 1
  BY DEF Commit, appendSourceBatch, allocateIngestSeq, PipelineInv, Shapes
<1>6. Shapes'
  <2>1. logged' \in [Sources -> [Tokens ->
          [type : Types \cup {"none"}, payload : Payloads \cup {Absent}, at : Int,
           seq : Nat]]]
    BY <1>2, <1>3 DEF PipelineInv, Shapes
  <2> QED BY <2>1, <1>4, <1>5 DEF Answers, PipelineInv, Shapes
<1>7. \A r \in Sources, t \in Tokens :
        /\ list'[r][t] = IF r = s THEN next[t] ELSE list[r][t]
        /\ logged'[r][t] = IF r = s /\ t \in batch THEN Event(s, t, next[t]) ELSE logged[r][t]
  BY <1>3, <1>4 DEF Answers, PipelineInv, Shapes
<1>8. NumbersBehind'
  <2>1. \A r \in Sources, t \in Tokens : logged[r][t].seq \in Nat
    BY DEF PipelineInv, Shapes
  <2>2. \A t \in Tokens : Event(s, t, next[t]).seq = next_ingest_seq BY DEF Event
  <2>3. next_ingest_seq <= next_ingest_seq' BY <1>5
  <2> SUFFICES ASSUME NEW r \in Sources, NEW t \in Tokens
               PROVE  logged'[r][t].seq < next_ingest_seq'
    BY <1>5, <2>3 DEF PipelineInv, NumbersBehind, Shapes
  <2>4. CASE r = s /\ t \in batch
    BY <2>4, <2>2, <1>5, <1>7
  <2>5. CASE ~(r = s /\ t \in batch)
    <3>1. logged'[r][t] = logged[r][t] BY <2>5, <1>7
    <3> QED BY <3>1, <2>1, <2>3, <1>5 DEF PipelineInv, NumbersBehind
  <2> QED BY <2>4, <2>5
<1>9. Presence'
  <2> SUFFICES ASSUME NEW r \in Sources, NEW t \in Tokens
               PROVE  (list[r][t] # Absent <=> Logged(r, t) /\ logged[r][t].type # "exit")'
    BY DEF Presence
  <2>1. CASE r # s
    BY <2>1, <1>7 DEF PipelineInv, Presence, Logged
  <2>2. CASE r = s /\ t \in batch
    <3> HIDE DEF batch
    <3>1. EventType(list[s][t], next[t]) = "exit" <=> next[t] = Absent
      BY <2>2, WhatIsLogged DEF batch
    <3>2. list'[r][t] = next[t] /\ logged'[r][t] = Event(s, t, next[t])
      BY <2>2, <1>7
    <3>3. /\ logged'[r][t].seq = next_ingest_seq
          /\ logged'[r][t].type = EventType(list[s][t], next[t])
      BY <3>2 DEF Event
    <3>4. next_ingest_seq >= firstSeq' BY DEF PipelineInv, NumbersBehind, Shapes
    <3>5. Logged(r, t)' BY <3>3, <3>4 DEF Logged
    <3> QED BY <3>1, <3>2, <3>3, <3>5
  <2>3. CASE r = s /\ t \notin batch
    BY <2>3, <1>7, WhatIsLogged DEF PipelineInv, Presence, Logged
  <2> QED BY <2>1, <2>2, <2>3
<1> QED BY <1>6, <1>8, <1>9 DEF PipelineInv

LEMMA TypeOfTime == ASSUME now \in Nat, [Next]_vars PROVE now' \in Nat
BY PipelineAssumption DEF Next, vars, Tick, Stop, Start, PollFails, Answer, SecurityCompletes

LEMMA StepInv == ASSUME PipelineInv, now \in Nat, [Next]_vars PROVE PipelineInv'
<1>1. CASE UNCHANGED vars
  BY <1>1 DEF vars, database, coordinator, PipelineInv, Shapes, NumbersBehind, Presence, Logged
<1>2. CASE Tick
  BY <1>2 DEF Tick, database, coordinator, PipelineInv, Shapes, NumbersBehind, Presence, Logged
<1>3. CASE Stop
  BY <1>3 DEF Stop, database, coordinator, PipelineInv, Shapes, NumbersBehind, Presence, Logged
<1>4. CASE Start
  <2>1. /\ logged' = logged /\ next_ingest_seq' = next_ingest_seq
        /\ firstSeq' = next_ingest_seq /\ list' = OnAll(Absent) /\ phase' = "running"
    BY <1>4 DEF Start, Fresh, database
  <2>2. \A s \in Sources, t \in Tokens :
          /\ logged[s][t].seq \in Nat /\ logged[s][t].seq < next_ingest_seq
          /\ list'[s][t] = Absent
    BY <2>1 DEF OnAll, PipelineInv, Shapes, NumbersBehind
  <2>3. \A s \in Sources, t \in Tokens : ~(logged[s][t].seq >= next_ingest_seq)
    BY <2>2 DEF PipelineInv, Shapes
  <2>4. Presence' BY <2>1, <2>2, <2>3 DEF Presence, Logged
  <2>5. Shapes' BY <2>1 DEF OnAll, PipelineInv, Shapes
  <2>6. NumbersBehind' BY <2>1, <2>2 DEF PipelineInv, Shapes, NumbersBehind
  <2> QED BY <2>4, <2>5, <2>6 DEF PipelineInv
<1>5. CASE \E s \in Sources : PollFails(s)
  BY <1>5 DEF PollFails, database, coordinator, PipelineInv, Shapes, NumbersBehind, Presence, Logged
<1>6. CASE \E s \in Sources : Answer(s)
  <2>1. PICK s \in Sources : Answer(s) BY <1>6
  <2>2. PICK next \in Answers :
          \E high : Commit(s, next, high) \/ CommitFails(s, next)
    BY <2>1 DEF Answer
  <2>3. UNCHANGED <<phase, firstSeq>> BY <2>1 DEF Answer
  <2>4. CASE \E high : Commit(s, next, high) BY <2>3, <2>4, CommitInv
  <2>5. CASE CommitFails(s, next)
    BY <2>3, <2>5
       DEF CommitFails, database, coordinator, PipelineInv, Shapes, NumbersBehind, Presence, Logged
  <2> QED BY <2>2, <2>4, <2>5
<1>7. CASE \E t \in Tokens : SecurityCompletes(t)
  <2>1. /\ next_ingest_seq' = next_ingest_seq + 1
        /\ UNCHANGED <<logged, list, phase, firstSeq>>
    BY <1>7 DEF SecurityCompletes, allocateIngestSeq, coordinator
  <2>2. \A s \in Sources, t \in Tokens : logged[s][t].seq \in Nat
    BY DEF PipelineInv, Shapes
  <2> QED BY <2>1, <2>2 DEF PipelineInv, Shapes, NumbersBehind, Presence, Logged
<1> QED BY <1>1, <1>2, <1>3, <1>4, <1>5, <1>6, <1>7 DEF Next

(* The invariant holds throughout.                                         *)
THEOREM AlwaysPipelineInv == Spec => [](PipelineInv /\ now \in Nat)
<1>1. Init => PipelineInv /\ now \in Nat BY InitInv DEF Init
<1>2. PipelineInv /\ now \in Nat /\ [Next]_vars => (PipelineInv /\ now \in Nat)'
  BY StepInv, TypeOfTime
<1> QED BY <1>1, <1>2, PTL DEF Spec

(* The log tells presence, whatever polls, appends and processes fail.     *)
THEOREM PresenceIsLogged == Spec => []LogTellsPresence
<1>1. PipelineInv => LogTellsPresence BY DEF PipelineInv, Presence, LogTellsPresence
<1> QED BY <1>1, AlwaysPipelineInv, PTL

(* A step that logs an event gives it a number above all others.           *)
LEMMA LoggedWithNext ==
  ASSUME PipelineInv, now \in Nat, [Next]_vars
  PROVE  \A s \in Sources, t \in Tokens :
           logged'[s][t] # logged[s][t] => logged'[s][t].seq = next_ingest_seq
<1> SUFFICES ASSUME NEW s \in Sources, NEW t \in Tokens, logged'[s][t] # logged[s][t]
             PROVE  logged'[s][t].seq = next_ingest_seq
  OBVIOUS
<1>1. PICK r \in Sources : Answer(r)
  BY DEF Next, vars, database, Tick, Stop, Start, PollFails, SecurityCompletes
<1>2. PICK next \in Answers : \E high : Commit(r, next, high)
  BY <1>1 DEF Answer, CommitFails, database
<1>3. PICK high : Commit(r, next, high) BY <1>2
<1>4. logged' = [logged EXCEPT ![r] =
        [u \in Tokens |-> IF u \in Batch(r, next, high)
                          THEN Event(r, u, next[u]) ELSE @[u]]]
  <2>1. Batch(r, next, high) \subseteq Tokens BY DEF Batch
  <2> QED BY <1>3, <2>1 DEF Commit, appendSourceBatch
<1>5. logged'[s][t] = Event(r, t, next[t])
  BY <1>4 DEF PipelineInv, Shapes
<1> QED BY <1>5 DEF Event

(* The numbers give the order of the commits, over sources and restarts.   *)
THEOREM NumbersGiveOrder == Spec => SeqGivesOrder
<1>1. PipelineInv /\ now \in Nat /\ [Next]_vars =>
        [\A s \in Sources, t \in Tokens :
           logged'[s][t] # logged[s][t]
             => \A r \in Sources, u \in Tokens : logged'[s][t].seq > logged[r][u].seq]_vars
  <2> SUFFICES ASSUME PipelineInv, now \in Nat, [Next]_vars,
                      NEW s \in Sources, NEW t \in Tokens, logged'[s][t] # logged[s][t],
                      NEW r \in Sources, NEW u \in Tokens
               PROVE  logged'[s][t].seq > logged[r][u].seq
    OBVIOUS
  <2>1. logged'[s][t].seq = next_ingest_seq BY LoggedWithNext
  <2>2. /\ logged[r][u].seq \in Nat /\ logged[r][u].seq < next_ingest_seq
        /\ next_ingest_seq \in Nat
    BY DEF PipelineInv, Shapes, NumbersBehind
  <2> QED BY <2>1, <2>2
<1> QED BY <1>1, AlwaysPipelineInv, PTL DEF Spec, SeqGivesOrder

-----------------------------------------------------------------------------
(* Misses.  A token is on a source's list exactly when the last good       *)
(* answer of this process had it; the count follows, down or not.          *)
MissesTyped ==
  /\ list \in [Sources -> [Tokens -> Payloads \cup {Absent}]]
  /\ commits \in [Sources -> Nat]
  /\ seenIn \in [Sources -> [Tokens -> Nat]]
  /\ consecutiveMissing \in [Sources -> [Tokens -> Nat]]

SeenRight(s, t) ==
  /\ seenIn[s][t] <= commits[s]
  /\ list[s][t] # Absent <=> seenIn[s][t] # 0 /\ seenIn[s][t] = commits[s]
  /\ s \in RankSources =>
       consecutiveMissing[s][t] = IF seenIn[s][t] = 0 THEN 0 ELSE commits[s] - seenIn[s][t]

MissesInv == MissesTyped /\ \A s \in Sources, t \in Tokens : SeenRight(s, t)

LEMMA EmptyMisses ==
  ASSUME list = OnAll(Absent), commits = [s \in Sources |-> 0], seenIn = OnAll(0),
         consecutiveMissing = OnAll(0)
  PROVE  MissesInv
BY DEF MissesInv, MissesTyped, SeenRight, OnAll

LEMMA EmptyMissesNext ==
  ASSUME list' = OnAll(Absent), commits' = [s \in Sources |-> 0], seenIn' = OnAll(0),
         consecutiveMissing' = OnAll(0)
  PROVE  MissesInv'
BY DEF MissesInv, MissesTyped, SeenRight, OnAll

LEMMA CommitMisses ==
  ASSUME MissesInv, NEW s \in Sources, NEW next \in Answers, NEW high, Commit(s, next, high)
  PROVE  MissesInv'
<1>1. /\ list' = [list EXCEPT ![s] = next]
      /\ commits' = [commits EXCEPT ![s] = @ + 1]
      /\ seenIn' = [seenIn EXCEPT ![s] =
                      [t \in Tokens |-> IF next[t] # Absent THEN commits[s] + 1 ELSE @[t]]]
      /\ consecutiveMissing' = IF s \in RankSources
                      THEN [consecutiveMissing EXCEPT ![s] = Misses(s, next)]
                      ELSE consecutiveMissing
  BY DEF Commit
<1>2. next \in [Tokens -> Payloads \cup {Absent}]
  BY DEF Answers
<1>3. Misses(s, next) \in [Tokens -> Nat]
  BY DEF Misses, MissesInv, MissesTyped
<1>4. MissesTyped'
  BY <1>1, <1>2, <1>3 DEF MissesInv, MissesTyped
<1>5. ASSUME NEW r \in Sources \ {s}, NEW t \in Tokens PROVE SeenRight(r, t)'
  <2>1. /\ list'[r] = list[r] /\ commits'[r] = commits[r] /\ seenIn'[r] = seenIn[r]
        /\ consecutiveMissing'[r] = consecutiveMissing[r]
    BY <1>1 DEF MissesInv, MissesTyped
  <2> QED BY <2>1 DEF MissesInv, SeenRight
<1>6. ASSUME NEW t \in Tokens PROVE SeenRight(s, t)'
  <2>1. /\ list'[s][t] = next[t] /\ commits'[s] = commits[s] + 1
        /\ seenIn'[s][t] = IF next[t] # Absent THEN commits[s] + 1 ELSE seenIn[s][t]
        /\ s \in RankSources => consecutiveMissing'[s][t] = Misses(s, next)[t]
    BY <1>1 DEF MissesInv, MissesTyped
  <2>2. commits[s] \in Nat /\ seenIn[s][t] \in Nat /\ consecutiveMissing[s][t] \in Nat
    BY DEF MissesInv, MissesTyped
  <2>3. SeenRight(s, t)
    BY DEF MissesInv
  <2> QED BY <2>1, <2>2, <2>3 DEF SeenRight, Misses
<1> QED BY <1>4, <1>5, <1>6 DEF MissesInv

LEMMA MissesStep == ASSUME MissesInv, [Next]_vars PROVE MissesInv'
<1>1. CASE UNCHANGED <<list, commits, seenIn, consecutiveMissing>>
  BY <1>1 DEF MissesInv, MissesTyped, SeenRight
<1>2. CASE Tick \/ Stop \/ UNCHANGED vars
  BY <1>1, <1>2 DEF Tick, Stop, vars, coordinator, store
<1>3. CASE Start
  BY <1>3, EmptyMissesNext DEF Start, Fresh
<1>4. ASSUME NEW s \in Sources, PollFails(s) PROVE MissesInv'
  BY <1>1, <1>4 DEF PollFails, coordinator, store
<1>5. ASSUME NEW t \in Tokens, SecurityCompletes(t) PROVE MissesInv'
  BY <1>1, <1>5 DEF SecurityCompletes, coordinator
<1>6. ASSUME NEW s \in Sources, Answer(s) PROVE MissesInv'
  BY <1>1, <1>6, CommitMisses DEF Answer, CommitFails, coordinator, store
<1> QED BY <1>2, <1>3, <1>4, <1>5, <1>6 DEF Next

(* Misses are counted right, whatever polls, appends and processes fail.   *)
THEOREM MissesAreCounted == Spec => []MissesCountGoodAnswers
<1>1. Init => MissesInv
  BY EmptyMisses DEF Init
<1>2. MissesInv => MissesCountGoodAnswers
  BY PipelineAssumption DEF MissesInv, SeenRight, MissesCountGoodAnswers
<1> QED BY <1>1, <1>2, MissesStep, PTL DEF Spec

-----------------------------------------------------------------------------
(* The watchdog.  In a running process the checks fall on the multiples of *)
(* their period; between two of them a source's silence grows with the     *)
(* time since the last.                                                    *)
WatchTyped ==
  /\ now \in Nat /\ startedAt \in 0..now
  /\ lastSuccess \in [Sources -> 0..now] /\ sourceSuccessAt \in [Sources -> Never..now]

LastHeard ==
  \A s \in Sources :
    lastSuccess[s] = IF sourceSuccessAt[s] = Never THEN startedAt ELSE sourceSuccessAt[s]

SinceCheck(d) ==
  /\ \E q \in Nat : now - startedAt = Check * q + d
  /\ \A s \in Sources : now - lastSuccess[s] < Timeout + d

WatchInv ==
  /\ WatchTyped /\ LastHeard
  /\ phase = "running" => \E d \in 0..Check - 1 : SinceCheck(d)

LEMMA MultipleIsDue ==
  ASSUME NEW c \in Nat \ {0}, NEW q \in Nat PROVE (c * q) % c = 0
BY SMTT(30)

LEMMA StartWatched ==
  ASSUME now \in Nat, startedAt = now, lastSuccess = [s \in Sources |-> now],
         sourceSuccessAt = [s \in Sources |-> Never]
  PROVE  WatchInv
<1> USE PipelineAssumption
<1>1. WatchTyped /\ LastHeard
  BY DEF WatchTyped, LastHeard, Never
<1>2. now - startedAt = Check * 0 + 0
  OBVIOUS
<1>3. \A s \in Sources : now - lastSuccess[s] < Timeout + 0
  OBVIOUS
<1>4. SinceCheck(0) /\ 0 \in 0..Check - 1
  BY <1>2, <1>3 DEF SinceCheck
<1> QED BY <1>1, <1>4 DEF WatchInv

LEMMA StartWatchedNext ==
  ASSUME now' \in Nat, startedAt' = now', lastSuccess' = [s \in Sources |-> now'],
         sourceSuccessAt' = [s \in Sources |-> Never]
  PROVE  WatchInv'
<1> USE PipelineAssumption
<1>1. WatchTyped' /\ LastHeard'
  BY DEF WatchTyped, LastHeard, Never
<1>2. Check * 0 + 0 = 0 /\ 0 < Timeout + 0 /\ 0 \in 0..Check - 1 /\ 0 \in Nat
  OBVIOUS
<1>3. ASSUME NEW n \in Nat PROVE n - n = 0
  OBVIOUS
<1>4. now' - startedAt' = Check * 0 + 0
  BY <1>2, <1>3
<1>5. \A s \in Sources : now' - lastSuccess'[s] < Timeout + 0
  BY <1>2, <1>3
<1>6. SinceCheck(0)'
  BY <1>2, <1>4, <1>5 DEF SinceCheck
<1> QED BY <1>1, <1>2, <1>6 DEF WatchInv

LEMMA TickWatched == ASSUME WatchInv, Tick PROVE WatchInv'
<1> USE PipelineAssumption
<1>1. now' = now + 1 /\ UNCHANGED <<startedAt, lastSuccess, sourceSuccessAt>>
  BY DEF Tick, watchdog, store
<1>2. WatchTyped' /\ LastHeard'
  BY <1>1 DEF WatchInv, WatchTyped, LastHeard, Never
<1>3. ASSUME phase' = "running" PROVE \E d \in 0..Check - 1 : SinceCheck(d)'
  <2>1. phase = "running" /\ (CheckDue => staleSources = {})
    BY <1>3 DEF Tick
  <2>2. PICK d \in 0..Check - 1, q \in Nat :
          /\ now - startedAt = Check * q + d
          /\ \A s \in Sources : now - lastSuccess[s] < Timeout + d
    BY <2>1 DEF WatchInv, SinceCheck
  <2>3. now \in Nat /\ startedAt \in Nat /\ \A s \in Sources : lastSuccess[s] \in Nat
    BY DEF WatchInv, WatchTyped
  <2>4. Check * q \in Nat /\ d \in Nat /\ Check * (q + 1) = Check * q + Check
    OBVIOUS
  <2>5. CASE d + 1 < Check
    <3>1. now' - startedAt' = Check * q + (d + 1)
      BY <1>1, <2>2, <2>3, <2>4
    <3>2. \A s \in Sources : now' - lastSuccess'[s] < Timeout + (d + 1)
      BY <1>1, <2>2, <2>3, <2>4
    <3>3. SinceCheck(d + 1)'
      BY <3>1, <3>2 DEF SinceCheck
    <3> QED BY <2>4, <2>5, <3>3
  <2>6. CASE d + 1 = Check
    <3>1. now + 1 - startedAt = Check * (q + 1) /\ q + 1 \in Nat
      BY <2>2, <2>3, <2>4, <2>6
    <3>2. PICK k \in Nat : now + 1 - startedAt = Check * k
      BY <3>1
    <3>3. CheckDue
      BY <3>2, MultipleIsDue DEF CheckDue
    <3>4. \A s \in Sources : ~(now + 1 - lastSuccess[s] >= Timeout)
      BY <2>1, <3>3 DEF staleSources
    <3>5. \A s \in Sources : now' - lastSuccess'[s] < Timeout + 0
      BY <1>1, <2>3, <3>4
    <3>6. Check * k \in Nat /\ Check * k + 0 = Check * k /\ 0 \in 0..Check - 1
      OBVIOUS
    <3>7. now' - startedAt' = Check * k + 0
      BY <1>1, <2>3, <3>2, <3>6
    <3>8. SinceCheck(0)'
      BY <3>5, <3>7 DEF SinceCheck
    <3> QED BY <3>6, <3>8
  <2> QED BY <2>4, <2>5, <2>6
<1> QED BY <1>2, <1>3 DEF WatchInv

LEMMA CommitWatched ==
  ASSUME WatchInv, NEW s \in Sources, NEW next, NEW high, Commit(s, next, high),
         UNCHANGED <<now, phase, startedAt>>
  PROVE  WatchInv'
<1> USE PipelineAssumption
<1>1. /\ lastSuccess' = [lastSuccess EXCEPT ![s] = now]
      /\ sourceSuccessAt' = [sourceSuccessAt EXCEPT ![s] = now]
  BY DEF Commit, markSuccess
<1>2. WatchTyped' /\ LastHeard'
  BY <1>1 DEF WatchInv, WatchTyped, LastHeard, Never
<1>3. ASSUME phase' = "running" PROVE \E d \in 0..Check - 1 : SinceCheck(d)'
  <2>1. PICK d \in 0..Check - 1 : SinceCheck(d)
    BY <1>3 DEF WatchInv
  <2>2. \A r \in Sources : now - lastSuccess'[r] < Timeout + d
    BY <1>1, <2>1 DEF SinceCheck, WatchInv, WatchTyped
  <2>3. SinceCheck(d)'
    BY <2>1, <2>2 DEF SinceCheck
  <2> QED BY <2>3
<1> QED BY <1>2, <1>3 DEF WatchInv

LEMMA WatchStep == ASSUME WatchInv, [Next]_vars PROVE WatchInv'
<1>1. CASE /\ UNCHANGED <<now, startedAt, lastSuccess, sourceSuccessAt>>
           /\ phase' = "running" => phase = "running"
  BY <1>1 DEF WatchInv, WatchTyped, LastHeard, SinceCheck
<1>2. CASE Stop \/ UNCHANGED vars
  BY <1>1, <1>2 DEF Stop, vars, watchdog, store
<1>3. CASE Start
  BY <1>3, StartWatchedNext DEF Start, Fresh, WatchInv, WatchTyped
<1>4. ASSUME NEW s \in Sources, PollFails(s) PROVE WatchInv'
  BY <1>1, <1>4 DEF PollFails, watchdog, store
<1>5. ASSUME NEW t \in Tokens, SecurityCompletes(t) PROVE WatchInv'
  BY <1>1, <1>5 DEF SecurityCompletes, watchdog
<1>6. ASSUME NEW s \in Sources, Answer(s) PROVE WatchInv'
  BY <1>1, <1>6, CommitWatched DEF Answer, CommitFails, store
<1> QED BY <1>2, <1>3, <1>4, <1>5, <1>6, TickWatched DEF Next

(* For any timeout and any period of the check, no process goes on while a *)
(* source is silent.                                                       *)
THEOREM SilenceAlwaysEnds == Spec => []SilenceEnds
<1>1. Init => WatchInv
  BY StartWatched DEF Init
<1>2. WatchInv => SilenceEnds
  <2> SUFFICES ASSUME WatchInv, phase = "running", NEW s \in Sources
               PROVE  now - lastSuccess[s] < Timeout + Check
    BY DEF SilenceEnds, WatchInv, LastHeard
  <2>1. PICK d \in 0..Check - 1 : now - lastSuccess[s] < Timeout + d
    BY DEF WatchInv, SinceCheck
  <2> QED BY <2>1, PipelineAssumption DEF WatchInv, WatchTyped
<1> QED BY <1>1, <1>2, WatchStep, PTL DEF Spec

-----------------------------------------------------------------------------
(* The types, in the parts that change together.                           *)
Logs(n, last) ==
  [Sources -> [Tokens -> [type : Types, payload : Payloads \cup {Absent}, at : 0..n, seq : 1..last - 1]
                           \cup {Unlogged}]]

ClockTyped ==
  /\ now \in Nat /\ phase \in {"running", "stopping", "down"} /\ restarts \in 0..MaxRestarts
  /\ startedAt \in 0..now /\ securityChecks \in 0..MaxSecurity
SchedulerTyped == tickIndex \in 0..Len(SOURCE_SCHEDULE) - 1 /\ inFlight \subseteq Sources
LogTyped ==
  /\ next_ingest_seq \in Nat \ {0} /\ firstSeq \in 1..next_ingest_seq
  /\ logged \in Logs(now, next_ingest_seq)
StoreTyped ==
  /\ lastPersistedAt \in [Sources -> [Tokens -> Never..now]]
  /\ sourceSuccessAt \in [Sources -> Never..now] /\ lastSuccess \in [Sources -> 0..now]

TypesInv == ClockTyped /\ SchedulerTyped /\ LogTyped /\ StoreTyped /\ MissesTyped

LEMMA ScheduleTyped ==
  /\ Len(SOURCE_SCHEDULE) \in Nat \ {0}
  /\ \A n \in Nat : n % Len(SOURCE_SCHEDULE) \in 0..Len(SOURCE_SCHEDULE) - 1
  /\ 1 % Len(SOURCE_SCHEDULE) \in 0..Len(SOURCE_SCHEDULE) - 1
  /\ SOURCE_SCHEDULE[1] \in Sources
  /\ \A i \in 0..Len(SOURCE_SCHEDULE) - 1 : SOURCE_SCHEDULE[i + 1] \in Sources
<1>1. SOURCE_SCHEDULE \in Seq(STRING) /\ SOURCE_SCHEDULE # <<>>
  BY PipelineAssumption
<1>2. Len(SOURCE_SCHEDULE) \in Nat /\ DOMAIN SOURCE_SCHEDULE = 1..Len(SOURCE_SCHEDULE)
  BY <1>1
<1>3. Len(SOURCE_SCHEDULE) # 0
  BY <1>1, <1>2
<1>4. ASSUME NEW c \in Nat \ {0}, NEW n \in Nat PROVE n % c \in 0..c - 1
  BY Z3
<1>5. ASSUME NEW i \in 0..Len(SOURCE_SCHEDULE) - 1 PROVE SOURCE_SCHEDULE[i + 1] \in Sources
  BY <1>2 DEF Sources
<1>6. SOURCE_SCHEDULE[1] \in Sources
  BY <1>2, <1>3 DEF Sources
<1> QED BY <1>2, <1>3, <1>4, <1>5, <1>6

(* Time goes on, and numbers grow: what was typed stays so.                *)
LEMMA LogsGrow ==
  ASSUME NEW n \in Nat, NEW m \in Nat, n <= m, NEW a \in Nat, NEW b \in Nat, a <= b
  PROVE  Logs(n, a) \subseteq Logs(m, b)
<1>1. 0..n \subseteq 0..m /\ 1..a - 1 \subseteq 1..b - 1
  OBVIOUS
<1>2. [type : Types, payload : Payloads \cup {Absent}, at : 0..n, seq : 1..a - 1]
        \subseteq [type : Types, payload : Payloads \cup {Absent}, at : 0..m, seq : 1..b - 1]
  BY <1>1
<1> QED BY <1>2 DEF Logs

LEMMA CommitTyped ==
  ASSUME TypesInv, NEW s \in Sources, NEW next \in Answers, NEW high, Commit(s, next, high),
         UNCHANGED <<now, firstSeq>>
  PROVE  LogTyped' /\ StoreTyped' /\ MissesTyped'
<1> DEFINE batch == Batch(s, next, high)
<1>1. now \in Nat /\ next_ingest_seq \in Nat \ {0} /\ firstSeq \in 1..next_ingest_seq
  BY DEF TypesInv, ClockTyped, LogTyped
<1>2. next \in [Tokens -> Payloads \cup {Absent}] /\ batch \subseteq Tokens
  BY DEF Answers, Batch
<1>3. LogTyped'
  <2>1. CASE batch = {}
    <3>1. next_ingest_seq' = next_ingest_seq
          /\ logged' = [logged EXCEPT ![s] = [t \in Tokens |-> @[t]]]
      BY <2>1 DEF Commit, appendSourceBatch
    <3>2. logged[s] = [t \in Tokens |-> logged[s][t]]
      BY DEF TypesInv, LogTyped, Logs
    <3>3. logged' = logged
      BY <3>1, <3>2 DEF TypesInv, LogTyped, Logs
    <3>4. logged' \in Logs(now', next_ingest_seq')
      BY <3>1, <3>3 DEF TypesInv, LogTyped
    <3> QED BY <1>1, <3>1, <3>4 DEF LogTyped
  <2>2. CASE batch # {}
    <3>1. next_ingest_seq' = next_ingest_seq + 1
          /\ logged' = [logged EXCEPT ![s] =
                [t \in Tokens |-> IF t \in batch THEN Event(s, t, next[t]) ELSE @[t]]]
      BY <1>2, <2>2 DEF Commit, appendSourceBatch, allocateIngestSeq
    <3>2. ASSUME NEW t \in batch
          PROVE  Event(s, t, next[t]) \in
                   [type : Types, payload : Payloads \cup {Absent}, at : 0..now,
                    seq : 1..(next_ingest_seq + 1) - 1]
      <4>1. EventType(list[s][t], next[t]) \in Types
        BY DEF Batch, EventType, SamePayload, Types
      <4> QED BY <1>1, <1>2, <4>1 DEF Event
    <3>3. logged \in Logs(now, next_ingest_seq + 1)
      BY <1>1, LogsGrow DEF TypesInv, LogTyped
    <3> HIDE DEF batch
    <3>4. logged' \in Logs(now, next_ingest_seq + 1)
      BY <3>1, <3>2, <3>3 DEF Logs
    <3>5. logged' \in Logs(now', next_ingest_seq')
      BY <3>1, <3>4
    <3> QED BY <1>1, <3>1, <3>5 DEF LogTyped
  <2> QED BY <2>1, <2>2
<1>4. StoreTyped'
  <2> DEFINE event == [t \in Tokens |-> Event(s, t, next[t])]
  <2>1. /\ lastPersistedAt' = [lastPersistedAt EXCEPT ![s] =
              [t \in Tokens |-> IF t \in batch THEN Persisted(s, t, event[t].type) ELSE @[t]]]
        /\ lastSuccess' = [lastSuccess EXCEPT ![s] = now]
        /\ sourceSuccessAt' = [sourceSuccessAt EXCEPT ![s] = now]
    BY DEF Commit, markSuccess
  <2> HIDE DEF batch, event
  <2>2. \A t, type : Persisted(s, t, type) \in Never..now
    BY <1>1 DEF Persisted, Never
  <2> QED BY <1>1, <2>1, <2>2 DEF TypesInv, StoreTyped, Never
<1>5. MissesTyped'
  <2>1. Misses(s, next) \in [Tokens -> Nat]
    BY DEF Misses, TypesInv, MissesTyped
  <2> QED BY <1>2, <2>1 DEF Commit, TypesInv, MissesTyped
<1> QED BY <1>3, <1>4, <1>5

LEMMA TypesStep == ASSUME TypesInv, [Next]_vars PROVE TypesInv'
<1> USE PipelineAssumption
<1>1. CASE UNCHANGED vars
  BY <1>1 DEF vars, database, scheduler, coordinator, store, watchdog, TypesInv, ClockTyped,
     SchedulerTyped, LogTyped, StoreTyped, MissesTyped
<1>2. CASE Tick
  <2>1. now' = now + 1 /\ phase' \in {phase, "stopping"}
        /\ UNCHANGED <<restarts, next_ingest_seq, logged, list, lastPersistedAt, sourceSuccessAt,
                       consecutiveMissing, commits, seenIn, startedAt, lastSuccess,
                       securityChecks, firstSeq>>
    BY <1>2 DEF Tick, database, coordinator, store, watchdog
  <2>2. ClockTyped' /\ StoreTyped' /\ MissesTyped'
    BY <2>1 DEF TypesInv, ClockTyped, StoreTyped, MissesTyped, Never
  <2>3. LogTyped'
    <3>1. now \in Nat /\ next_ingest_seq \in Nat /\ now <= now + 1
      BY DEF TypesInv, ClockTyped, LogTyped
    <3>2. logged \in Logs(now + 1, next_ingest_seq)
      BY <3>1, LogsGrow DEF TypesInv, LogTyped
    <3> QED BY <2>1, <3>2 DEF TypesInv, LogTyped
  <2>4. SchedulerTyped'
    <3>1. CASE UNCHANGED scheduler
      BY <3>1 DEF scheduler, TypesInv, SchedulerTyped
    <3>2. CASE Poll
      <4>1. tickIndex \in Nat /\ tickIndex + 1 \in Nat
        BY ScheduleTyped DEF TypesInv, SchedulerTyped
      <4>2. Scheduled \in Sources
        BY <4>1, ScheduleTyped DEF Scheduled
      <4> QED BY <3>2, <4>1, <4>2, ScheduleTyped DEF Poll, TypesInv, SchedulerTyped
    <3> QED BY <1>2, <3>1, <3>2 DEF Tick
  <2> QED BY <2>2, <2>3, <2>4 DEF TypesInv
<1>3. CASE Stop
  BY <1>3 DEF Stop, database, scheduler, coordinator, store, watchdog, TypesInv, ClockTyped,
     SchedulerTyped, LogTyped, StoreTyped, MissesTyped
<1>4. CASE Start
  <2>1. ClockTyped' /\ StoreTyped' /\ MissesTyped'
    BY <1>4 DEF Start, Fresh, OnAll, Never, TypesInv, ClockTyped, StoreTyped, MissesTyped
  <2>2. LogTyped'
    <3>1. UNCHANGED <<now, next_ingest_seq, logged>> /\ firstSeq' = next_ingest_seq
      BY <1>4 DEF Start, Fresh, database
    <3>2. logged' \in Logs(now', next_ingest_seq')
      BY <3>1 DEF TypesInv, LogTyped
    <3> QED BY <3>1, <3>2 DEF TypesInv, LogTyped
  <2>3. SchedulerTyped'
    BY <1>4, ScheduleTyped DEF Start, Fresh, SchedulerTyped
  <2> QED BY <2>1, <2>2, <2>3 DEF TypesInv
<1>5. ASSUME NEW s \in Sources, PollFails(s) PROVE TypesInv'
  BY <1>5 DEF PollFails, database, scheduler, coordinator, store, watchdog, TypesInv, ClockTyped,
     SchedulerTyped, LogTyped, StoreTyped, MissesTyped
<1>6. ASSUME NEW s \in Sources, Answer(s) PROVE TypesInv'
  <2>1. ClockTyped' /\ SchedulerTyped'
    BY <1>6 DEF Answer, TypesInv, ClockTyped, SchedulerTyped
  <2>2. LogTyped' /\ StoreTyped' /\ MissesTyped'
    <3>1. PICK next \in Answers : \E high : Commit(s, next, high) \/ CommitFails(s, next)
      BY <1>6 DEF Answer
    <3>2. UNCHANGED <<now, firstSeq>>
      BY <1>6 DEF Answer
    <3>3. CASE CommitFails(s, next)
      BY <3>2, <3>3 DEF CommitFails, database, coordinator, store, TypesInv, LogTyped, StoreTyped,
         MissesTyped
    <3> QED BY <3>1, <3>2, <3>3, CommitTyped
  <2> QED BY <2>1, <2>2 DEF TypesInv
<1>7. ASSUME NEW t \in Tokens, SecurityCompletes(t) PROVE TypesInv'
  <2>1. LogTyped'
    <3>1. now \in Nat /\ next_ingest_seq \in Nat \ {0} /\ firstSeq \in 1..next_ingest_seq
      BY DEF TypesInv, ClockTyped, LogTyped
    <3>2. logged \in Logs(now, next_ingest_seq + 1)
      BY <3>1, LogsGrow DEF TypesInv, LogTyped
    <3> QED BY <1>7, <3>1, <3>2 DEF SecurityCompletes, allocateIngestSeq, LogTyped
  <2>2. ClockTyped'
    BY <1>7 DEF SecurityCompletes, watchdog, TypesInv, ClockTyped
  <2>3. SchedulerTyped' /\ StoreTyped' /\ MissesTyped'
    BY <1>7 DEF SecurityCompletes, watchdog, scheduler, coordinator, TypesInv, SchedulerTyped,
       StoreTyped, MissesTyped
  <2> QED BY <2>1, <2>2, <2>3 DEF TypesInv
<1> QED BY <1>1, <1>2, <1>3, <1>4, <1>5, <1>6, <1>7 DEF Next

(* The types of the variables, for any lists, schedules and bounds.        *)
THEOREM PipelineIsTyped == Spec => []TypeOK
<1>1. Init => TypesInv
  <2> SUFFICES ASSUME Init PROVE TypesInv
    OBVIOUS
  <2> USE PipelineAssumption
  <2>1. ClockTyped /\ StoreTyped /\ MissesTyped
    BY DEF Init, OnAll, Never, ClockTyped, StoreTyped, MissesTyped
  <2>2. LogTyped
    <3>1. next_ingest_seq = 1 /\ firstSeq = 1 /\ logged = [s \in Sources |-> [t \in Tokens |-> Unlogged]]
      BY DEF Init, OnAll
    <3>2. logged \in Logs(now, next_ingest_seq)
      BY <3>1 DEF Logs
    <3> QED BY <3>1, <3>2 DEF LogTyped
  <2>3. SchedulerTyped
    BY ScheduleTyped DEF Init, SchedulerTyped
  <2> QED BY <2>1, <2>2, <2>3 DEF TypesInv
<1>2. TypesInv => TypeOK
  BY DEF TypesInv, ClockTyped, SchedulerTyped, LogTyped, Logs, StoreTyped, MissesTyped, TypeOK
<1> QED BY <1>1, <1>2, TypesStep, PTL DEF Spec

-----------------------------------------------------------------------------
(* The windows.  Counting the entries behind each one puts the entries in  *)
(* order: no two have as many, so every number up to theirs is some's.     *)

LEMMA PlacesAreDistinct ==
  ASSUME NEW W, NEW K \in SUBSET Nat, IsFiniteSet(K), \A i \in K : W[i].seq \in Int
  PROVE  /\ \A i \in K : Behind(W, K, i) \in 0..Cardinality(K) - 1
         /\ \A i, k \in K : Precedes(W, i, k) <=> Behind(W, K, k) < Behind(W, K, i)
         /\ \A i, k \in K : Behind(W, K, i) = Behind(W, K, k) => i = k
<1> DEFINE After(i) == {k \in K : Precedes(W, i, k)}
<1>1. /\ \A i \in K : ~Precedes(W, i, i)
      /\ \A i, k \in K : i # k => Precedes(W, i, k) \/ Precedes(W, k, i)
      /\ \A i, j, k \in K : Precedes(W, i, j) /\ Precedes(W, j, k) => Precedes(W, i, k)
  <2>1. \A i \in K : i \in Int /\ W[i].seq \in Int
    OBVIOUS
  <2>2. ASSUME NEW i \in K PROVE ~Precedes(W, i, i)
    BY <2>1 DEF Precedes
  <2>3. ASSUME NEW i \in K, NEW k \in K, i # k PROVE Precedes(W, i, k) \/ Precedes(W, k, i)
    BY <2>1, <2>3 DEF Precedes
  <2>4. ASSUME NEW i \in K, NEW j \in K, NEW k \in K, Precedes(W, i, j), Precedes(W, j, k)
        PROVE  Precedes(W, i, k)
    BY <2>1, <2>4 DEF Precedes
  <2> QED BY <2>2, <2>3, <2>4
<1>2. ASSUME NEW i \in K
      PROVE  IsFiniteSet(After(i)) /\ Cardinality(After(i)) \in Nat
             /\ Cardinality(After(i)) <= Cardinality(K) - 1 /\ Cardinality(K) \in Nat
  <2>1. IsFiniteSet(K \ {i}) /\ Cardinality(K \ {i}) = Cardinality(K) - 1
    BY FS_RemoveElement
  <2>2. After(i) \in SUBSET (K \ {i})
    BY <1>1
  <2> HIDE DEF After
  <2> QED BY <2>1, <2>2, FS_Subset, FS_CardinalityType
<1>3. ASSUME NEW i \in K, NEW k \in K, Precedes(W, i, k)
      PROVE  Cardinality(After(k)) < Cardinality(After(i))
  <2>1. k \in After(i) /\ After(k) \in SUBSET (After(i) \ {k})
    BY <1>1, <1>3
  <2> HIDE DEF After
  <2>2. IsFiniteSet(After(i) \ {k}) /\ Cardinality(After(i) \ {k}) = Cardinality(After(i)) - 1
    BY <1>2, <2>1, FS_RemoveElement
  <2>3. Cardinality(After(k)) <= Cardinality(After(i)) - 1
    BY <2>1, <2>2, FS_Subset
  <2>4. Cardinality(After(k)) \in Nat /\ Cardinality(After(i)) \in Nat
    BY <1>2
  <2> QED BY <2>3, <2>4
<1>4. \A i \in K : Behind(W, K, i) = Cardinality(After(i))
  BY DEF Behind
<1> HIDE DEF After
<1>5. ASSUME NEW i \in K, NEW k \in K
      PROVE  /\ Behind(W, K, i) \in Nat /\ Behind(W, K, k) \in Nat
             /\ Behind(W, K, i) \in 0..Cardinality(K) - 1
             /\ Precedes(W, i, k) => Behind(W, K, k) < Behind(W, K, i)
             /\ Precedes(W, k, i) => Behind(W, K, i) < Behind(W, K, k)
  <2>1. /\ Behind(W, K, i) = Cardinality(After(i)) /\ Cardinality(After(i)) \in Nat
        /\ Behind(W, K, k) = Cardinality(After(k)) /\ Cardinality(After(k)) \in Nat
        /\ Cardinality(After(i)) <= Cardinality(K) - 1 /\ Cardinality(K) \in Nat
    BY <1>2, <1>4
  <2> QED BY <1>3, <2>1
<1>6. ASSUME NEW i \in K, NEW k \in K
      PROVE  /\ Precedes(W, i, k) <=> Behind(W, K, k) < Behind(W, K, i)
             /\ Behind(W, K, i) = Behind(W, K, k) => i = k
  BY <1>1, <1>5
<1> QED BY <1>5, <1>6

LEMMA EveryPlaceIsTaken ==
  ASSUME NEW W, NEW K \in SUBSET Nat, IsFiniteSet(K), \A i \in K : W[i].seq \in Int,
         NEW n \in 0..Cardinality(K) - 1
  PROVE  \E i \in K : Behind(W, K, i) = n
<1> DEFINE T == 0..Cardinality(K) - 1
           f == [i \in K |-> Behind(W, K, i)]
<1>1. Cardinality(K) \in Nat
  BY FS_CardinalityType
<1>2. IsFiniteSet(T) /\ Cardinality(T) = Cardinality(K)
  <2>1. /\ IsFiniteSet(0..Cardinality(K) - 1)
        /\ Cardinality(0..Cardinality(K) - 1) =
             IF 0 > Cardinality(K) - 1 THEN 0 ELSE Cardinality(K) - 1 - 0 + 1
    <3>1. 0 \in Int /\ Cardinality(K) - 1 \in Int
      BY <1>1
    <3> QED BY <3>1, FS_Interval
  <2> QED BY <1>1, <2>1
<1>3. f \in Injection(K, T)
  <2>1. f \in [K -> T] /\ \A i, k \in K : f[i] = f[k] => i = k
    BY PlacesAreDistinct
  <2> QED BY <2>1 DEF Injection, IsInjective
<1> HIDE DEF T, f
<1>4. f \in Surjection(K, T)
  BY <1>2, <1>3, FS_Injection
<1>5. n \in T
  BY DEF T
<1>6. \E i \in K : f[i] = n
  BY <1>4, <1>5 DEF Surjection
<1> QED BY <1>6 DEF f

WindowEvents == [source : Sources \cup {"security"}, type : Types \cup {"none", "security"},
                 at : Nat, seq : Nat]
Ordered(W) == \A i, k \in 1..Len(W) : i < k => W[i].seq < W[k].seq

(* An event with the greatest number so far comes to be the last of the    *)
(* window, and the window stays in order, whatever has to leave it.        *)
LEMMA AddedIsLast ==
  ASSUME NEW W \in Seq(WindowEvents), NEW e \in WindowEvents, Ordered(W),
         \A i \in 1..Len(W) : W[i].seq < e.seq
  PROVE  /\ Added(W, e) \in Seq(WindowEvents) /\ Ordered(Added(W, e))
         /\ Added(W, e) # <<>> /\ Added(W, e)[Len(Added(W, e))] = e
         /\ \A i \in 1..Len(Added(W, e)) : Added(W, e)[i].seq <= e.seq
<1> USE PipelineAssumption
<1> DEFINE all == Append(W, e)
           last == Len(W) + 1
           kept == Retained(all, e.at - Retention)
           length == IF Cardinality(kept) < MaxEvents THEN Cardinality(kept) ELSE MaxEvents
           at(n) == CHOOSE i \in kept : Behind(all, kept, i) = length - n
           r == [n \in 1..length |-> all[at(n)]]
<1>1. /\ Len(W) \in Nat /\ DOMAIN all = 1..last /\ all[last] = e
      /\ \A i \in 1..last : all[i] \in WindowEvents
      /\ \A i \in 1..last : i = last \/ (i \in 1..Len(W) /\ all[i] = W[i])
  <2>1. Len(W) \in Nat /\ Len(all) = last /\ all \in Seq(WindowEvents) /\ all[last] = e
    BY AppendProperties, LenProperties
  <2>2. DOMAIN all = 1..last /\ \A i \in 1..last : all[i] \in WindowEvents
    BY <2>1, LenProperties, ElementOfSeq
  <2> QED BY <2>1, <2>2, AppendProperties
<1>2. \A i, k \in 1..last : i < k => all[i].seq < all[k].seq
  BY <1>1 DEF Ordered
<1>3. \A i \in 1..last : all[i].seq \in Nat /\ all[i].at \in Nat
  BY <1>1 DEF WindowEvents
<1> HIDE DEF all
<1>4. kept \in SUBSET (1..last) /\ last \in kept
  <2>1. all[last].at >= e.at - Retention /\ last \in 1..last
    BY <1>1, <1>3
  <2> QED BY <1>1, <2>1 DEF Retained
<1> HIDE DEF kept
<1>5. /\ IsFiniteSet(kept) /\ kept \in SUBSET Nat /\ \A i \in kept : all[i].seq \in Int
      /\ Cardinality(kept) \in Nat \ {0}
  <2>1. IsFiniteSet(kept)
    <3>1. 1 \in Int /\ last \in Int
      BY <1>1
    <3>2. IsFiniteSet(1..last)
      BY <3>1, FS_Interval
    <3> QED BY <1>4, <3>2, FS_Subset
  <2>2. Cardinality(kept) \in Nat /\ Cardinality(kept) # 0
    BY <1>4, <2>1, FS_CardinalityType, FS_EmptySet
  <2> QED BY <1>1, <1>3, <1>4, <2>1, <2>2
<1>6. length \in Nat \ {0} /\ length <= Cardinality(kept)
  BY <1>5
<1> HIDE DEF length, last
<1>7. ASSUME NEW n \in 1..length PROVE at(n) \in kept /\ Behind(all, kept, at(n)) = length - n
  <2>1. length - n \in 0..Cardinality(kept) - 1
    BY <1>5, <1>6
  <2>2. \E i \in kept : Behind(all, kept, i) = length - n
    BY <1>5, <2>1, EveryPlaceIsTaken
  <2> QED BY <2>2
<1> HIDE DEF at
<1>8. /\ \A i \in kept : Behind(all, kept, i) \in Nat
      /\ \A i, k \in kept : Precedes(all, i, k) <=> Behind(all, kept, k) < Behind(all, kept, i)
  BY <1>5, PlacesAreDistinct
<1>9. r \in Seq(WindowEvents) /\ Len(r) = length /\ \A n \in 1..length : r[n] = all[at(n)]
  <2>1. \A n \in 1..length : all[at(n)] \in WindowEvents
    BY <1>1, <1>4, <1>7
  <2> QED BY <1>6, <2>1, IsASeq, LenProperties
<1> HIDE DEF r
<1>10. ASSUME NEW n \in 1..length, NEW m \in 1..length, n < m PROVE r[n].seq < r[m].seq
  <2>1. Behind(all, kept, at(m)) < Behind(all, kept, at(n))
    BY <1>6, <1>7, <1>10
  <2>2. Precedes(all, at(n), at(m))
    BY <1>7, <1>8, <2>1
  <2>3. at(n) \in 1..last /\ at(m) \in 1..last
    BY <1>4, <1>7
  <2> QED BY <1>2, <1>9, <2>2, <2>3 DEF Precedes
<1>11. at(length) = last
  <2>1. at(length) \in kept /\ Behind(all, kept, at(length)) = 0 /\ at(length) \in 1..last
    <3>1. length \in 1..length /\ length - length = 0
      BY <1>6
    <3>2. at(length) \in kept /\ Behind(all, kept, at(length)) = length - length
      BY <1>7, <3>1
    <3> QED BY <1>4, <3>1, <3>2
  <2>2. SUFFICES ASSUME at(length) # last PROVE FALSE
    OBVIOUS
  <2>3. at(length) < last
    BY <1>1, <2>1, <2>2 DEF last
  <2>4. Precedes(all, at(length), last)
    BY <1>2, <1>4, <2>1, <2>3 DEF Precedes
  <2>5. Behind(all, kept, last) < Behind(all, kept, at(length)) /\ Behind(all, kept, last) \in Nat
    BY <1>4, <1>8, <2>1, <2>4
  <2> QED BY <2>1, <2>5
<1>12. \A i \in 1..length : r[i].seq <= e.seq
  <2>1. ASSUME NEW i \in 1..length PROVE all[at(i)].seq <= all[last].seq
    <3>1. at(i) \in 1..last /\ last \in 1..last /\ last \in Nat
      <4>1. at(i) \in kept /\ last \in kept
        BY <1>4, <1>7
      <4>2. last \in Nat
        BY <1>1 DEF last
      <4> QED BY <1>4, <4>1, <4>2
    <3>2. at(i) = last \/ at(i) < last
      BY <3>1
    <3> QED BY <1>2, <1>3, <3>1, <3>2
  <2> QED BY <1>1, <1>9, <2>1
<1>13. Added(W, e) = r
  BY DEF Added, r, at, length, kept, all
<1>14. r[length] = e /\ r # <<>>
  <2>1. length \in 1..length
    BY <1>6
  <2> QED BY <1>1, <1>6, <1>9, <1>11, <2>1, EmptySeq
<1> QED BY <1>9, <1>10, <1>12, <1>13, <1>14 DEF Ordered

(* A window is in order, behind the counter, and ends no earlier than what *)
(* this process has logged of its token.                                   *)
WindowRight(t) ==
  /\ Ordered(events[t])
  /\ \A i \in 1..Len(events[t]) : events[t][i].seq < next_ingest_seq
  /\ \A s \in Sources : Logged(s, t) =>
       events[t] # <<>> /\ logged[s][t].seq <= events[t][Len(events[t])].seq

WindowsInv == events \in [Tokens -> Seq(WindowEvents)] /\ \A t \in Tokens : WindowRight(t)

(* The window of t gets an event with the next number, which may be logged *)
(* at the same time.                                                       *)
LEMMA WindowGrows ==
  ASSUME PipelineInv, PipelineInv', WindowsInv, NEW t \in Tokens, NEW e \in WindowEvents,
         e.seq = next_ingest_seq, next_ingest_seq' = next_ingest_seq + 1, firstSeq' = firstSeq,
         events'[t] = Added(events[t], e)
  PROVE  events'[t] \in Seq(WindowEvents) /\ WindowRight(t)'
<1>1. events[t] \in Seq(WindowEvents) /\ WindowRight(t)
  BY DEF WindowsInv
<1>2. Ordered(events[t]) /\ \A i \in 1..Len(events[t]) : events[t][i].seq < e.seq
  BY <1>1 DEF WindowRight
<1> HIDE DEF WindowEvents, Ordered
<1>3. /\ events'[t] \in Seq(WindowEvents) /\ Ordered(events'[t])
      /\ events'[t] # <<>> /\ events'[t][Len(events'[t])] = e
      /\ \A i \in 1..Len(events'[t]) : events'[t][i].seq <= e.seq
  BY <1>1, <1>2, AddedIsLast
<1>4. \A i \in 1..Len(events'[t]) : events'[t][i].seq \in Nat
  <2>1. \A i \in 1..Len(events'[t]) : events'[t][i] \in WindowEvents
    BY <1>3, ElementOfSeq
  <2> QED BY <2>1 DEF WindowEvents
<1>5. next_ingest_seq \in Nat /\ next_ingest_seq' \in Nat
  BY DEF PipelineInv, Shapes
<1>6. \A i \in 1..Len(events'[t]) : events'[t][i].seq < next_ingest_seq'
  BY <1>3, <1>4, <1>5
<1>7. \A s \in Sources : logged'[s][t].seq <= e.seq
  <2>1. \A s \in Sources : logged'[s][t].seq < next_ingest_seq' /\ logged'[s][t].seq \in Nat
    BY DEF PipelineInv, NumbersBehind, Shapes
  <2> QED BY <1>5, <2>1
<1> QED BY <1>3, <1>6, <1>7 DEF WindowRight

(* Nothing happens to the window of t, nor is anything of t logged.        *)
LEMMA WindowStays ==
  ASSUME PipelineInv, WindowsInv, NEW t \in Tokens, events'[t] = events[t], firstSeq' = firstSeq,
         \A s \in Sources : logged'[s][t] = logged[s][t],
         next_ingest_seq' \in {next_ingest_seq, next_ingest_seq + 1}
  PROVE  events'[t] \in Seq(WindowEvents) /\ WindowRight(t)'
<1>1. events[t] \in Seq(WindowEvents) /\ WindowRight(t) /\ next_ingest_seq \in Nat
  BY DEF WindowsInv, PipelineInv, Shapes
<1>2. \A i \in 1..Len(events[t]) : events[t][i].seq \in Nat
  <2> HIDE DEF WindowEvents
  <2>1. \A i \in 1..Len(events[t]) : events[t][i] \in WindowEvents
    BY <1>1, ElementOfSeq
  <2> QED BY <2>1 DEF WindowEvents
<1> QED BY <1>1, <1>2 DEF WindowRight, Logged, Ordered

LEMMA CommitWindows ==
  ASSUME PipelineInv, PipelineInv', WindowsInv, now \in Nat, NEW s \in Sources, NEW next \in Answers,
         NEW high, Commit(s, next, high), firstSeq' = firstSeq
  PROVE  WindowsInv'
<1> DEFINE batch == Batch(s, next, high)
           event == [t \in Tokens |-> Event(s, t, next[t])]
<1>1. /\ events' = [t \in Tokens |-> IF t \in batch
                     THEN Added(events[t], WindowEvent(s, event[t])) ELSE events[t]]
      /\ logged' = [logged EXCEPT ![s] = [t \in Tokens |-> IF t \in batch THEN event[t] ELSE @[t]]]
      /\ next_ingest_seq' = IF batch = {} THEN next_ingest_seq ELSE next_ingest_seq + 1
  BY DEF Commit, appendSourceBatch, allocateIngestSeq
<1>2. \A t \in Tokens : /\ event[t].seq = next_ingest_seq /\ event[t].at = now
                         /\ event[t].type \in Types \cup {"none"}
  BY DEF Event, EventType, SamePayload, Types
<1>3. next_ingest_seq \in Nat
  BY DEF PipelineInv, Shapes
<1> HIDE DEF batch, event
<1>4. ASSUME NEW t \in Tokens, t \in batch
      PROVE  events'[t] \in Seq(WindowEvents) /\ WindowRight(t)'
  <2> DEFINE e == WindowEvent(s, event[t])
  <2>1. e \in WindowEvents /\ e.seq = next_ingest_seq
    BY <1>2, <1>3 DEF WindowEvent, WindowEvents
  <2>2. events'[t] = Added(events[t], e) /\ next_ingest_seq' = next_ingest_seq + 1
    BY <1>1, <1>4
  <2> HIDE DEF e
  <2> QED BY <2>1, <2>2, WindowGrows
<1>5. ASSUME NEW t \in Tokens, t \notin batch
      PROVE  events'[t] \in Seq(WindowEvents) /\ WindowRight(t)'
  <2>1. events'[t] = events[t] /\ \A r \in Sources : logged'[r][t] = logged[r][t]
    BY <1>1, <1>5 DEF PipelineInv, Shapes
  <2> QED BY <1>1, <2>1, WindowStays
<1>6. DOMAIN events' = Tokens /\ events' = [t \in Tokens |-> events'[t]]
  BY <1>1
<1> QED BY <1>4, <1>5, <1>6 DEF WindowsInv

LEMMA WindowsStep ==
  ASSUME PipelineInv, PipelineInv', WindowsInv, now \in Nat, [Next]_vars
  PROVE  WindowsInv'
<1>1. CASE UNCHANGED <<events, logged, next_ingest_seq, firstSeq>>
  BY <1>1 DEF WindowsInv, WindowRight, Logged
<1>2. CASE Tick \/ Stop \/ UNCHANGED vars
  BY <1>1, <1>2 DEF Tick, Stop, vars, database, store
<1>3. CASE Start
  <2>1. /\ events' = [t \in Tokens |-> <<>>] /\ firstSeq' = next_ingest_seq
        /\ logged' = logged /\ next_ingest_seq' = next_ingest_seq
    BY <1>3 DEF Start, Fresh, database
  <2>2. \A s \in Sources, t \in Tokens : ~Logged(s, t)'
    BY <2>1 DEF PipelineInv, Shapes, NumbersBehind, Logged
  <2>3. <<>> \in Seq(WindowEvents) /\ Len(<<>>) = 0
    BY EmptySeq
  <2>4. \A t \in Tokens : WindowRight(t)'
    BY <2>1, <2>2, <2>3 DEF WindowRight, Ordered
  <2> QED BY <2>1, <2>3, <2>4 DEF WindowsInv
<1>4. ASSUME NEW s \in Sources, PollFails(s) PROVE WindowsInv'
  BY <1>1, <1>4 DEF PollFails, database, store
<1>5. ASSUME NEW t \in Tokens, SecurityCompletes(t) PROVE WindowsInv'
  <2> DEFINE e == [source |-> "security", type |-> "security", at |-> now, seq |-> next_ingest_seq]
  <2>1. /\ next_ingest_seq' = next_ingest_seq + 1 /\ logged' = logged /\ firstSeq' = firstSeq
        /\ events' = [events EXCEPT ![t] = Added(events[t], e)] \/ events' = events
    BY <1>5 DEF SecurityCompletes, allocateIngestSeq
  <2>2. e \in WindowEvents /\ e.seq = next_ingest_seq
    BY DEF WindowEvents, PipelineInv, Shapes
  <2> HIDE DEF e
  <2>3. DOMAIN events = Tokens /\ events = [u \in Tokens |-> events[u]]
    BY DEF WindowsInv
  <2>4. CASE events' = [events EXCEPT ![t] = Added(events[t], e)]
    <3>1. events'[t] = Added(events[t], e) /\ \A u \in Tokens \ {t} : events'[u] = events[u]
      BY <2>3, <2>4
    <3>2. events'[t] \in Seq(WindowEvents) /\ WindowRight(t)'
      BY <2>1, <2>2, <3>1, WindowGrows
    <3>3. \A u \in Tokens \ {t} : events'[u] \in Seq(WindowEvents) /\ WindowRight(u)'
      BY <2>1, <3>1, WindowStays
    <3>4. DOMAIN events' = Tokens /\ events' = [u \in Tokens |-> events'[u]]
      BY <2>3, <2>4
    <3> QED BY <3>2, <3>3, <3>4 DEF WindowsInv
  <2>5. CASE events' = events
    <3>1. \A u \in Tokens : events'[u] \in Seq(WindowEvents) /\ WindowRight(u)'
      BY <2>1, <2>5, WindowStays
    <3> QED BY <2>3, <2>5, <3>1 DEF WindowsInv
  <2> QED BY <2>1, <2>4, <2>5
<1>6. ASSUME NEW s \in Sources, Answer(s) PROVE WindowsInv'
  <2>1. PICK next \in Answers : \E high : Commit(s, next, high) \/ CommitFails(s, next)
    BY <1>6 DEF Answer
  <2>2. firstSeq' = firstSeq
    BY <1>6 DEF Answer
  <2>3. CASE CommitFails(s, next)
    BY <1>1, <2>2, <2>3 DEF CommitFails, database, store
  <2> QED BY <2>1, <2>2, <2>3, CommitWindows
<1> QED BY <1>2, <1>3, <1>4, <1>5, <1>6 DEF Next

(* The windows the detector reads are in the order of the log, and never   *)
(* without the newest event of their token, whatever size and retention    *)
(* they have, and whatever fails or restarts.                              *)
THEOREM WindowsEndWithNewest == Spec => []WindowEndsWithNewest
<1>1. Init => WindowsInv
  <2> SUFFICES ASSUME Init PROVE WindowsInv
    OBVIOUS
  <2>1. <<>> \in Seq(WindowEvents) /\ Len(<<>>) = 0
    BY EmptySeq
  <2> QED BY <2>1 DEF Init, WindowsInv, WindowRight, Ordered, Logged, OnAll, Unlogged
<1>2. ASSUME WindowsInv PROVE WindowEndsWithNewest
  <2>1. \A t \in Tokens : events[t] \in Seq(WindowEvents) /\ WindowRight(t)
    BY <1>2 DEF WindowsInv
  <2>2. ASSUME NEW t \in Tokens, NEW i \in 1..Len(events[t]) - 1
        PROVE  events[t][i].seq < events[t][i + 1].seq
    <3>1. Len(events[t]) \in Nat
      BY <2>1, LenProperties
    <3>2. i \in 1..Len(events[t]) /\ i + 1 \in 1..Len(events[t]) /\ i < i + 1
      BY <3>1
    <3> QED BY <2>1, <3>2 DEF WindowRight, Ordered
  <2> QED BY <2>1, <2>2 DEF WindowEndsWithNewest, WindowRight, Last
<1>3. PipelineInv /\ now \in Nat /\ PipelineInv' /\ WindowsInv /\ [Next]_vars => WindowsInv'
  BY WindowsStep
<1> QED BY <1>1, <1>2, <1>3, AlwaysPipelineInv, PTL DEF Spec
=============================================================================
