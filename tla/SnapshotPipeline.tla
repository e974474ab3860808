-------------------------- MODULE SnapshotPipeline --------------------------
(***************************************************************************)
(* SnapshotPipeline: from GMGN's market lists to the event log and the     *)
(* windows the detector reads.  A scheduler polls one source a tick; an    *)
(* answer is compared with the one before it, and what entered, changed or *)
(* left the list becomes a batch of events with one ingest_seq: in the     *)
(* database first, then in the windows.  Security results take numbers     *)
(* from the same counter.  A watchdog restarts a process whose sources     *)
(* have fallen silent; a process may also die, and the database fail.      *)
(*                                                                         *)
(* The coordinator's baselines and the store's currentBySource always have *)
(* the same values and are one variable here, list; the log keeps the last *)
(* event of each source and token.                                         *)
(***************************************************************************)
EXTENDS Integers, Sequences, SequencesExt, FiniteSets

CONSTANTS
  Tokens, Payloads,         \* what the lists are about, and say of a token
  SOURCE_SCHEDULE,          \* the sources in the order they are polled
  RankSources,              \* those whose misses are counted
  Interval,                 \* ordinarySnapshotIntervalMs
  Retention, MaxEvents,     \* of a token's window
  Timeout, Check,           \* SOURCE_LIVENESS_TIMEOUT_MS, ..._CHECK_MS
  Faults,                   \* subset of {"storage"}
  MaxTime, MaxSecurity, MaxRestarts   \* bounds of the model

Sources == {SOURCE_SCHEDULE[i] : i \in DOMAIN SOURCE_SCHEDULE}
Absent == "absent"

ASSUME PipelineAssumption ==
  /\ Absent \notin Payloads
  /\ SOURCE_SCHEDULE \in Seq(STRING) \ {<<>>} /\ RankSources \subseteq Sources
  /\ Interval \in Nat \ {0} /\ Retention \in Nat /\ MaxEvents \in Nat \ {0}
  /\ Timeout \in Nat \ {0} /\ Check \in Nat \ {0}
  /\ Faults \subseteq {"storage"}
  /\ MaxTime \in Nat /\ MaxSecurity \in Nat /\ MaxRestarts \in Nat

VARIABLES
  now,
  phase,            \* running, stopping (the scheduler waits), down
  restarts,
  next_ingest_seq,  \* runtime_state
  logged,           \* token_snapshots: the last event of a source and token
  tickIndex, inFlight,             \* the scheduler
  list,             \* the last good answer of a source
  lastPersistedAt,  \* per source and token; Never when not in the map
  events,           \* the window of a token
  sourceSuccessAt,  \* Never before the first
  consecutiveMissing,              \* per rank source and token
  startedAt, lastSuccess,          \* the watchdog
  securityChecks,   \* bound: how many there were
  firstSeq,         \* history: next_ingest_seq at the start of the process
  commits, seenIn   \* history: good answers, and the last that had a token

database == <<next_ingest_seq, logged>>
scheduler == <<tickIndex, inFlight>>
coordinator == <<list, lastPersistedAt>>
store == <<events, sourceSuccessAt, consecutiveMissing, commits, seenIn>>
watchdog == <<startedAt, lastSuccess>>
vars == <<now, phase, restarts, database, scheduler, coordinator, store, watchdog,
          securityChecks, firstSeq>>

Never == -1
Unlogged == [type |-> "none", payload |-> Absent, at |-> Never, seq |-> 0]
OnAll(value) == [s \in Sources |-> [t \in Tokens |-> value]]

(* What a process begins with; its scheduler polls at once.                *)
Fresh ==
  /\ tickIndex' = 1 % Len(SOURCE_SCHEDULE) /\ inFlight' = {SOURCE_SCHEDULE[1]}
  /\ list' = OnAll(Absent) /\ lastPersistedAt' = OnAll(Never)
  /\ events' = [t \in Tokens |-> <<>>]
  /\ sourceSuccessAt' = [s \in Sources |-> Never]
  /\ consecutiveMissing' = OnAll(0)
  /\ commits' = [s \in Sources |-> 0] /\ seenIn' = OnAll(0)
  /\ startedAt' = now /\ lastSuccess' = [s \in Sources |-> now]
  /\ firstSeq' = next_ingest_seq

Init ==
  /\ now = 0 /\ phase = "running" /\ restarts = 0
  /\ next_ingest_seq = 1 /\ logged = OnAll(Unlogged)
  /\ tickIndex = 1 % Len(SOURCE_SCHEDULE) /\ inFlight = {SOURCE_SCHEDULE[1]}
  /\ list = OnAll(Absent) /\ lastPersistedAt = OnAll(Never)
  /\ events = [t \in Tokens |-> <<>>]
  /\ sourceSuccessAt = [s \in Sources |-> Never]
  /\ consecutiveMissing = OnAll(0)
  /\ commits = [s \in Sources |-> 0] /\ seenIn = OnAll(0)
  /\ startedAt = 0 /\ lastSuccess = [s \in Sources |-> 0]
  /\ securityChecks = 0 /\ firstSeq = 1

-----------------------------------------------------------------------------
(* The scheduler. *)

(* tick: a source whose poll is still under way is passed over.            *)
Scheduled == SOURCE_SCHEDULE[(tickIndex % Len(SOURCE_SCHEDULE)) + 1]
Poll ==
  /\ tickIndex' = (tickIndex + 1) % Len(SOURCE_SCHEDULE)
  /\ inFlight' = inFlight \cup {Scheduled}

(* The request or the parsing failed; the list stays as it is.             *)
PollFails(s) ==
  /\ phase # "down" /\ s \in inFlight
  /\ inFlight' = inFlight \ {s}
  /\ UNCHANGED <<now, phase, restarts, database, tickIndex, coordinator, store, watchdog,
                 securityChecks, firstSeq>>

-----------------------------------------------------------------------------
(* commit: an answer becomes events. *)

(* commitRank and commitTrenches: what an answer says of each token; one   *)
(* that names a token twice is refused, as PollFails.                      *)
Answers == [Tokens -> Payloads \cup {Absent}]

(* stableJson of both; the payload holds the rank and all other fields.    *)
SamePayload(old, new) == old = new
EventType(old, new) ==
  IF SamePayload(old, new) THEN "none" ELSE IF old = Absent THEN "enter"
  ELSE IF new = Absent THEN "exit" ELSE "update"

(* Only updates of tokens that are not of high priority are sampled.       *)
shouldPersist(s, t, type, high) ==
  type # "update" \/ t \in high \/ lastPersistedAt[s][t] = Never
  \/ now - lastPersistedAt[s][t] >= Interval

Event(s, t, new) ==
  [type |-> EventType(list[s][t], new), at |-> now, seq |-> next_ingest_seq, payload |-> new]

(* The order of sort, which is stable: by seq, then by place.              *)
Precedes(window, i, k) ==
  window[i].seq < window[k].seq \/ (window[i].seq = window[k].seq /\ i < k)
Retained(window, since) == {i \in DOMAIN window : window[i].at >= since}
(* How many of the entries in kept come after entry i.                     *)
Behind(window, kept, i) == Cardinality({k \in kept : Precedes(window, i, k)})

(* Mutant: the oldest events stay.                                         *)
AddedOldest(window, event) ==
  LET all == Append(window, event)
      kept == Retained(all, event.at - Retention)
      length == IF Cardinality(kept) < MaxEvents THEN Cardinality(kept) ELSE MaxEvents
  IN [n \in 1..length |-> all[CHOOSE i \in kept : Behind(all, kept, i) = Cardinality(kept) - n]]

(* add: the newest events within the retention stay, in the order of seq.  *)
Added(window, event) ==
  LET all == Append(window, event)
      kept == Retained(all, event.at - Retention)
      length == IF Cardinality(kept) < MaxEvents THEN Cardinality(kept) ELSE MaxEvents
  IN [n \in 1..length |-> all[CHOOSE i \in kept : Behind(all, kept, i) = length - n]]
WindowEvent(s, event) == [source |-> s, type |-> event.type, at |-> event.at, seq |-> event.seq]

(* Mutant: only tokens of the answer before this one are looked at.        *)
MissesOfListed(s, next) ==
  [t \in Tokens |->
     IF next[t] # Absent THEN 0
     ELSE IF list[s][t] # Absent THEN consecutiveMissing[s][t] + 1
     ELSE consecutiveMissing[s][t]]
(* replaceCurrentSource, its count of misses.                              *)
Misses(s, next) ==
  [t \in Tokens |->
     IF next[t] # Absent THEN 0
     ELSE IF list[s][t] # Absent \/ consecutiveMissing[s][t] > 0
          THEN consecutiveMissing[s][t] + 1
     ELSE 0]

-----------------------------------------------------------------------------
(* The answers. *)

(* Batch: the events of an answer that are kept; the answer that follows   *)
(* on a start has no predecessor, and all its tokens enter.                *)
Batch(s, next, high) ==
  {t \in Tokens : /\ EventType(list[s][t], next[t]) # "none"
                  /\ shouldPersist(s, t, EventType(list[s][t], next[t]), high)}

(* Mutant: the map keeps when the next event may be kept.                  *)
PersistedAsDeadline(s, t, type) == IF type = "exit" THEN Never ELSE now + Interval
Persisted(s, t, type) == IF type = "exit" THEN Never ELSE now

allocateIngestSeq == next_ingest_seq' = next_ingest_seq + 1
appendSourceBatch(s, batch, event) ==
  /\ IF batch = {} THEN UNCHANGED next_ingest_seq ELSE allocateIngestSeq
  /\ logged' = [logged EXCEPT ![s] =
                  [t \in Tokens |-> IF t \in batch THEN event[t] ELSE @[t]]]

(* The watchdog's markSuccess; the poller calls it after the commit.       *)
markSuccess(s) == lastSuccess' = [lastSuccess EXCEPT ![s] = now]

(* commit, once the transaction is through, with recordPersisted and       *)
(* markSourceSuccess.                                                      *)
Commit(s, next, high) ==
  LET batch == Batch(s, next, high)
      event == [t \in Tokens |-> Event(s, t, next[t])]
  IN /\ appendSourceBatch(s, batch, event)
     /\ lastPersistedAt' = [lastPersistedAt EXCEPT ![s] =
                     [t \in Tokens |-> IF t \in batch THEN Persisted(s, t, event[t].type) ELSE @[t]]]
     /\ events' = [t \in Tokens |-> IF t \in batch
                     THEN Added(events[t], WindowEvent(s, event[t])) ELSE events[t]]
     /\ list' = [list EXCEPT ![s] = next]
     /\ consecutiveMissing' = IF s \in RankSources
                     THEN [consecutiveMissing EXCEPT ![s] = Misses(s, next)]
                     ELSE consecutiveMissing
     /\ sourceSuccessAt' = [sourceSuccessAt EXCEPT ![s] = now]
     /\ markSuccess(s)
     /\ commits' = [commits EXCEPT ![s] = @ + 1]
     /\ seenIn' = [seenIn EXCEPT ![s] =
                     [t \in Tokens |-> IF next[t] # Absent THEN commits[s] + 1 ELSE @[t]]]

(* Mutants: the list is replaced, or the watchdog told, before the append. *)
CommitFailsLate(s, next) ==
  /\ list' = [list EXCEPT ![s] = next]
  /\ UNCHANGED <<database, lastPersistedAt, store, lastSuccess>>
CommitFailsMarked(s, next) ==
  /\ markSuccess(s)
  /\ UNCHANGED <<database, coordinator, store>>

(* The append throws: nothing has changed, and the next answer is compared *)
(* with the same list again.                                               *)
CommitFails(s, next) == UNCHANGED <<database, coordinator, store, lastSuccess>>

Answer(s) ==
  /\ phase # "down" /\ s \in inFlight
  /\ inFlight' = inFlight \ {s}
  /\ \E next \in Answers :
       \E high \in SUBSET {t \in Tokens : EventType(list[s][t], next[t]) = "update"} :
         \/ Commit(s, next, high)
         \/ /\ "storage" \in Faults /\ Batch(s, next, high) # {}
            /\ CommitFails(s, next)
  /\ UNCHANGED <<now, phase, restarts, tickIndex, startedAt, securityChecks, firstSeq>>

(* SecurityManager.run: a good result goes to the window, a failed one     *)
(* only to the database.                                                   *)
SecurityCompletes(t) ==
  /\ phase # "down" /\ securityChecks < MaxSecurity
  /\ securityChecks' = securityChecks + 1
  /\ allocateIngestSeq
  /\ \/ events' = [events EXCEPT ![t] = Added(@,
                 [source |-> "security", type |-> "security", at |-> now, seq |-> next_ingest_seq])]
     \/ UNCHANGED events
  /\ UNCHANGED <<now, phase, restarts, logged, scheduler, coordinator, sourceSuccessAt,
                 consecutiveMissing, commits, seenIn, watchdog, firstSeq>>

-----------------------------------------------------------------------------
(* Time, the watchdog, and the life of the process. *)

staleSources == {s \in Sources : now + 1 - lastSuccess[s] >= Timeout}
CheckDue == (now + 1 - startedAt) % Check = 0

Tick ==
  /\ now < MaxTime /\ now' = now + 1
  /\ IF phase = "running"
     THEN /\ Poll
          /\ phase' = IF CheckDue /\ staleSources # {} THEN "stopping" ELSE phase
     ELSE UNCHANGED <<phase, scheduler>>
  /\ UNCHANGED <<restarts, database, coordinator, store, watchdog, securityChecks, firstSeq>>

(* A signal to stop; polls under way are waited for.  Or a sudden end.     *)
Stop ==
  /\ \/ phase = "running" /\ phase' = "stopping"
     \/ phase = "stopping" /\ inFlight = {} /\ phase' = "down"
     \/ phase # "down" /\ restarts < MaxRestarts /\ phase' = "down"
  /\ UNCHANGED <<now, restarts, database, scheduler, coordinator, store, watchdog,
                 securityChecks, firstSeq>>

(* Mutant: the numbers start anew.                                         *)
StartAnew ==
  /\ phase = "down" /\ restarts < MaxRestarts
  /\ phase' = "running" /\ restarts' = restarts + 1
  /\ Fresh /\ next_ingest_seq' = 1
  /\ UNCHANGED <<now, logged, securityChecks>>
Start ==
  /\ phase = "down" /\ restarts < MaxRestarts
  /\ phase' = "running" /\ restarts' = restarts + 1
  /\ Fresh
  /\ UNCHANGED <<now, database, securityChecks>>

Next ==
  \/ Tick \/ Stop \/ Start
  \/ \E s \in Sources : PollFails(s) \/ Answer(s)
  \/ \E t \in Tokens : SecurityCompletes(t)

Spec == Init /\ [][Next]_vars

-----------------------------------------------------------------------------
(* Properties. *)

Types == {"enter", "update", "exit"}
Logged(s, t) == logged[s][t].seq >= firstSeq   \* by this process

(* The types of the variables; no poll of a source overlaps another.       *)
TypeOK ==
  /\ now \in Nat /\ phase \in {"running", "stopping", "down"} /\ restarts \in 0..MaxRestarts
  /\ next_ingest_seq \in Nat \ {0} /\ firstSeq \in 1..next_ingest_seq
  /\ logged \in [Sources -> [Tokens ->
                  [type : Types, payload : Payloads \cup {Absent}, at : 0..now,
                   seq : 1..next_ingest_seq - 1]
                    \cup {Unlogged}]]
  /\ tickIndex \in 0..Len(SOURCE_SCHEDULE) - 1 /\ inFlight \subseteq Sources
  /\ list \in [Sources -> [Tokens -> Payloads \cup {Absent}]]
  /\ lastPersistedAt \in [Sources -> [Tokens -> Never..now]]
  /\ sourceSuccessAt \in [Sources -> Never..now] /\ lastSuccess \in [Sources -> 0..now]
  /\ startedAt \in 0..now /\ securityChecks \in 0..MaxSecurity
  /\ commits \in [Sources -> Nat]
  /\ seenIn \in [Sources -> [Tokens -> Nat]]
  /\ consecutiveMissing \in [Sources -> [Tokens -> Nat]]

(* gmgn-market-ingestion: the log tells who is on a list.  Whatever polls  *)
(* and appends fail, a token is on the last good answer exactly when the   *)
(* last event this process has logged of it is no exit.                    *)
LogTellsPresence ==
  phase # "down" =>
    \A s \in Sources, t \in Tokens :
      list[s][t] # Absent <=> Logged(s, t) /\ logged[s][t].type # "exit"

(* gmgn-market-ingestion: ingest_seq gives the order of the commits, over  *)
(* all sources, security results and restarts.                             *)
SeqGivesOrder ==
  [][\A s \in Sources, t \in Tokens :
       logged'[s][t] # logged[s][t]
         => \A r \in Sources, u \in Tokens : logged'[s][t].seq > logged[r][u].seq]_vars

(* The detector's windows are in the order of the log, and never without   *)
(* the newest event of their token.                                        *)
WindowEndsWithNewest ==
  phase # "down" =>
    \A t \in Tokens :
      /\ \A i \in 1..Len(events[t]) - 1 : events[t][i].seq < events[t][i + 1].seq
      /\ \A s \in Sources : Logged(s, t) =>
           events[t] # <<>> /\ logged[s][t].seq <= Last(events[t]).seq

(* Two misses cancel a candidate: they count good answers without the      *)
(* token since the last one with it, and nothing else.                     *)
MissesCountGoodAnswers ==
  phase # "down" =>
    \A s \in RankSources, t \in Tokens :
      consecutiveMissing[s][t] = IF seenIn[s][t] = 0 THEN 0 ELSE commits[s] - seenIn[s][t]

(* gmgn-pipeline-liveness: no process goes on while a source has had no    *)
(* committed answer for the timeout, give or take the period of the check. *)
SilenceEnds ==
  phase = "running" =>
    \A s \in Sources :
      now - (IF sourceSuccessAt[s] = Never THEN startedAt ELSE sourceSuccessAt[s])
        < Timeout + Check
=============================================================================
