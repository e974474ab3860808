# TLA+ models of the BSC signal bot

The bot is one Node.js process. It polls GMGN's market lists, logs what changed
in SQLite, keeps windows of the events in memory, lets a detector judge each
token, and sends the first signal of a token to a Telegram chat, to be edited
once when the token is confirmed. Afterwards it looks up what became of the
token. Everything runs on one event loop, but nearly every operation awaits the
network in the middle, the process is restarted by Docker, and each outside
service may fail, answer late or not at all. The modules here model the parts
whose correctness depends on that.

Paths below are relative to the repository: code is in `src/`, the requirements
it was written from are in `openspec/`.

## 1. Inventory

| Component (code) | State | Operations | Talks to |
|---|---|---|---|
| First-signal delivery: `runtime/signal-engine.ts`, `telegram/publisher.ts`, `telegram/errors.ts`, the `signals` row in `db/repositories.ts` | row state and attempts; memory per token; `recentSignals`; a promise chain (lock) per token | `processToken`, `evaluateAndAct`, `publish`, `confirm`, `recheck`, `recoverStartupState` | detector, security manager, Telegram, SQLite |
| Rate limiter: `realtime/rate-limiter.ts` | token bucket, queue, cooldown, recovery stage, pump | `beforeAttempt`/`acquire`, `onRateLimit`, `stop`, `pump` | every GMGN request, `runtime_state` |
| GMGN client: `gmgn/client.ts`, handlers in `main.ts`, `operations/request-metrics.ts` | attempt counts, the cooldown | `request`, `executeAttempt`, `resolveCooldown`, `persistRequestMetrics` | limiter, GMGN, `runtime_state` |
| Market snapshots: `realtime/scheduler.ts`, `market-pollers.ts`, `snapshot-store.ts`, `source-liveness.ts` | baselines, sampling times, windows, miss counts, last successes, `next_ingest_seq` | scheduler tick, poll, commit, window append, watchdog check, restart | client, SQLite, engine (`onCommitted`) |
| Security manager: `realtime/security-manager.ts` | jobs, queue, cache, failures | `preheat`, `requestForSend`, `run`, `recheck` | client, SQLite, engine |
| Outcome worker: `outcomes/worker.ts`, `gmgn-source.ts`, `calculator.ts` | outcome rows, pool baseline, backfill flag | `runDue`, `runJob`, `capturePoolBaseline`, `requeueSnapshotFallbackOutcomes` | client, SQLite, publisher |
| Evaluation order: `processTokens`, `processToken`, `inputFor` in `runtime/signal-engine.ts`; `onCommitted`, `onCompleted` in `main.ts` | a chain of evaluations per token; the candidate's `qualifiedAt`; the batches under way | a commit's batch, an answer about security, an evaluation that throws | coordinator, detector, security manager |
| Noise control: `detection/noise.ts`, reservations in the engine | `recentSignals`, the rows sent in the last minute | `selectWithinNoiseLimits`, reserve, move, `removeRecent`, `recoverStartupState` | engine, SQLite |
| Detector and safety rules: `detection/detector.ts`, `safety.ts` | none (pure over windows) | `evaluateDetector` | engine |
| Persistence: `db/*` | SQLite tables | repository calls, migrations, `maintain` | everybody |
| Operations, statistics, replay, CLI, configuration | counters, reports | reports and checks | SQLite, Telegram |

What is hard, and what makes each part correct:

* **Delivery.** A send is not idempotent and its answer can be lost. Correct
  means: at most one first message per token over any crashes, retries, failing
  writes and late answers; a row never claims more than Telegram did; three
  attempts at most; the engine's memory, its reservations and the row agree;
  nothing holds the token's lock for ever; a confirmation reaches the card.
* **Evaluation order.** Batches take their tokens with one clock reading and wait
  for each other's cards; answers about security come in between. Correct means:
  no answer is overlooked, no batch waits for ever, and the clock of an
  evaluation is never behind the candidate it judges.
* **Noise control.** Places are reserved with the clock of a batch, judged again
  before each attempt, moved to the time of sending or given up, and refilled
  after a restart. Correct means: no minute holds more cards than the limits
  allow, and the cards of one creator are a cooldown apart.
* **Rate limiter.** One pump serves three priorities through cooldowns, staged
  recovery and deadlines. Correct means: the weight granted over any stretch of
  time is bounded; nobody gets past a cooldown, not after a restart either;
  nobody waits beyond the deadline or without a pump.
* **GMGN client.** Correct means: whatever a 429 looks like, nothing is sent
  before the pause it orders is over; the counts that later approve a
  configuration never count too much.
* **Snapshots.** Three sources fail independently, appends fail, events are
  sampled. Correct means: the log tells who is on a list; its numbers give the
  order; only sampled changes are missing; misses are counted right; windows
  keep the newest event; a silent source ends the process.
* **Security manager.** Preheats and senders share few places. Correct means:
  jobs are accounted for, senders go first, failures are remembered, and a card
  is sent on a security result that is fresh at that moment.
* **Outcome worker.** A job makes up to three requests over minutes, beside
  crashes, deletions and a one-time backfill. Correct means: every due
  checkpoint ends, with a bounded number of requests; results are final; a pool
  counts as removed only if it was known.

The hazards behind these, each with its line of code and the properties that
watch it, are listed in `PROJECT.json` under `hazards`.

## 2. The modules

| Module | What it is |
|---|---|
| `FirstSignal` | abstract specification: what the bot promises about a token's first signal |
| `SignalDelivery` | engine, publisher, row, Telegram, crash and restart; implements `FirstSignal` |
| `SignalEvaluation` | who has a token evaluated, when, and by which clock; its stand-in for the security manager implements `SnapshotView` |
| `NoiseControl` | the places under the noise limits, from verdict to restart |
| `GrantPolicy` | abstract specification: which requests the limiter may let pass, and when |
| `RateLimiter` | bucket, queue, pump, cooldown, recovery stages; implements `GrantPolicy` |
| `GmgnClient` | a request with its retry, 429 handling, counts |
| `SnapshotPipeline` | scheduler, commits, log, windows, misses, watchdog, restarts |
| `SnapshotView` | abstract specification: what the rest of the bot may take the security manager for |
| `SecurityManager` | jobs and the recheck before a send; implements `SnapshotView` |
| `OutcomeWorker` | outcome rows, ticks, retries, backfill |
| `MC...` | instances for TLC |
| `..._proofs` | the theorems about a module, one for each of `SignalDelivery`, `SignalEvaluation`, `NoiseControl`, `RateLimiter`, `GmgnClient`, `SnapshotPipeline`, `SecurityManager`, `OutcomeWorker` |

General conventions. An action is what the code does from one `await`, or one
SQL commit, to the next: JavaScript lets nothing else run in between. Where a
write may fail, the action has a disjunct for the exception and where it is
caught. A definition has the name of the function it translates where there is
one; `PROJECT.json` gives the lines of each. A definition commented "Mutant" is
a bug the code could have had; no other definition uses it, and it is there to
show that a property can fail. Variables marked "history" record what happened
for the sake of a property; no guard reads them, except the counters that also
bound a model (`crashes`, `failures`, `sent`).

### SignalDelivery and FirstSignal

`state` and `attempts` are the `signals` row; `memory` and `recent` are
`EngineState.state` and `recentSignals`; `waiting` and `call` are the promise
chain of a token and the `await` at which its evaluation stands; `request` and
`delivered` are Telegram's side: the last `sendMessage` and the messages in the
chat; `open` is the database connection, which `main.ts` closes at shutdown
without waiting for promises. `abandoned` is a history: the tokens of which an
exception of the repository has cut a delivery short.

`Settle`, `Qualify`, `BeginConfirm` and `AfterPublish` are the branches of
`evaluateAndAct`; `BeginPublish`, `Send`, `RecordSent`, `AnswerIsAmbiguous`,
`RetryLater`, `BackoffEnds`, `GiveUp` and `PublishThrows` are `publish()` from
await to await. Telegram accepts or refuses a request at any time, also after
the process that sent it was replaced, and an answer may be ambiguous at any
time. `Hidden` is what a 5xx may conceal: nothing, or, with the fault
`late_5xx`, a message that was accepted. The detector appears as `Verdicts`: the states `evaluateDetector` can
return from a state; its windows and thresholds are left out, which allows more
verdicts and never fewer. `Loaded` is what `inputFor` takes a row for: a row that
waits for security without a candidate, as earlier releases left them, counts as
observing, and since candidates are left out here, any such row may be one.

`FirstSignal` says what is promised without saying how: a gate per token, at
most three tries, a new try only after a refusal, one message, no way back
from an unknown outcome. `gateBar` reads the gate off the row.

### SignalEvaluation

`todo` is what a `processTokens` call has not finished; `queue` is the chain of
promises of a token (`locks`), each entry with its clock and the batch that waits
for it; `call` is where the first of the chain waits. `Commit` is `onCommitted`,
`Evaluated` is `onCompleted`: one evaluation for the token, with the time of the
answer, that no batch waits for. `After` and `Throws` are the two ways a promise
settles: the next of the chain runs, or the whole chain and the rest of its
batch fail with it. `Decisions` is what `evaluateDetector` may return given its
two clocks and the state; the market and the safety rules are a choice.
`Consistent` is the assertion of `validateDetectorInput` about the candidate,
`MayPrecedeDiscovery` the one about the token's discovery: its time is not modelled,
so any older clock may fail it, unless a candidate says that it does not. `Quiet` is the event
loop: what is ready runs before the next event.

### NoiseControl

`recent` is `recentSignals` (at most one entry per token, which is an invariant
of the code and of `TypeOK`); `phase` is where `evaluateAndAct` stands; `row`,
`sentAt` and `priority` are columns. `Qualify` is the verdict, with the clock of
a batch that may lag by `MaxLag`; `RecheckPasses` judges again with a fresh clock
and without the token's own entry; `RecordSent` moves the entry to the time of
sending; `Restart` reads back the rows of the last minute. Two histories tell
what a property may ask of the code: `verdict` is the reservation that holds, and
`lenient` are the cards whose last recheck could not see everything: a card on
its way whose entry is older than a minute (`Overlooks`), or another priority
than the one reserved. For those the code does not keep the minute, see
"Divergences without a run" below.

### RateLimiter and GrantPolicy

The pump's loop is one action per outcome of a pass (`RejectExpired`,
`AwaitCooldown`, `EndCooldown`, `AwaitStage`, `Serve`, `PumpReturns`), with
`waitUntilChange` as phase `waiting` and the moment between the return of
`pump()` and its `finally` as phase `ending`. While the pump is `running`
nothing else happens. A tick is the time that refills `Rate` weight.

`GrantPolicy` knows no pump, no bucket of tokens, no order of the queue and no
recovery stage. It has the requests that wait, the content of a leaky bucket, the
end of the last cooldown the process knows of and the one a new process will know
of; it says when one of the requests may pass and in which ways one may leave.
The limiter's own variables for that, `tokens`, `cooldownUntil` and
`recoveryStartedAt`, forget (the bucket what is due, the cooldown itself, the
stage once offline work has run), and the refinement says that they never forget
too early. `load` is the history `meter`, `kept` is `stored`, `resume` a history;
each request is granted at the delay of its own priority.

### GmgnClient

A caller is idle, waiting for the limiter, waiting for GMGN, or in the backoff
before its second attempt. `Answers` lists what distinguishes answers here: ok,
no answer (timeout, connection, 5xx), other failures, and 429s with every
combination of header, body and reset time. The limiter is reduced to its
contract: nothing passes during its cooldown, and it may refuse at any time.
`PersistMetrics` is the timer in `main.ts`: the counts are taken out of memory
before two separate writes, and a failing write ends the process.
`unsaved` is the history of what a process had not saved when it ended: attempts
in memory and under way.

### SnapshotPipeline

`Answer` is a good answer of a source up to its commit: what entered, changed or
left is a batch, sampled by `shouldPersist`, appended under one number, and then
put into the windows; a failing append leaves everything behind as it was. The
coordinator's `baselines` and the store's `currentBySource` always have the same
value and are one variable, `list`. `logged` keeps the last event of each source
and token instead of the whole table. Security results take numbers from the
same counter. `Added` is the sort and the cut of `TokenWindowStore.add`, stated by
counting: an event is at the place that leaves as many of the retained events
behind it as come after it in a stable order. `Tick` runs the scheduler's timer and, every `Check` ticks, the
watchdog.

### SecurityManager and SnapshotView

`job`, `queue`, `active`, `cache` and `failed` are the manager's fields. `check`
is the engine's `recheck` and `liquidityForSend`, which wait for a security
result, judge it, and for a graduated token wait again for its pool. `Sorted` is
`sortQueue`, specified as the sequences of which its result is true; a stable sort
leaves one. The clock moves only while everybody waits for the network.

`SnapshotView` has no jobs, places or queue: a token is asked for by a preheat,
when nothing is remembered of it, or by a sender, when nothing fresh is; each
question has one answer, which also reaches the sender that waits; answers and
failures are remembered for `CacheTtl`. `SignalEvaluation` has such a manager
instead of `SecurityManager`'s (`cache`, `failed`, `fetching`). Both implement
`SnapshotView`: whatever the jobs and places do, the manager shows the engine
nothing that the view excludes, and the stand-in invents nothing either. (It has
every kind of step of the view; it leaves out only the moment in which a
job has its answer and not yet ended, when a sender that asks is refused.) In both, `captured` and `missed` are what
`pruneCache` would leave; `asked` are the tokens with a job up to its answer, and
`awaited` those of which a sender waits.

### OutcomeWorker

`row` holds the rows of `signal_outcomes` and `research_outcomes`; `batch` is
what `runDue` listed and has not worked off, each job as it was read; `at` is the
request the worker waits for. `First` is `ORDER BY due_at, id LIMIT n`, specified
as the sequences it may return instead of computed. `Store`, `Abort`, `Rescue`
and `Finish` are the ways a write may go: it is stored, it throws in `runJob`
and is tried again by its catch, or it throws there and ends the tick; `failures`
counts the writes that a database refused, not those whose row was deleted.
`Requeued` is the one-time backfill at a start, `Maintain` the deletion of rows,
`capturePoolBaseline` the request beside a send that nobody awaits. Prices and
candles are reduced to which evidence is there (`CandlesSuffice`, `HasPrices`,
`CurveEvidence`).

## 3. What the runs check

Sizes are distinct states; times are with two workers.

| Run | Instance and bounds | States | Shows |
|---|---|---|---|
| `delivery` | one token, two queued evaluations, every failure the code is written for: crashes, failing storage, shutdown, lost and late answers | 2 016 | `AtMostOneMessage`, `ReservationMatchesDelivery`, `EngineAgreesWithRow`, `PendingIsResolved`, `EvaluationEnds`, and that the delivery implements `FirstSignal` |
| `delivery_late5xx` | a 5xx for an accepted message | violation | finding 1 |
| `delivery_confirm` | a confirmation edit that fails once, everything else kind | violation | finding 2 |
| `evaluation` | two tokens, a batch of both and batches of one that overtake it, security fresh for a moment | 123 616 | `AnswersAreSeen`, `BatchesEnd` |
| `evaluation_clock` | the same | violation | finding 4 |
| `noise` | three tokens, two of one creator; two cards a minute, one of them normal; lagging clocks, restarts | 2 130 000 | `VerdictsWithinLimits`, `CardsWithinLimits`, `CreatorApart` |
| `limiter` | capacity 3, two queued requests, 5 ticks, restarts, failing writes | 549 000 | `RateBound`, `WaitIsBounded`, `NoLostWakeup`, `CooldownRespected`, and that the limiter implements `GrantPolicy` |
| `security` | three tokens, one place, 2 ticks | 126 404 | `JobsAccounted`, `UrgentFirst`, `SendUsesFreshSecurity`, `RecheckEnds` |
| `security_pool` | one token, a pool answer that takes a tick | violation | finding 3 |
| `pipeline` | one token, two payloads, a rank list and trenches, 4 ticks, one restart, failing storage | 878 632 | `LogTellsPresence`, `MissesCountGoodAnswers`, `WindowEndsWithNewest`, `SilenceEnds`, `SeqGivesOrder` |
| `client` | two callers, three attempts, 4 ticks, one crash, failing storage | 310 464 | `CountsAreAttempts`, `NothingSentInCooldown` |
| `outcomes` | a job of an earlier release and a new one, in pairs of kinds; one crash or failing write; the backfill; maintenance | 272 763 | `RemovalNeedsBaseline`, `AsksBounded`, `RemovalIsKept`, `ResultsAreFinal`, `CheckpointsEnd` |

Every passing run also checks its module's `TypeOK`, which says more than types
where the code relies on it: the attempts and the loop counter within three, a
delivery under way first in its chain and in `recentSignals`, jobs within the
concurrency limit, the worker with a job exactly while it is not idle.

### The bounds, and why they are enough

* `SignalDelivery`: no action of one token touches another token's state, save
  restart and shutdown, which treat all alike; so one token shows every
  interleaving, and the theorems hold for any number. Attempts are capped by
  the code; `MaxWaiting` = 2 lets an evaluation wait behind another.
* `SignalEvaluation`: two tokens and two batches are what the overtaking needs:
  one batch waits for the card of its first token while the other, or an answer,
  judges the second. `SendMaxAge` 0 and `CacheTtl` 1 within `MaxTime` 1 make a
  snapshot fresh, stale but cached, and old.
* `NoiseControl`: limits of 2 and 1 for three tokens let either be the one that
  refuses; a cooldown of 2 is longer than the minute and ends within `MaxTime` 3;
  `MaxLag` 1 is a clock that is a whole minute late. The theorems cover all else.
* `RateLimiter`: two requests are enough for one to overtake, expire behind or
  wait behind the other; five ticks hold a deadline (2), a cooldown (2) and the
  offline stage (2) in any overlap. The theorem covers every capacity.
* `SecurityManager`: three tokens for one place give a job that runs, one that
  waits and one that overtakes. `CacheTtl` = 1 and `SendMaxAge` = 0 make both
  expire within the run.
* `SnapshotPipeline`: the `Interval` of 3 is longer than the time between two
  polls of a source, so that changes are sampled; `Retention` and `MaxEvents` of
  2 make windows evict; `Timeout` 2 and `Check` 2 let the watchdog fire before
  `MaxTime` 4. One token is enough for TLC because tokens of a source meet only
  in the number of a batch; the theorems hold for any number.
* `GmgnClient`: three attempts allow a retry beside another caller's request.
  The resets 3 and 9 are valid at first and past later, and beyond the longest
  accepted one. The fallback of 2 ends within the 4 ticks.
* `OutcomeWorker`: attempts are capped by the code; the pairs of profiles take
  every way through the worker, beside each other; the grace of the row due at 0
  ends within `MaxTime` 4, so that attempts are made before, at and after its
  boundary. `MaxAsks` is where the history stops counting, one above what
  `AsksBounded` allows; `MaxMishaps` 1 allows a crash or a failing write.

`CHECK_DEADLOCK FALSE` is said where a model ends at `MaxTime` with nothing left
to do.

### Fairness

* `SignalDelivery`, `FairSpec`: weak fairness of `Evaluate(t) \/ Publish(t)`. The
  event loop runs every continuation that is ready, and grammY settles every
  request, with an error at its own timeout if need be. Nothing is assumed of
  crashes, restarts, Telegram's decision, or new market data. `PendingIsResolved`
  needs no fair restart: the answer ends the pending state, or a crash and
  recovery in one step; it excuses the tokens whose answer could not be written
  (`abandoned`), which the next start resolves, if there is one.
  `KindSpec`, for `ConfirmationReachesCard` only, adds all that could help: the
  market never stops asking, and an edit that is tried again and again succeeds.
* `SignalEvaluation`, `FairSpec`: what is ready runs (`Runs`); and for each token,
  the answer about security and the end of a send or an edit come to their turn,
  however many other events there are. That is strong fairness because `Quiet`
  disables them, again and again, while continuations run: the event loop serves
  its sources in turn. The retry of a send is not limited here; that there are
  three attempts at most is `SignalDelivery`'s, and the fairness of `SendEnds`
  stands for it.
* `SecurityManager`, `FairSpec`: requests to GMGN end (answer, client timeout, or
  limiter deadline), and ready continuations run. The arrival of requests and
  time are not fair.
* `OutcomeWorker`, `FairSpec`: the process is started again (Docker's restart
  policy), its 30 s timer fires, requests end, and time passes up to `MaxTime`.

### Findings

1. `delivery_late5xx`: `telegram/errors.ts:12` takes a Telegram 5xx for proof
   that the message was not accepted, and `publish()` sends again; the telegram
   delivery spec (`spec.md:48`) wants an undetermined 5xx treated as ambiguous.
   The chat can get the signal twice.
2. `delivery_confirm`: `signal-engine.ts:181` sets memory to confirmed before the
   edit; after one failed edit nothing asks again, and the card stays as it was.
3. `security_pool`: `signal-engine.ts:435` reads the clock before it awaits the
   pool, and the answer is then refused as one from the future: graduated tokens
   are cancelled although their pool is fresh. Tests use a constant clock.
4. `evaluation_clock`: `signal-engine.ts:158` reads the clock once for a batch,
   and the batch then waits for the card of each of its tokens. A newer batch may
   qualify a later token meanwhile, with a later `qualifiedAt`; when the old one
   comes to it, `detector.ts:63-65` throws ("candidate and missing-rank
   state are inconsistent"), and the rest of the batch is not evaluated.

`BatchesEnd` does not see the last: a batch that throws has ended too.

For the first, the passing run and the theorems state the property under the
assumption that excludes the disagreement (`Honest`: no `late_5xx` fault).

### Divergences without a run

Met while modelling, and left to this text because no run of the project is about
them:

* `gmgn/client.ts:417` parses the JSON body of a 429 before it resolves the
  cooldown; a body that is cut off orders no pause, although
  `openspec/specs/gmgn-market-ingestion/spec.md:89-90` wants the fallback.
  Likewise `gmgn/client.ts:392`: when the connection is lost before the body of a
  429 with a valid header is cancelled, the rejection is taken for a network error
  or a timeout, and the request is repeated. `Outcome` has both (`broken`, `lost`);
  `NothingSentInCooldown` is checked and proved without them (`Whole`).
* `security-manager.ts:84`: a preheat is satisfied by a cached snapshot of up to
  60 s, the detector wants one of up to 10 s (`gmgn-market-ingestion/spec.md:74-75`):
  with a snapshot between the two, a candidate waits for its next market change.
  The verdict `security_pending` of a recheck is stored without any preheat, with
  the same effect. `AnswersAreSeen` speaks of answers that do come.
* `detection/noise.ts:38`: the recheck does not count a card on its way whose
  reservation is older than a minute; two such cards and a third may be sent in
  one minute (`lenient` in `NoiseControl`).
* `main.ts:230`: a start hands the engine the signals of the last minute only;
  `recoverStartupState` collects the creators of the last half hour, and nobody
  uses them. `CreatorApart` speaks of the cards of one process.
* `main.ts:103-107`: a second 429, to a request sent before the first was
  answered, counts as uncontrolled.
* A trigger replaces the reference of a candidate that waits: what a fall in rank
  or a cancellation is compared with is then the new one.
* `db/maintenance.ts` deletes signals after their retention, and with them the
  memory that a token was signalled.

## 4. What is proved

The proofs hold for every value of the constants that satisfies the named
assumptions of the module.

| Theorem | Says | Along |
|---|---|---|
| **SignalDelivery** | | |
| `AttemptsBounded` | `TypeOK`, and `AttemptsAgree`: three attempts at most, over any retries and restarts | inductive as it stands once both are taken together: the loop counter is typed only because it agrees with the row |
| `OneFirstSignal` | `AtMostOneMessage`, under `Honest` | `OneRequest`: a live request keeps the row blocked, sent rows were delivered, and the messages in the chat are those accepted. `AtMostOneMessage` alone does not know of the request on the wire |
| `SettledForGood` | no way out of `sent`, `confirmed`, `delivery_unknown` | per action, with `TypeOK` |
| `DeliveryImplementsFirstSignal` | the refinement, under `Honest` | every step maps to a step of `FirstSignal` or a stutter, using `OneRequest`; a restart is `WriteOff` of several tokens at once |
| `PlacesAreNotLeaked` | `ReservationMatchesDelivery` | `EngineOK(t)`, for each place of an evaluation: what the row, the memory and the reservation are there |
| `EngineFollowsRow` | `EngineAgreesWithRow` | the same invariant |
| **SignalEvaluation** | | |
| `NoAnswerIsOverlooked` | `AnswersAreSeen` | `Coherent(t)`: a snapshot that was not seen is about to be (`Noticed`), by the recheck that is judging or by an evaluation at the head of the chain with the present clock; and security is asked for only when the cached snapshot would not do for a card (`Stale`), so no answer comes while a card is sent. The property alone says nothing of a token at work |
| `BatchesAreCarried` | every batch with tokens left is in one chain, once, at the first token left | `ChainInv`, which is the property and the types of the chains: it holds of a batch that another one overtakes because an entry moves only with its batch's next token |
| `EvaluationIsTyped` | `TypeOK` | the same invariant, `IInv` |
| `EvaluationImplementsView` | the refinement: `ImplementsSnapshotView` | every step is `Preheat`, `Require`, `Arrives`, `Fails`, `Pass` or a stutter, given the types of `IInv`; what is judged, sent and queued stutters |
| **NoiseControl** | | |
| `PlacesAreConsistent` | `TypeOK`: a delivery under way holds its place, over retries and restarts | with `Consistency`: an entry is never older than its verdict, and a card sent since the start still has its entry, at the time of sending |
| `VerdictsKeepLimits` | `VerdictsWithinLimits` | `WithinByVerdict`: every minute, by the clocks of the verdicts, is within the limits; a verdict adds one place to minutes that had room, and all other steps only lose places |
| `CardsKeepLimits` | `CardsWithinLimits` | `CardsInv`: the cards of the window that ends now, those on their way included, are within the limits; each window of the past was once the present one |
| `CreatorsAreApart` | `CreatorApart` | `CreatorInv`: the same for a creator's cards sent (`Mine`) and on their way (`Live`) |
| **RateLimiter** | | |
| `GrantedWeightBounded` | `RateBound` for any capacity, rate and delays | `BucketBalance`: what the leaky bucket of the history holds plus what a refill now would make available is at most the capacity. The bound alone says nothing of the refill still due |
| `NobodyWaitsTooLong` | `WaitIsBounded` | `QueueInv`: while the pump sleeps, its alarm is no later than any queued deadline, nor than that of a request that arrives meanwhile |
| `NobodyIsForgotten` | `NoLostWakeup` | the same invariant |
| `CooldownIsKept` | `CooldownRespected`, restarts included, unless a write failed | `CooldownKnown`: what was ordered is over, or is both in memory and stored |
| `RecoveryIsStaged` | `RecoveryStaged` | `RecoveryKnown` ties the stage to the end of the last cooldown |
| `LimiterImplementsGrantPolicy` | the refinement: `ImplementsGrantPolicy` | all invariants above, and `SameCooldown`: the cooldown that holds is the last the process knew of, so what is stored is enough for a restart. `Serve` is a `Grant` or a stutter, a pass that ends a cooldown is `Finish` or `Fail`; `Tick` may be a `Leak` because `QueueInv` holds after it too |
| `LimiterIsTyped` | `TypeOK` | the invariants above together |
| **GmgnClient** | | |
| `PauseIsObserved` | `NothingSentInCooldown`, under `Whole` | the stored cooldown, and the limiter's while the process runs, are never behind the longest pause asked for, unless a write failed |
| `NoAttemptIsMiscounted` | `CountsAreAttempts` | `Counted`, which adds that the successes in memory are among the attempts there: else a write that fails could lose more successes than it loses attempts |
| `PauseIsBounded` | `TypeOK`: no pause is longer than the longest accepted reset | `Horizon` |
| **SnapshotPipeline** | | |
| `PresenceIsLogged`, `NumbersGiveOrder` | `LogTellsPresence`, `SeqGivesOrder` | `PipelineInv`: all numbers logged are behind `next_ingest_seq`, which sets apart what earlier processes logged, and the presence itself |
| `MissesAreCounted` | `MissesCountGoodAnswers` | `SeenRight`: the count is what the history of good answers says, for tokens that are on no list too |
| `SilenceAlwaysEnds` | `SilenceEnds` | `WatchInv`: the watchdog's last success is what was last heard, and between two checks a source's silence grows only with the time since the last check (`SinceCheck`) |
| `WindowsEndWithNewest` | `WindowEndsWithNewest`, through commits of several sources, evictions by age and by number, restarts | `WindowGrows`: `Added` puts the entries in the order of their numbers. The lemmas below it count: two entries never claim the same place (`PlacesAreDistinct`), as many places as entries, so every place is taken (`EveryPlaceIsTaken`) and the new event has the last one (`AddedIsLast`) |
| `PipelineIsTyped` | `TypeOK` | |
| **SecurityManager** | | |
| `SendIsFresh` | `SendUsesFreshSecurity` | `CheckInv`: the snapshot judged was fresh when the pool was asked for; the pool's answer is used only if no time has passed since (finding 3 is the other side of this) |
| `JobsAreAccounted` | `JobsAccounted`: no token has two jobs, no place is free while a job waits | `QueueInv`: a job is queued exactly if its token is in the queue, there once, and urgent ones come first (`QueueOK`); the places taken are those of the running jobs (`PlacesOK`); all are taken while somebody waits |
| `UrgentGoFirst` | `UrgentFirst` | the same invariant, step by step: what starts is ahead of what stays |
| `ManagerIsTyped` | `TypeOK`: jobs within `Concurrency`, no time in the future | `QueueInv` and `TimesInv` |
| `ManagerImplementsView` | the refinement: `ImplementsSnapshotView` | types and `TimesInv`. `EnlistedQueue` and `EndedQueue` say what the jobs and places are after a question and after an end: a job changes places without the view, and a question that finds a job under way asks for nothing new |
| **OutcomeWorker** | | |
| `WorkerIsTyped` | `TypeOK` and `WorkerInv` | `RowInv`: what a row says is what was known when it was written; `Known`: a job of the batch is still what was read, unless its row was deleted; `PlaceInv`: where the worker waits tells the kind of its job |
| `RemovalsAreKnown`, `RemovalsAreKept` | `RemovalNeedsBaseline`, `RemovalIsKept` | from `WorkerInv` |
| `ResultsStay` | `ResultsAreFinal` | the worker writes only to its own job's row, and only while it is pending |
| `AsksAreBounded` | `AsksBounded` | `AsksInv`: each request is counted by the attempts of its row, by the job under way, or by a mishap |

Every safety invariant and every action property that a passing run checks is
stated by one of these theorems. Only model-checked are the liveness properties
(`EvaluationEnds`, `PendingIsResolved`, `BatchesEnd`, `RecheckEnds`,
`CheckpointsEnd`): the prover has neither fairness nor `ENABLED`. What
`BatchesAreCarried` proves is the safety half of `BatchesEnd`: a batch that does
not end is still in a chain. The other way round, `ImplementsSnapshotView` is
proved of two modules and is not a property of a run. No module declares a recursive operator, and nothing
is proved by induction over data: `Added`'s sort is reasoned about by counting.

Some definitions are written so that the provers can work with them:
`Added` counts places instead of sorting, and `Decisions` is a union over
references, because the SMT encoding has no sets mapped from two variables. TLC
compared `Added` with the sort it replaces on some thirty thousand small windows,
events of the same number and of the same time among them.

## 5. What is not modelled, and why

* The detector's and safety rules' arithmetic over prices and volumes: data, and
  well covered by unit tests. What it decides on appears as `Verdicts`.
* Response parsing (`gmgn/adapters.ts`, `normalize.ts`, `self-check.ts`): pure
  data; an answer is good or failed here.
* Card rendering, statistics, replay, CLI, configuration, logging: sequential
  code over rows or I/O.
* Health, acceptance windows and the daily report: one conditional write or one
  query each, in a sequential job; the report is claimed before it is sent by
  choice. Nothing of it interleaves with the rest but through the counters that
  `GmgnClient` has.
* In `SignalEvaluation`, failing storage and restarts, which `SignalDelivery` has;
  in `SignalDelivery`, times and clocks, which `SignalEvaluation`, `NoiseControl`
  and `SecurityManager` have.

## 6. Plan

The order so far, the most important behaviour first: `SignalDelivery` with
`FirstSignal`; `RateLimiter` with `GrantPolicy`; `SecurityManager`; `OutcomeWorker`;
`SnapshotPipeline`; `GmgnClient`; `NoiseControl`; `SignalEvaluation`. Each is
written to be proved about: parameters as constants with named assumptions, one
action per operation, no recursion.

What is left, each to replace or join an existing run rather than to stand
beside it:

1. Composition: `GmgnClient` over `RateLimiter`, the client's view of the limiter
   shown to be what `GrantPolicy` allows.
2. The uncontrolled-429 counter (`main.ts:105`) in `GmgnClient`.
3. The detector's transition structure; `Maintenance`, `DailyReport` and
   acceptance windows as small modules, if they ever get more than one writer.
