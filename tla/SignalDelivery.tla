--------------------------- MODULE SignalDelivery ---------------------------
(***************************************************************************)
(* The life of a token's first signal: SignalEngine evaluates a token,     *)
(* TelegramPublisher delivers the card, the signals row (SQLite) records   *)
(* every step, Telegram accepts or refuses, and the process may crash and  *)
(* restart between any two durable writes.  An action is what the code     *)
(* does from one await, or one SQL commit, to the next.                    *)
(*                                                                         *)
(* The detector's arithmetic is abstracted to the set of verdicts it can   *)
(* give in each state (Verdicts); cards, prices and reasons are left out.  *)
(* telegram_message_id is set exactly in states sent and confirmed (CHECK  *)
(* in migrations.ts), so the row here is its state and its attempts.       *)
(*                                                                         *)
(* A definition commented "Mutant" is a bug the code could have had: each  *)
(* stands before the definition it would replace, and no other definition  *)
(* uses it.                                                                *)
(***************************************************************************)
EXTENDS Naturals

CONSTANTS
  Tokens,       \* token keys
  MaxWaiting,   \* bound: evaluations queued on the lock of one token
  Faults        \* the failures of the environment that a model admits

(* crash: the process dies and is started again;  storage: any repository  *)
(* call may throw;  shutdown: main.ts closes the database while promises   *)
(* are still pending;  late_5xx: Telegram answers 5xx for a message it has *)
(* in fact accepted.                                                       *)
FaultKinds == {"crash", "storage", "shutdown", "late_5xx"}

ASSUME MaxWaitingAssumption == MaxWaiting \in Nat \ {0}
ASSUME FaultsAssumption == Faults \subseteq FaultKinds

MaximumAttempts == 3

Unsent == {"observing", "security_pending", "qualified",
           "rejected", "cancelled", "suppressed"}
Blocked == {"delivery_pending", "delivery_unknown", "sent", "confirmed"}
SignalStates == Unsent \cup Blocked

VARIABLES
  state,      \* signals.state of each token, "absent" without a row
  attempts,   \* signals.delivery_attempts
  memory,     \* EngineState.state, "unloaded" before the first evaluation
  recent,     \* tokens with an entry in SignalEngine.recentSignals
  waiting,    \* evaluations queued behind the lock of the token
  call,       \* the evaluation in progress, at the await where it stands
  request,    \* the token's last sendMessage, as Telegram sees it
  delivered,  \* first-signal messages in the chat
  open,       \* the database connection is open
  abandoned   \* history: tokens of which a repository error has cut short a
              \* delivery in this process

process == <<state, attempts, memory, recent, waiting, call, open, abandoned>>
vars == <<state, attempts, memory, recent, waiting, call, request, delivered, open,
          abandoned>>

Phases == {"idle", "publish", "recheck", "cancelling", "sending", "backoff",
           "returned", "editing"}
Results == {"none", "sent", "delivery_unknown", "not_sent", "cancelled", "duplicate"}
Idle == [at |-> "idle", attempt |-> 0, result |-> "none"]

At(t, phase) == call[t].at = phase
Goto(t, phase, attempt) ==
  call' = [call EXCEPT ![t] = [at |-> phase, attempt |-> attempt, result |-> "none"]]
Return(t, result) ==
  call' = [call EXCEPT ![t] = [at |-> "returned", attempt |-> 0, result |-> result]]
Finish(t) == call' = [call EXCEPT ![t] = Idle]

(* A repository call throws once the connection is closed, or when the     *)
(* database itself fails.                                                  *)
StorageFails == ~open \/ "storage" \in Faults

Init ==
  /\ state = [t \in Tokens |-> "absent"]
  /\ attempts = [t \in Tokens |-> 0]
  /\ memory = [t \in Tokens |-> "unloaded"]
  /\ recent = {}
  /\ waiting = [t \in Tokens |-> 0]
  /\ call = [t \in Tokens |-> Idle]
  /\ request = [t \in Tokens |-> "none"]
  /\ delivered = [t \in Tokens |-> 0]
  /\ open = TRUE
  /\ abandoned = {}

-----------------------------------------------------------------------------
(* PersistenceRepository: the conditional updates of one signals row.      *)

upsertCandidateDecision(t, verdict) ==
  state' = IF state[t] \in Unsent \cup {"absent"}
           THEN [state EXCEPT ![t] = verdict] ELSE state

Move(t, from, to) == state[t] = from /\ state' = [state EXCEPT ![t] = to]

tryMarkDeliveryPending(t) ==
  /\ Move(t, "qualified", "delivery_pending")
  /\ attempts' = [attempts EXCEPT ![t] = @ + 1]

releaseDeliveryForRetry(t) ==
  /\ attempts[t] < MaximumAttempts
  /\ Move(t, "delivery_pending", "qualified")

cancelQualifiedDelivery(t) == Move(t, "qualified", "cancelled")
markDeliveryNotSent(t) == Move(t, "delivery_pending", "cancelled")
markDeliveryUnknown(t) == Move(t, "delivery_pending", "delivery_unknown")
markSent(t) == Move(t, "delivery_pending", "sent")
markConfirmed(t) == Move(t, "sent", "confirmed")

(* Mutants: the restart resumes a pending delivery, or leaves it pending. *)
RecoveryResumes(s) == IF s = "delivery_pending" THEN "qualified" ELSE s
RecoveryForgets(s) == s

(* recoverStartupState: a pending delivery is never resumed.               *)
RecoveredState(s) == IF s = "delivery_pending" THEN "delivery_unknown" ELSE s

-----------------------------------------------------------------------------
(* SignalEngine: processToken and evaluateAndAct.                          *)

(* evaluateDetector: the next states it can decide on from a state.        *)
Verdicts(s) ==
  IF s \in {"delivery_pending", "delivery_unknown", "confirmed"} THEN {s}
  ELSE IF s = "sent" THEN {"sent", "confirmed"}
  ELSE IF s \in {"security_pending", "qualified"} THEN Unsent \ {"observing"}
  ELSE (Unsent \ {"observing"}) \cup {s}

(* inputFor: the state in memory, read from the row on first use.  A row   *)
(* that waits for security without a candidate, as earlier releases wrote, *)
(* is taken for observing; candidates are left out, so any row may be one. *)
Loaded(t) ==
  IF memory[t] # "unloaded" THEN {memory[t]}
  ELSE IF state[t] = "absent" THEN {"observing"}
  ELSE {state[t]} \cup (IF state[t] = "security_pending" THEN {"observing"} ELSE {})
CanLoad(t) == memory[t] # "unloaded" \/ open

Remember(t, s) == memory' = [memory EXCEPT ![t] = s]
Ready(t) == waiting[t] > 0 /\ At(t, "idle")
Dequeue(t) == waiting' = [waiting EXCEPT ![t] = @ - 1]
(* A rejected promise rejects every evaluation chained behind it.          *)
DropQueue(t) == waiting' = [waiting EXCEPT ![t] = 0]

(* A committed market batch asks for an evaluation of the token.           *)
Arrive(t) ==
  /\ open
  /\ waiting[t] < MaxWaiting
  /\ waiting' = [waiting EXCEPT ![t] = @ + 1]
  /\ UNCHANGED <<state, attempts, memory, recent, call, request, delivered, open, abandoned>>

(* inputFor finds no market data for the token.                            *)
EvaluateNothing(t) ==
  /\ Ready(t)
  /\ Dequeue(t)
  /\ UNCHANGED <<state, attempts, memory, recent, call, request, delivered, open, abandoned>>

(* The row cannot be read, or the detector or the upsert throws.           *)
EvaluateThrows(t) ==
  /\ Ready(t)
  /\ \/ CanLoad(t) /\ \E s \in Loaded(t) : Remember(t, s)
     \/ StorageFails /\ UNCHANGED memory
  /\ DropQueue(t)
  /\ UNCHANGED <<state, attempts, recent, call, request, delivered, open, abandoned>>

(* Every verdict that neither publishes nor edits.                         *)
Settle(t) ==
  /\ Ready(t)
  /\ CanLoad(t)
  /\ \E s \in Loaded(t) : \E verdict \in Verdicts(s) \ {"qualified"} :
       /\ ~(verdict = "confirmed" /\ s = "sent")
       /\ \/ verdict \in Unsent /\ open /\ upsertCandidateDecision(t, verdict)
          \/ verdict \in Blocked /\ UNCHANGED state
       /\ Remember(t, verdict)
  /\ Dequeue(t)
  /\ UNCHANGED <<attempts, recent, call, request, delivered, open, abandoned>>

(* Qualified: the row, the memory and the reservation that counts against  *)
(* the noise limits; a token that still holds a reservation is suppressed. *)
Qualify(t) ==
  /\ Ready(t)
  /\ open
  /\ \E s \in Loaded(t) : "qualified" \in Verdicts(s)
  /\ t \notin recent
  /\ upsertCandidateDecision(t, "qualified")
  /\ Remember(t, "qualified")
  /\ recent' = recent \cup {t}
  /\ Goto(t, "publish", 0)
  /\ Dequeue(t)
  /\ UNCHANGED <<attempts, request, delivered, open, abandoned>>

(* Confirmed: memory moves first; confirm() then edits a row that is sent. *)
BeginConfirm(t) ==
  /\ Ready(t)
  /\ CanLoad(t)
  /\ "sent" \in Loaded(t)
  /\ Remember(t, "confirmed")
  /\ \/ /\ open /\ state[t] = "sent"
        /\ Goto(t, "editing", 0) /\ Dequeue(t)
     \/ /\ open /\ state[t] # "sent"
        /\ Dequeue(t) /\ UNCHANGED call
     \/ /\ StorageFails
        /\ DropQueue(t) /\ UNCHANGED call
  /\ UNCHANGED <<state, attempts, recent, request, delivered, open, abandoned>>

(* Mutants: the engine keeps its own verdict, or a failed token's place. *)
KeepVerdict(t) == memory[t]
KeepsUnlessCancelled(result) == result # "cancelled"

Reread(t) == IF state[t] = "absent" THEN memory[t] ELSE state[t]
KeepsReservation(result) == result \in {"sent", "delivery_unknown"}

(* What evaluateAndAct does once publish() has returned.                   *)
AfterPublish(t) ==
  /\ At(t, "returned")
  /\ open
  /\ Remember(t, Reread(t))
  /\ recent' = IF KeepsReservation(call[t].result) THEN recent ELSE recent \ {t}
  /\ Finish(t)
  /\ UNCHANGED <<state, attempts, waiting, request, delivered, open, abandoned>>

-----------------------------------------------------------------------------
(* TelegramPublisher.publish and confirm.                                  *)

(* Mutant: off by one in the cap. *)
ExhaustedLate(t) == attempts[t] > MaximumAttempts

Exhausted(t) == attempts[t] >= MaximumAttempts

BeginPublish(t) ==
  /\ At(t, "publish")
  /\ open
  /\ \/ /\ state[t] # "qualified"
        /\ Return(t, "duplicate") /\ UNCHANGED state
     \/ /\ Exhausted(t)
        /\ cancelQualifiedDelivery(t) /\ Return(t, "not_sent")
     \/ /\ state[t] = "qualified" /\ ~Exhausted(t)
        /\ Goto(t, "recheck", attempts[t] + 1) /\ UNCHANGED state
  /\ UNCHANGED <<attempts, memory, recent, waiting, request, delivered, open, abandoned>>

(* The recheck of the market refuses the card: security, data, liquidity   *)
(* or rendering (no write), or a fresh verdict that it persists.           *)
RecheckFails(t) ==
  /\ At(t, "recheck")
  /\ \/ UNCHANGED state
     \/ /\ open
        /\ \E verdict \in Verdicts(memory[t]) \ {"qualified"} :
             verdict \in Unsent /\ upsertCandidateDecision(t, verdict)
  /\ Goto(t, "cancelling", call[t].attempt)
  /\ UNCHANGED <<attempts, memory, recent, waiting, request, delivered, open, abandoned>>

CancelDelivery(t) ==
  /\ At(t, "cancelling")
  /\ open
  /\ \/ cancelQualifiedDelivery(t) /\ Return(t, "cancelled")
     \/ state[t] # "qualified" /\ UNCHANGED state /\ Return(t, "duplicate")
  /\ UNCHANGED <<attempts, memory, recent, waiting, request, delivered, open, abandoned>>

(* The recheck passes: mark the row pending, then call sendMessage.        *)
Send(t) ==
  /\ At(t, "recheck")
  /\ open
  /\ \/ /\ tryMarkDeliveryPending(t)
        /\ request' = [request EXCEPT ![t] = "sent"]
        /\ Goto(t, "sending", call[t].attempt)
     \/ /\ state[t] # "qualified"
        /\ Return(t, "duplicate")
        /\ UNCHANGED <<state, attempts, request>>
  /\ UNCHANGED <<memory, recent, waiting, delivered, open, abandoned>>

(* sendMessage resolved with a message id and markSent committed.          *)
RecordSent(t) ==
  /\ At(t, "sending")
  /\ request[t] = "accepted"
  /\ open
  /\ markSent(t)
  /\ Return(t, "sent")
  /\ UNCHANGED <<attempts, memory, recent, waiting, request, delivered, open, abandoned>>

(* Mutant: nothing bounds the wait for an answer. *)
AnswerNeverTimesOut(t) ==
  /\ At(t, "sending") /\ request[t] # "sent"
  /\ open /\ markDeliveryUnknown(t)
  /\ Return(t, "delivery_unknown")
  /\ UNCHANGED <<attempts, memory, recent, waiting, request, delivered, open, abandoned>>

(* The connection was lost or timed out, the id is invalid, or markSent    *)
(* failed: markUnknown, whose own failure is swallowed.                    *)
AnswerIsAmbiguous(t) ==
  /\ At(t, "sending")
  /\ \/ open /\ markDeliveryUnknown(t) /\ UNCHANGED abandoned
     \/ /\ StorageFails \/ state[t] # "delivery_pending"
        /\ UNCHANGED state /\ abandoned' = abandoned \cup {t}
  /\ Return(t, "delivery_unknown")
  /\ UNCHANGED <<attempts, memory, recent, waiting, request, delivered, open>>

(* Mutant: a lost answer is retried like a refusal. *)
RetryUnanswered(t) ==
  /\ At(t, "sending") /\ call[t].attempt < MaximumAttempts
  /\ open /\ releaseDeliveryForRetry(t)
  /\ Goto(t, "backoff", call[t].attempt)
  /\ UNCHANGED <<attempts, memory, recent, waiting, request, delivered, open, abandoned>>

(* 429 or 5xx before the last attempt: release the row and sleep.          *)
RetryLater(t) ==
  /\ At(t, "sending")
  /\ request[t] = "refused"
  /\ call[t].attempt < MaximumAttempts
  /\ open
  /\ releaseDeliveryForRetry(t)
  /\ Goto(t, "backoff", call[t].attempt)
  /\ UNCHANGED <<attempts, memory, recent, waiting, request, delivered, open, abandoned>>

BackoffEnds(t) ==
  /\ At(t, "backoff")
  /\ Goto(t, "recheck", call[t].attempt + 1)
  /\ UNCHANGED <<state, attempts, memory, recent, waiting, request, delivered, open, abandoned>>

(* A refusal that is not retryable, or the last attempt.                   *)
GiveUp(t) ==
  /\ At(t, "sending")
  /\ request[t] = "refused"
  /\ open
  /\ markDeliveryNotSent(t)
  /\ Return(t, "not_sent")
  /\ UNCHANGED <<attempts, memory, recent, waiting, request, delivered, open, abandoned>>

(* A repository call of publish(), or the read after it, throws: the       *)
(* evaluation is abandoned, with its reservation and the queue behind it.  *)
PublishThrows(t) ==
  /\ StorageFails
  /\ \/ call[t].at \in {"publish", "recheck", "cancelling", "returned"}
     \/ At(t, "sending") /\ request[t] = "refused"
  /\ Finish(t)
  /\ DropQueue(t)
  /\ abandoned' = abandoned \cup {t}
  /\ UNCHANGED <<state, attempts, memory, recent, request, delivered, open>>

(* The card was edited (or already was): markConfirmed.                    *)
EditSucceeds(t) ==
  /\ At(t, "editing")
  /\ open
  /\ markConfirmed(t)
  /\ Remember(t, "confirmed")
  /\ Finish(t)
  /\ UNCHANGED <<attempts, recent, waiting, request, delivered, open, abandoned>>

(* The edit or markConfirmed failed: confirm() only returns false.         *)
EditFails(t) ==
  /\ At(t, "editing")
  /\ Finish(t)
  /\ UNCHANGED <<state, attempts, memory, recent, waiting, request, delivered, open, abandoned>>

-----------------------------------------------------------------------------
(* Telegram, and the life of the process.                                  *)

TelegramAccepts(t) ==
  /\ request[t] = "sent"
  /\ request' = [request EXCEPT ![t] = "accepted"]
  /\ delivered' = [delivered EXCEPT ![t] = @ + 1]
  /\ UNCHANGED process

(* A refusal; a 5xx may hide that the message was accepted all the same.   *)
Hidden == IF "late_5xx" \in Faults THEN {0, 1} ELSE {0}
TelegramRefuses(t) ==
  /\ request[t] = "sent"
  /\ request' = [request EXCEPT ![t] = "refused"]
  /\ \E n \in Hidden : delivered' = [delivered EXCEPT ![t] = @ + n]
  /\ UNCHANGED process

Shutdown ==
  /\ "shutdown" \in Faults
  /\ open
  /\ open' = FALSE
  /\ UNCHANGED <<state, attempts, memory, recent, waiting, call, request, delivered, abandoned>>

Drained == \A t \in Tokens : At(t, "idle") /\ waiting[t] = 0

(* The next process reads the rows back: pending becomes unknown, and the  *)
(* signals sent in the last minute (any subset, time is abstracted) refill *)
(* recentSignals.  A request already on the wire may still be accepted.    *)
Restart ==
  /\ "crash" \in Faults \/ (~open /\ Drained)
  /\ state' = [t \in Tokens |-> RecoveredState(state[t])]
  /\ recent' \in SUBSET {t \in Tokens : state[t] \in {"sent", "confirmed"}}
  /\ memory' = [t \in Tokens |-> "unloaded"]
  /\ waiting' = [t \in Tokens |-> 0]
  /\ call' = [t \in Tokens |-> Idle]
  /\ open' = TRUE
  /\ abandoned' = {}
  /\ UNCHANGED <<attempts, request, delivered>>

Evaluate(t) ==
  \/ EvaluateNothing(t) \/ EvaluateThrows(t) \/ Settle(t)
  \/ Qualify(t) \/ BeginConfirm(t) \/ AfterPublish(t)

Publish(t) ==
  \/ BeginPublish(t) \/ RecheckFails(t) \/ CancelDelivery(t) \/ Send(t)
  \/ RecordSent(t) \/ AnswerIsAmbiguous(t) \/ RetryLater(t) \/ BackoffEnds(t)
  \/ GiveUp(t) \/ PublishThrows(t) \/ EditSucceeds(t) \/ EditFails(t)

Telegram(t) == TelegramAccepts(t) \/ TelegramRefuses(t)

Next ==
  \/ \E t \in Tokens : Arrive(t) \/ Evaluate(t) \/ Publish(t) \/ Telegram(t)
  \/ Shutdown
  \/ Restart

Spec == Init /\ [][Next]_vars

(* The event loop runs every continuation that is ready; grammY settles    *)
(* every request, with an error at its own timeout if need be, so an       *)
(* answer that is at least ambiguous always comes.                         *)
Fairness == \A t \in Tokens : WF_vars(Evaluate(t) \/ Publish(t))

FairSpec == Spec /\ Fairness

(* The best case for a confirmation: the market never stops asking, and an *)
(* edit that is tried again and again succeeds in the end.                 *)
KindSpec ==
  FairSpec /\ \A t \in Tokens : WF_vars(Arrive(t)) /\ SF_vars(EditSucceeds(t))

-----------------------------------------------------------------------------
(* Properties. *)

(* The type of every variable; attempts never pass the cap of three, which *)
(* no statement of tryMarkDeliveryPending enforces by itself.              *)
TypeOK ==
  /\ state \in [Tokens -> SignalStates \cup {"absent"}]
  /\ attempts \in [Tokens -> 0..MaximumAttempts]
  /\ memory \in [Tokens -> SignalStates \cup {"unloaded"}]
  /\ recent \subseteq Tokens
  /\ waiting \in [Tokens -> 0..MaxWaiting]
  /\ call \in [Tokens -> [at : Phases, attempt : 0..MaximumAttempts, result : Results]]
  /\ request \in [Tokens -> {"none", "sent", "accepted", "refused"}]
  /\ delivered \in [Tokens -> Nat]
  /\ open \in BOOLEAN
  /\ abandoned \subseteq Tokens

(* However often a token qualifies, is cancelled, retried or interrupted   *)
(* by a crash, the chat gets at most one first signal for it.              *)
AtMostOneMessage == \A t \in Tokens : delivered[t] <= 1

(* A message that may still reach the chat, or has, keeps its token in one *)
(* of the states that block another first send.                            *)
LiveRequestBlocks ==
  \A t \in Tokens : request[t] \in {"sent", "accepted"} => state[t] \in Blocked

(* The loop counter of publish() and delivery_attempts, which are kept     *)
(* apart, count the same attempts; the cap in the loop is the only one.    *)
AttemptsAgree ==
  \A t \in Tokens :
    /\ At(t, "recheck") => call[t].attempt = attempts[t] + 1
    /\ At(t, "sending") => call[t].attempt = attempts[t]
    /\ At(t, "backoff") => call[t].attempt = attempts[t] /\ attempts[t] < MaximumAttempts

(* The statistics and the confirmation edit rely on sent and confirmed     *)
(* rows standing for a message that is really in the chat.                 *)
SentMeansDelivered ==
  \A t \in Tokens :
    state[t] \in {"sent", "confirmed"} => delivered[t] = 1 /\ request[t] = "accepted"

(* No step, restarts included, takes a token out of delivery_unknown, sent *)
(* or confirmed, other than to confirm what was sent.                      *)
Settled(t) ==
  /\ state[t] = "sent" => state'[t] \in {"sent", "confirmed"}
  /\ state[t] \in {"delivery_unknown", "confirmed"} => state'[t] = state[t]
SettledStaysSettled == [][\A t \in Tokens : Settled(t)]_vars

(* While a delivery is being attempted it holds its place under the noise  *)
(* limits, and a place is not kept for a token that was never sent: a      *)
(* reservation is lost or leaked only when a repository error has cut the  *)
(* delivery of that very token short.                                      *)
Publishing(t) == call[t].at \in Phases \ {"idle", "editing"}
ReservationMatchesDelivery ==
  \A t \in Tokens :
    /\ Publishing(t) => t \in recent
    /\ t \in recent => Publishing(t) \/ state[t] \in Blocked \/ t \in abandoned

(* Between evaluations the engine and the row agree, so that the next      *)
(* verdict starts from what was persisted; the gaps the code leaves are a  *)
(* confirmation whose edit failed and a delivery cut short by the database. *)
EngineAgreesWithRow ==
  \A t \in Tokens :
    At(t, "idle") /\ memory[t] \notin {"unloaded", "observing"} =>
      \/ memory[t] = state[t] \/ t \in abandoned
      \/ memory[t] = "confirmed" /\ state[t] = "sent"

(* An evaluation that has started always ends and frees the token's lock:  *)
(* neither the retry loop nor an unanswered request holds it for ever.     *)
EvaluationEnds == \A t \in Tokens : ~At(t, "idle") ~> At(t, "idle")

(* delivery_pending is a passing state: an answer, or the next start, ends *)
(* it, unless the database failed to record the answer.                    *)
PendingIsResolved ==
  \A t \in Tokens :
    state[t] = "delivery_pending" ~> state[t] # "delivery_pending" \/ t \in abandoned

(* telegram-signal-delivery/spec.md: a sent signal that meets the double   *)
(* rank is updated from its first state to the confirmed one.              *)
ConfirmationReachesCard ==
  \A t \in Tokens : memory[t] = "confirmed" ~> state[t] = "confirmed"

(* What the delivery promises, read off its state.                         *)
Gate(s) == IF s = "delivery_pending" THEN "trying"
           ELSE IF s = "delivery_unknown" THEN "shut"
           ELSE IF s \in {"sent", "confirmed"} THEN "done" ELSE "open"
gateBar == [t \in Tokens |-> Gate(state[t])]
Promise == INSTANCE FirstSignal WITH
             gate <- gateBar, tries <- attempts, messages <- delivered
ImplementsFirstSignal == Promise!FirstSpec
=============================================================================
