----------------------- MODULE SignalDelivery_proofs -----------------------
(***************************************************************************)
(* Theorems about SignalDelivery, for every set of tokens, every queue     *)
(* bound and every set of failures, save the one that Telegram answers 5xx *)
(* for a message it has accepted.  First the row and the chat, then the    *)
(* engine: its memory, its reservations and the row agree.                 *)
(***************************************************************************)
EXTENDS SignalDelivery, TLAPS

(* The loop of publish() keeps the attempts within the cap.                *)
TypedAttempts == TypeOK /\ AttemptsAgree

(* At most one message is on the wire or in the chat, and only while the   *)
(* row blocks another first send.                                          *)
OneRequest ==
  /\ LiveRequestBlocks
  /\ SentMeansDelivered
  /\ \A t \in Tokens : delivered[t] = IF request[t] = "accepted" THEN 1 ELSE 0

Honest == "late_5xx" \notin Faults

-----------------------------------------------------------------------------
(* Every verdict is a signal state, and unsent states only lead to unsent. *)
LEMMA VerdictsAreStates ==
  ASSUME NEW s \in SignalStates PROVE Verdicts(s) \subseteq SignalStates
BY DEF Verdicts, SignalStates, Unsent, Blocked

(* What the engine has in memory, or loads, is a signal state.             *)
LEMMA LoadedIsState ==
  ASSUME TypeOK, NEW t \in Tokens PROVE Loaded(t) \subseteq SignalStates
BY DEF TypeOK, Loaded, SignalStates, Unsent, Blocked

(* The writes of call and state that the actions share keep their types.   *)
CallsTyped == call \in [Tokens -> [at : Phases, attempt : 0..MaximumAttempts, result : Results]]
StatesTyped == state \in [Tokens -> SignalStates \cup {"absent"}]

LEMMA GotoTyped ==
  ASSUME CallsTyped, NEW t \in Tokens, NEW phase \in Phases,
         NEW n \in 0..MaximumAttempts, Goto(t, phase, n)
  PROVE  /\ CallsTyped'
         /\ call'[t].at = phase /\ call'[t].attempt = n
         /\ \A u \in Tokens \ {t} : call'[u] = call[u]
BY DEF CallsTyped, Goto, Results

LEMMA ReturnTyped ==
  ASSUME CallsTyped, NEW t \in Tokens, NEW result \in Results, Return(t, result)
  PROVE  /\ CallsTyped'
         /\ call'[t].at = "returned"
         /\ \A u \in Tokens \ {t} : call'[u] = call[u]
BY DEF CallsTyped, Return, Phases, MaximumAttempts

LEMMA MoveTyped ==
  ASSUME StatesTyped, NEW t \in Tokens, NEW from, NEW to \in SignalStates, Move(t, from, to)
  PROVE  StatesTyped'
BY DEF StatesTyped, Move

(* The variables are typed and the two counts of attempts agree, so the    *)
(* cap of three attempts holds across every retry, restart and requalified *)
(* candidate although tryMarkDeliveryPending does not check it.            *)
THEOREM AttemptsBounded == Spec => [](TypeOK /\ AttemptsAgree)
<1>1. Init => TypedAttempts
  BY MaxWaitingAssumption DEF Init, TypedAttempts, TypeOK, AttemptsAgree, At, Idle,
     Phases, Results, MaximumAttempts
<1>2. TypedAttempts /\ [Next]_vars => TypedAttempts'
  <2> SUFFICES ASSUME TypedAttempts, [Next]_vars PROVE TypedAttempts'
    OBVIOUS
  <2> USE MaxWaitingAssumption DEF TypedAttempts, TypeOK, AttemptsAgree, At, MaximumAttempts
  <2>1. ASSUME NEW t \in Tokens, Arrive(t) PROVE TypedAttempts'
    BY <2>1 DEF Arrive
  <2>2. ASSUME NEW t \in Tokens, Evaluate(t) PROVE TypedAttempts'
    <3>0. \A s \in Loaded(t) : s \in SignalStates /\ Verdicts(s) \subseteq SignalStates
      BY LoadedIsState, VerdictsAreStates
    <3>1. CASE EvaluateNothing(t)
      BY <3>1 DEF EvaluateNothing, Ready, Dequeue
    <3>2. CASE EvaluateThrows(t)
      BY <3>0, <3>2 DEF EvaluateThrows, Ready, DropQueue, Remember
    <3>3. CASE Settle(t)
      <4>1. PICK verdict \in SignalStates :
              /\ \/ verdict \in Unsent /\ upsertCandidateDecision(t, verdict)
                 \/ UNCHANGED state
              /\ Remember(t, verdict)
        BY <3>0, <3>3 DEF Settle
      <4> QED BY <3>3, <4>1 DEF Settle, Ready, Dequeue, Remember, upsertCandidateDecision
    <3>4. CASE Qualify(t)
      BY <3>0, <3>4 DEF Qualify, Ready, Dequeue, Remember, upsertCandidateDecision,
         Goto, Phases, Results, SignalStates, Unsent
    <3>5. CASE BeginConfirm(t)
      <4>1. CASE Goto(t, "editing", 0) /\ Dequeue(t)
        <5>1. CallsTyped' /\ call'[t].at = "editing" /\ \A u \in Tokens \ {t} : call'[u] = call[u]
          BY <4>1, GotoTyped DEF CallsTyped, Phases
        <5>2. waiting' \in [Tokens -> 0..MaxWaiting]
          BY <3>5, <4>1 DEF BeginConfirm, Ready, Dequeue
        <5>3. memory' \in [Tokens -> SignalStates \cup {"unloaded"}]
          BY <3>5 DEF BeginConfirm, Remember, SignalStates, Blocked
        <5>4. UNCHANGED <<state, attempts, recent, request, delivered, open, abandoned>>
          BY <3>5 DEF BeginConfirm
        <5> QED BY <5>1, <5>2, <5>3, <5>4 DEF CallsTyped
      <4>2. CASE (Dequeue(t) \/ DropQueue(t)) /\ UNCHANGED call
        BY <3>5, <4>2 DEF BeginConfirm, Ready, Dequeue, DropQueue, Remember,
           SignalStates, Blocked
      <4> QED BY <3>5, <4>1, <4>2 DEF BeginConfirm
    <3>6. CASE AfterPublish(t)
      BY <3>6 DEF AfterPublish, Remember, Reread, Finish, Idle, Phases, Results
    <3> QED BY <2>2, <3>1, <3>2, <3>3, <3>4, <3>5, <3>6 DEF Evaluate
  <2>3. ASSUME NEW t \in Tokens, Publish(t) PROVE TypedAttempts'
    <3> USE DEF Phases, Results, SignalStates, Unsent, Blocked
    <3>0. CallsTyped /\ StatesTyped
      BY DEF CallsTyped, StatesTyped
    <3>1. CASE BeginPublish(t)
      <4>1. StatesTyped'
        BY <3>0, <3>1, MoveTyped DEF BeginPublish, cancelQualifiedDelivery, StatesTyped
      <4>2. CASE Return(t, "duplicate") \/ Return(t, "not_sent")
        BY <3>0, <3>1, <4>1, <4>2, ReturnTyped DEF BeginPublish, CallsTyped, StatesTyped
      <4>3. CASE Goto(t, "recheck", attempts[t] + 1) /\ ~Exhausted(t)
        <5>1. attempts[t] + 1 \in 0..MaximumAttempts
          BY <4>3 DEF Exhausted
        <5>2. /\ CallsTyped'
              /\ call'[t].at = "recheck" /\ call'[t].attempt = attempts[t] + 1
              /\ \A u \in Tokens \ {t} : call'[u] = call[u]
          BY <3>0, <4>3, <5>1, GotoTyped
        <5> QED BY <3>1, <4>1, <5>2 DEF BeginPublish, CallsTyped, StatesTyped
      <4> QED BY <3>1, <4>2, <4>3 DEF BeginPublish
    <3>2. CASE RecheckFails(t)
      <4>1. \A verdict \in Unsent : upsertCandidateDecision(t, verdict)
               => state' \in [Tokens -> SignalStates \cup {"absent"}]
        BY DEF upsertCandidateDecision
      <4> QED BY <3>2, <4>1 DEF RecheckFails, Goto
    <3>3. CASE CancelDelivery(t)
      <4>1. StatesTyped'
        BY <3>0, <3>3, MoveTyped DEF CancelDelivery, cancelQualifiedDelivery, StatesTyped
      <4>2. /\ CallsTyped'
            /\ call'[t].at = "returned"
            /\ \A u \in Tokens \ {t} : call'[u] = call[u]
        BY <3>0, <3>3, ReturnTyped DEF CancelDelivery
      <4> QED BY <3>3, <4>1, <4>2 DEF CancelDelivery, CallsTyped, StatesTyped
    <3>4. CASE Send(t)
      <4>1. CASE /\ tryMarkDeliveryPending(t)
                 /\ request' = [request EXCEPT ![t] = "sent"]
                 /\ Goto(t, "sending", call[t].attempt)
        <5>1. call[t].attempt = attempts[t] + 1
          BY <3>4 DEF Send
        <5>2. /\ CallsTyped'
              /\ call'[t].at = "sending" /\ call'[t].attempt = attempts[t] + 1
              /\ \A u \in Tokens \ {t} : call'[u] = call[u]
          BY <3>0, <4>1, <5>1, GotoTyped DEF CallsTyped
        <5>3. StatesTyped'
          BY <3>0, <4>1, MoveTyped DEF tryMarkDeliveryPending
        <5>4. attempts' = [attempts EXCEPT ![t] = call[t].attempt]
          BY <4>1, <5>1 DEF tryMarkDeliveryPending
        <5> QED BY <3>4, <4>1, <5>1, <5>2, <5>3, <5>4 DEF Send, CallsTyped, StatesTyped
      <4>2. CASE Return(t, "duplicate") /\ UNCHANGED <<state, attempts, request>>
        BY <3>0, <3>4, <4>2, ReturnTyped DEF Send, CallsTyped
      <4> QED BY <3>4, <4>1, <4>2 DEF Send
    <3>5. CASE RecordSent(t)
      BY <3>5 DEF RecordSent, Return, markSent, Move
    <3>6. CASE AnswerIsAmbiguous(t)
      BY <3>6 DEF AnswerIsAmbiguous, Return, markDeliveryUnknown, Move
    <3>7. CASE RetryLater(t)
      BY <3>7 DEF RetryLater, Goto, releaseDeliveryForRetry, Move
    <3>8. CASE BackoffEnds(t)
      BY <3>8 DEF BackoffEnds, Goto
    <3>9. CASE GiveUp(t)
      BY <3>9 DEF GiveUp, Return, markDeliveryNotSent, Move
    <3>10. CASE PublishThrows(t)
      BY <3>10 DEF PublishThrows, Finish, Idle, DropQueue
    <3>11. CASE EditSucceeds(t)
      BY <3>11 DEF EditSucceeds, markConfirmed, Move, Remember, Finish, Idle
    <3>12. CASE EditFails(t)
      BY <3>12 DEF EditFails, Finish, Idle
    <3> QED BY <2>3, <3>1, <3>2, <3>3, <3>4, <3>5, <3>6, <3>7, <3>8, <3>9, <3>10,
               <3>11, <3>12 DEF Publish
  <2>4. ASSUME NEW t \in Tokens, Telegram(t) PROVE TypedAttempts'
    <3>1. /\ UNCHANGED process
          /\ request' \in [Tokens -> {"none", "sent", "accepted", "refused"}]
          /\ delivered' \in [Tokens -> Nat]
      BY <2>4 DEF Telegram, TelegramAccepts, TelegramRefuses, Hidden
    <3> QED BY <3>1 DEF process
  <2>5. CASE Shutdown
    BY <2>5 DEF Shutdown
  <2>6. CASE Restart
    BY <2>6 DEF Restart, RecoveredState, Idle, Phases, Results, SignalStates, Blocked
  <2>7. CASE UNCHANGED vars
    BY <2>7 DEF vars
  <2> QED BY <2>1, <2>2, <2>3, <2>4, <2>5, <2>6, <2>7 DEF Next
<1> QED BY <1>1, <1>2, PTL DEF Spec, TypedAttempts

-----------------------------------------------------------------------------
(* What a step may do to one row, once repositories guard every update: a  *)
(* blocked row is left by no upsert, and left by the publisher only with a *)
(* definite refusal in hand.                                               *)
LEMMA UpsertKeepsBlocked ==
  ASSUME TypeOK, NEW t \in Tokens, NEW verdict \in Unsent, upsertCandidateDecision(t, verdict)
  PROVE  /\ \A u \in Tokens : state[u] \in Blocked => state'[u] = state[u]
         /\ \A u \in Tokens : state[u] \notin Blocked => state'[u] \notin Blocked
BY DEF TypeOK, upsertCandidateDecision, Unsent, Blocked, SignalStates

LEMMA MoveOne ==
  ASSUME TypeOK, NEW t \in Tokens, NEW from, NEW to, Move(t, from, to)
  PROVE  state[t] = from /\ state'[t] = to /\ \A u \in Tokens \ {t} : state'[u] = state[u]
BY DEF TypeOK, Move

(* Rows and requests before and after a step, one token at a time.         *)
Same(u) == state'[u] = state[u] /\ request'[u] = request[u] /\ delivered'[u] = delivered[u]
BlockedKept(u) ==
  /\ state[u] \in Blocked => state'[u] = state[u]
  /\ state[u] \notin Blocked => state'[u] \notin Blocked
  /\ request'[u] = request[u] /\ delivered'[u] = delivered[u]

TokenOK(u) ==
  /\ request[u] \in {"sent", "accepted"} => state[u] \in Blocked
  /\ state[u] \in {"sent", "confirmed"} => delivered[u] = 1 /\ request[u] = "accepted"
  /\ delivered[u] = IF request[u] = "accepted" THEN 1 ELSE 0

LEMMA OneRequestIsTokenOK == OneRequest <=> \A u \in Tokens : TokenOK(u)
BY DEF OneRequest, TokenOK, LiveRequestBlocks, SentMeansDelivered

LEMMA KeptIsOK ==
  ASSUME NEW u \in Tokens, TokenOK(u), BlockedKept(u) \/ Same(u)
  PROVE  TokenOK(u)'
BY DEF TokenOK, BlockedKept, Same, Blocked

(* A step of the engine leaves every blocked row and every request alone.  *)
LEMMA EngineStep ==
  ASSUME TypeOK, NEW t \in Tokens, Arrive(t) \/ Evaluate(t)
  PROVE  \A u \in Tokens : BlockedKept(u)
<1>1. CASE Settle(t)
  <2>1. PICK verdict \in SignalStates :
          \/ verdict \in Unsent /\ upsertCandidateDecision(t, verdict)
          \/ UNCHANGED state
    BY <1>1, LoadedIsState, VerdictsAreStates DEF Settle
  <2> QED BY <1>1, <2>1, UpsertKeepsBlocked DEF Settle, BlockedKept
<1>2. CASE Qualify(t)
  <2>1. "qualified" \in Unsent
    BY DEF Unsent
  <2> QED BY <1>2, <2>1, UpsertKeepsBlocked DEF Qualify, BlockedKept
<1>3. CASE Arrive(t) \/ EvaluateNothing(t) \/ EvaluateThrows(t) \/ BeginConfirm(t) \/ AfterPublish(t)
  BY <1>3 DEF Arrive, EvaluateNothing, EvaluateThrows, BeginConfirm, AfterPublish, BlockedKept
<1> QED BY <1>1, <1>2, <1>3 DEF Evaluate

(* A step of the publisher sends only from an unblocked row, and unblocks  *)
(* a row only when its request was refused.                                *)
LEMMA PublisherStep ==
  ASSUME TypeOK, NEW t \in Tokens, Publish(t), \A u \in Tokens : TokenOK(u)
  PROVE  \A u \in Tokens : TokenOK(u)'
<1> USE DEF Blocked
<1>1. CASE BeginPublish(t) \/ CancelDelivery(t)
  <2>1. UNCHANGED state \/ Move(t, "qualified", "cancelled")
    BY <1>1 DEF BeginPublish, CancelDelivery, cancelQualifiedDelivery
  <2>2. \A u \in Tokens : BlockedKept(u)
    BY <1>1, <2>1, MoveOne DEF BeginPublish, CancelDelivery, BlockedKept
  <2> QED BY <2>2, KeptIsOK
<1>2. CASE RecheckFails(t)
  <2>1. \A u \in Tokens : BlockedKept(u)
    BY <1>2, UpsertKeepsBlocked DEF RecheckFails, BlockedKept
  <2> QED BY <2>1, KeptIsOK
<1>3. CASE Send(t)
  <2>1. CASE Return(t, "duplicate") /\ UNCHANGED <<state, attempts, request>>
    BY <1>3, <2>1, KeptIsOK DEF Send, Same
  <2>2. CASE tryMarkDeliveryPending(t) /\ request' = [request EXCEPT ![t] = "sent"]
    <3>1. /\ state[t] = "qualified" /\ state'[t] = "delivery_pending"
          /\ \A u \in Tokens \ {t} : state'[u] = state[u]
      BY <2>2, MoveOne DEF tryMarkDeliveryPending
    <3>2. /\ request'[t] = "sent" /\ UNCHANGED delivered
          /\ \A u \in Tokens \ {t} : request'[u] = request[u]
      BY <1>3, <2>2 DEF Send, TypeOK
    <3>3. delivered[t] = 0
      BY <3>1 DEF TokenOK
    <3>4. TokenOK(t)'
      BY <3>1, <3>2, <3>3 DEF TokenOK
    <3> QED BY <3>1, <3>2, <3>4, KeptIsOK DEF Same
  <2> QED BY <1>3, <2>1, <2>2 DEF Send
<1>4. CASE RecordSent(t) \/ EditSucceeds(t)
  <2>1. /\ Move(t, "delivery_pending", "sent") /\ request[t] = "accepted"
        \/ Move(t, "sent", "confirmed")
    BY <1>4 DEF RecordSent, EditSucceeds, markSent, markConfirmed
  <2>2. UNCHANGED <<request, delivered>>
    BY <1>4 DEF RecordSent, EditSucceeds
  <2>3. TokenOK(t)'
    BY <2>1, <2>2, MoveOne DEF TokenOK
  <2> QED BY <2>1, <2>2, <2>3, MoveOne, KeptIsOK DEF Same
<1>5. CASE AnswerIsAmbiguous(t)
  <2>1. UNCHANGED state \/ Move(t, "delivery_pending", "delivery_unknown")
    BY <1>5 DEF AnswerIsAmbiguous, markDeliveryUnknown
  <2>2. UNCHANGED <<request, delivered>>
    BY <1>5 DEF AnswerIsAmbiguous
  <2>3. TokenOK(t)'
    BY <2>1, <2>2, MoveOne DEF TokenOK
  <2> QED BY <2>1, <2>2, <2>3, MoveOne, KeptIsOK DEF Same
<1>6. CASE RetryLater(t) \/ GiveUp(t)
  <2>1. Move(t, "delivery_pending", "qualified") \/ Move(t, "delivery_pending", "cancelled")
    BY <1>6 DEF RetryLater, GiveUp, releaseDeliveryForRetry, markDeliveryNotSent
  <2>2. request[t] = "refused" /\ UNCHANGED <<request, delivered>>
    BY <1>6 DEF RetryLater, GiveUp
  <2>3. TokenOK(t)'
    BY <2>1, <2>2, MoveOne DEF TokenOK
  <2> QED BY <2>1, <2>2, <2>3, MoveOne, KeptIsOK DEF Same
<1>7. CASE BackoffEnds(t) \/ PublishThrows(t) \/ EditFails(t)
  BY <1>7, KeptIsOK DEF BackoffEnds, PublishThrows, EditFails, Same
<1> QED BY <1>1, <1>2, <1>3, <1>4, <1>5, <1>6, <1>7 DEF Publish

LEMMA TelegramStep ==
  ASSUME Honest, TypeOK, NEW t \in Tokens, Telegram(t), \A u \in Tokens : TokenOK(u)
  PROVE  \A u \in Tokens : TokenOK(u)'
<1>1. TelegramAccepts(t) \/ TelegramRefuses(t)
  BY DEF Telegram
<1>2. /\ request[t] = "sent"
      /\ \/ request'[t] = "accepted" /\ delivered'[t] = delivered[t] + 1
         \/ request'[t] = "refused" /\ delivered'[t] = delivered[t]
      /\ state' = state
      /\ \A u \in Tokens \ {t} : request'[u] = request[u] /\ delivered'[u] = delivered[u]
  BY <1>1 DEF TelegramAccepts, TelegramRefuses, Hidden, Honest, TypeOK, process
<1>3. TokenOK(t)'
  BY <1>2 DEF TokenOK, Blocked
<1> QED BY <1>2, <1>3, KeptIsOK DEF Same

LEMMA OneRequestStep ==
  ASSUME Honest, TypeOK, OneRequest, [Next]_vars PROVE OneRequest'
<1>1. \A u \in Tokens : TokenOK(u)
  BY OneRequestIsTokenOK
<1>2. \A u \in Tokens : TokenOK(u)'
  <2>1. ASSUME NEW t \in Tokens, Arrive(t) \/ Evaluate(t) PROVE \A u \in Tokens : TokenOK(u)'
    BY <1>1, <2>1, EngineStep, KeptIsOK
  <2>2. ASSUME NEW t \in Tokens, Publish(t) PROVE \A u \in Tokens : TokenOK(u)'
    BY <1>1, <2>2, PublisherStep
  <2>3. ASSUME NEW t \in Tokens, Telegram(t) PROVE \A u \in Tokens : TokenOK(u)'
    BY <1>1, <2>3, TelegramStep
  <2>4. CASE Shutdown \/ UNCHANGED vars
    BY <1>1, <2>4, KeptIsOK DEF Shutdown, vars, Same
  <2>5. CASE Restart
    BY <1>1, <2>5 DEF Restart, RecoveredState, TokenOK, Blocked
  <2> QED BY <2>1, <2>2, <2>3, <2>4, <2>5 DEF Next
<1> QED BY <1>2 DEF OneRequest, TokenOK, LiveRequestBlocks, SentMeansDelivered

LEMMA OneRequestAlways == ASSUME Honest PROVE Spec => []OneRequest
<1>1. Init => OneRequest
  BY DEF Init, OneRequest, LiveRequestBlocks, SentMeansDelivered
<1>2. TypeOK /\ OneRequest /\ [Next]_vars => OneRequest'
  BY OneRequestStep
<1> QED BY <1>1, <1>2, AttemptsBounded, PTL DEF Spec

(* The headline: if Telegram never reports 5xx for a message it accepted,  *)
(* no sequence of retries, crashes, restarts, storage failures and         *)
(* shutdowns puts two first signals of a token in the chat.                *)
THEOREM OneFirstSignal == ASSUME Honest PROVE Spec => []AtMostOneMessage
<1>1. OneRequest => AtMostOneMessage
  <2> SUFFICES ASSUME OneRequest, NEW t \in Tokens PROVE delivered[t] <= 1
    BY DEF AtMostOneMessage
  <2>1. delivered[t] \in {0, 1}
    BY DEF OneRequest
  <2> QED BY <2>1
<1> QED BY <1>1, OneRequestAlways, PTL

-----------------------------------------------------------------------------
(* An action property: it needs what the upserts and moves do, and no      *)
(* invariant beyond the types.                                             *)
LEMMA SettledStep == ASSUME TypeOK, [Next]_vars PROVE \A u \in Tokens : Settled(u)
<1>1. ASSUME NEW t \in Tokens, Arrive(t) \/ Evaluate(t) PROVE \A u \in Tokens : Settled(u)
  BY <1>1, EngineStep DEF BlockedKept, Settled, Blocked
<1>2. ASSUME NEW t \in Tokens, RecheckFails(t) PROVE \A u \in Tokens : Settled(u)
  BY <1>2, UpsertKeepsBlocked DEF RecheckFails, Settled, Blocked
<1>3. ASSUME NEW t \in Tokens, Publish(t), ~RecheckFails(t) PROVE \A u \in Tokens : Settled(u)
  <2>1. \/ UNCHANGED state
        \/ \E to \in SignalStates : Move(t, "qualified", to) \/ Move(t, "delivery_pending", to)
        \/ Move(t, "sent", "confirmed")
    BY <1>3 DEF Publish, BeginPublish, CancelDelivery, Send, RecordSent, AnswerIsAmbiguous,
       RetryLater, BackoffEnds, GiveUp, PublishThrows, EditSucceeds, EditFails,
       cancelQualifiedDelivery, tryMarkDeliveryPending, markSent, markDeliveryUnknown,
       releaseDeliveryForRetry, markDeliveryNotSent, markConfirmed,
       SignalStates, Unsent, Blocked
  <2> QED BY <2>1, MoveOne DEF Settled
<1>4. ASSUME NEW t \in Tokens, Telegram(t) PROVE \A u \in Tokens : Settled(u)
  BY <1>4 DEF Telegram, TelegramAccepts, TelegramRefuses, process, Settled
<1>5. CASE Shutdown \/ UNCHANGED vars
  BY <1>5 DEF Shutdown, vars, Settled
<1>6. CASE Restart
  BY <1>6 DEF Restart, RecoveredState, Settled
<1> QED BY <1>1, <1>2, <1>3, <1>4, <1>5, <1>6 DEF Next

(* delivery_unknown, sent and confirmed are never left for a state from    *)
(* which a first signal could be sent, whatever fails.                     *)
THEOREM SettledForGood == Spec => SettledStaysSettled
<1>1. TypeOK /\ [Next]_vars => [\A t \in Tokens : Settled(t)]_vars
  BY SettledStep
<1> QED BY <1>1, AttemptsBounded, PTL DEF Spec, SettledStaysSettled

-----------------------------------------------------------------------------
(* The delivery implements FirstSignal. *)

LEMMA GateOfRow ==
  /\ \A s \in Unsent \cup {"absent"} : Gate(s) = "open"
  /\ Gate("delivery_pending") = "trying" /\ Gate("delivery_unknown") = "shut"
  /\ Gate("sent") = "done" /\ Gate("confirmed") = "done"
BY DEF Gate, Unsent

(* Steps that only move rows within one gate are invisible to FirstSignal. *)
LEMMA KeptIsStutter ==
  ASSUME TypeOK, TypeOK', \A u \in Tokens : BlockedKept(u), attempts' = attempts
  PROVE  UNCHANGED <<gateBar, attempts, delivered>>
<1>1. \A u \in Tokens : Gate(state'[u]) = Gate(state[u])
  <2> TAKE u \in Tokens
  <2>1. CASE state[u] \in Blocked
    BY <2>1 DEF BlockedKept
  <2>2. CASE state[u] \notin Blocked
    <3>1. state[u] \in Unsent \cup {"absent"} /\ state'[u] \in Unsent \cup {"absent"}
      BY <2>2 DEF BlockedKept, TypeOK, SignalStates
    <3> QED BY <3>1, GateOfRow
  <2> QED BY <2>1, <2>2
<1>2. gateBar' = gateBar
  BY <1>1 DEF gateBar
<1>3. delivered' = delivered
  BY DEF TypeOK, BlockedKept
<1> QED BY <1>2, <1>3

LEMMA MovedGate ==
  ASSUME TypeOK, NEW t \in Tokens, NEW from, NEW to, Move(t, from, to)
  PROVE  gateBar[t] = Gate(from) /\ gateBar' = [gateBar EXCEPT ![t] = Gate(to)]
BY MoveOne DEF gateBar

PromiseStep == [Promise!FirstNext]_<<gateBar, attempts, delivered>>

LEMMA OneTokenStep ==
  ASSUME NEW t \in Tokens,
         Promise!Try(t) \/ Promise!Land(t) \/ Promise!Refuse(t) \/ Promise!Acknowledge(t)
  PROVE  PromiseStep
BY DEF PromiseStep, Promise!FirstNext

LEMMA WriteOffStep ==
  ASSUME NEW S \in SUBSET Tokens, Promise!WriteOff(S) PROVE PromiseStep
BY DEF PromiseStep, Promise!FirstNext

LEMMA PublisherRefines ==
  ASSUME TypeOK, AttemptsAgree, OneRequest, TypeOK', NEW t \in Tokens, Publish(t)
  PROVE  PromiseStep
<1> USE GateOfRow
<1>0. TokenOK(t)
  BY OneRequestIsTokenOK
<1>1. CASE BeginPublish(t) \/ CancelDelivery(t)
  <2>1. UNCHANGED state \/ Move(t, "qualified", "cancelled")
    BY <1>1 DEF BeginPublish, CancelDelivery, cancelQualifiedDelivery
  <2>2. \A u \in Tokens : BlockedKept(u)
    BY <1>1, <2>1, MoveOne DEF BeginPublish, CancelDelivery, BlockedKept, Blocked
  <2> QED BY <1>1, <2>2, KeptIsStutter DEF BeginPublish, CancelDelivery, PromiseStep
<1>2. CASE RecheckFails(t)
  <2>1. \A u \in Tokens : BlockedKept(u)
    BY <1>2, UpsertKeepsBlocked DEF RecheckFails, BlockedKept
  <2> QED BY <1>2, <2>1, KeptIsStutter DEF RecheckFails, PromiseStep
<1>3. CASE Send(t)
  <2>1. CASE UNCHANGED <<state, attempts, request>>
    BY <1>3, <2>1 DEF Send, PromiseStep, gateBar
  <2>2. CASE tryMarkDeliveryPending(t)
    <3>1. gateBar[t] = "open" /\ gateBar' = [gateBar EXCEPT ![t] = "trying"]
      BY <2>2, MovedGate DEF tryMarkDeliveryPending, Unsent
    <3>2. attempts[t] < MaximumAttempts
      BY <1>3 DEF Send, AttemptsAgree, TypeOK, MaximumAttempts
    <3>3. Promise!Try(t)
      BY <1>3, <2>2, <3>1, <3>2 DEF Promise!Try, Promise!MaximumTries, MaximumAttempts,
         tryMarkDeliveryPending, Send
    <3> QED BY <3>3, OneTokenStep
  <2> QED BY <1>3, <2>1, <2>2 DEF Send
<1>4. CASE RecordSent(t)
  <2>1. gateBar[t] = "trying" /\ gateBar' = [gateBar EXCEPT ![t] = "done"]
    BY <1>4, MovedGate DEF RecordSent, markSent
  <2>2. Promise!Acknowledge(t)
    BY <1>0, <1>4, <2>1 DEF Promise!Acknowledge, RecordSent, TokenOK
  <2> QED BY <2>2, OneTokenStep
<1>5. CASE EditSucceeds(t)
  <2>1. gateBar[t] = "done" /\ gateBar' = [gateBar EXCEPT ![t] = "done"]
    BY <1>5, MovedGate DEF EditSucceeds, markConfirmed
  <2> QED BY <1>5, <2>1 DEF EditSucceeds, PromiseStep, gateBar
<1>6. CASE AnswerIsAmbiguous(t)
  <2>1. CASE UNCHANGED state
    BY <1>6, <2>1 DEF AnswerIsAmbiguous, PromiseStep, gateBar
  <2>2. CASE markDeliveryUnknown(t)
    <3>1. gateBar[t] = "trying" /\ gateBar' = [gateBar EXCEPT ![t] = "shut"]
      BY <2>2, MovedGate DEF markDeliveryUnknown
    <3>2. Promise!WriteOff({t})
      BY <1>6, <3>1 DEF AnswerIsAmbiguous, Promise!WriteOff, gateBar
    <3> QED BY <3>2, WriteOffStep
  <2> QED BY <1>6, <2>1, <2>2 DEF AnswerIsAmbiguous
<1>7. CASE RetryLater(t) \/ GiveUp(t)
  <2>1. Move(t, "delivery_pending", "qualified") \/ Move(t, "delivery_pending", "cancelled")
    BY <1>7 DEF RetryLater, GiveUp, releaseDeliveryForRetry, markDeliveryNotSent
  <2>2. gateBar[t] = "trying" /\ gateBar' = [gateBar EXCEPT ![t] = "open"]
    BY <2>1, MovedGate DEF Unsent
  <2>3. delivered[t] = 0
    BY <1>0, <1>7 DEF RetryLater, GiveUp, TokenOK
  <2>4. Promise!Refuse(t)
    BY <1>7, <2>2, <2>3 DEF Promise!Refuse, RetryLater, GiveUp
  <2> QED BY <2>4, OneTokenStep
<1>8. CASE BackoffEnds(t) \/ PublishThrows(t) \/ EditFails(t)
  BY <1>8 DEF BackoffEnds, PublishThrows, EditFails, PromiseStep, gateBar
<1> QED BY <1>1, <1>2, <1>3, <1>4, <1>5, <1>6, <1>7, <1>8 DEF Publish

LEMMA TelegramRefines ==
  ASSUME Honest, TypeOK, OneRequest, NEW t \in Tokens, Telegram(t) PROVE PromiseStep
<1>1. TokenOK(t)
  BY OneRequestIsTokenOK
<1>2. CASE TelegramAccepts(t)
  <2>1. delivered[t] = 0 /\ state[t] \in {"delivery_pending", "delivery_unknown"}
    BY <1>1, <1>2 DEF TelegramAccepts, TokenOK, Blocked
  <2>2. gateBar[t] \in {"trying", "shut"} /\ gateBar' = gateBar
    BY <1>2, <2>1, GateOfRow DEF TelegramAccepts, process, gateBar
  <2>3. Promise!Land(t)
    BY <1>2, <2>1, <2>2 DEF Promise!Land, TelegramAccepts, process
  <2> QED BY <2>3, OneTokenStep
<1>3. CASE TelegramRefuses(t)
  <2>1. delivered' = [delivered EXCEPT ![t] = @ + 0] /\ UNCHANGED <<state, attempts>>
    BY <1>3 DEF TelegramRefuses, process, Hidden, Honest
  <2>2. delivered' = delivered
    BY <2>1 DEF TypeOK
  <2> QED BY <2>1, <2>2 DEF gateBar, PromiseStep
<1> QED BY <1>2, <1>3 DEF Telegram

LEMMA RestartRefines == ASSUME TypeOK, Restart PROVE PromiseStep
<1> DEFINE S == {t \in Tokens : state[t] = "delivery_pending"}
<1>1. \A t \in Tokens : Gate(RecoveredState(state[t])) = IF t \in S THEN "shut" ELSE Gate(state[t])
  BY GateOfRow DEF RecoveredState
<1>2. gateBar' = [t \in Tokens |-> IF t \in S THEN "shut" ELSE gateBar[t]]
  BY <1>1 DEF Restart, gateBar
<1>3. Promise!WriteOff(S)
  BY <1>2, GateOfRow DEF Promise!WriteOff, Restart, gateBar
<1> QED BY <1>3, WriteOffStep

LEMMA StepRefines ==
  ASSUME Honest, TypeOK, AttemptsAgree, OneRequest, TypeOK', [Next]_vars PROVE PromiseStep
<1>1. ASSUME NEW t \in Tokens, Arrive(t) \/ Evaluate(t) PROVE PromiseStep
  <2>1. attempts' = attempts
    BY <1>1 DEF Arrive, Evaluate, EvaluateNothing, EvaluateThrows, Settle, Qualify,
       BeginConfirm, AfterPublish
  <2> QED BY <1>1, <2>1, EngineStep, KeptIsStutter DEF PromiseStep
<1>2. CASE Shutdown \/ UNCHANGED vars
  BY <1>2 DEF Shutdown, vars, gateBar, PromiseStep
<1> QED BY <1>1, <1>2, PublisherRefines, TelegramRefines, RestartRefines DEF Next

(* Every behaviour of the delivery is one that FirstSignal allows: never a *)
(* fourth try, a retry only after a refusal, no message after a write-off  *)
(* but the one already on its way.                                         *)
THEOREM DeliveryImplementsFirstSignal == ASSUME Honest PROVE Spec => ImplementsFirstSignal
<1>1. Init => Promise!FirstInit
  BY GateOfRow DEF Init, Promise!FirstInit, gateBar
<1>2. TypeOK /\ AttemptsAgree /\ OneRequest /\ TypeOK' /\ [Next]_vars
        => [Promise!FirstNext]_(Promise!firstVars)
  BY StepRefines DEF PromiseStep, Promise!firstVars
<1> QED BY <1>1, <1>2, AttemptsBounded, OneRequestAlways, PTL
        DEF Spec, ImplementsFirstSignal, Promise!FirstSpec

-----------------------------------------------------------------------------
(***************************************************************************)
(* What SignalEngine keeps in memory beside the signals row: the place a   *)
(* delivery holds under the noise limits, and the state from which the     *)
(* next verdict starts.                                                    *)
(***************************************************************************)

(* The answer that publish() returned is in the row, or was lost to a      *)
(* repository error.                                                       *)
AnswerRecorded(t) ==
  At(t, "returned") /\ KeepsReservation(call[t].result) => state[t] \in Blocked \/ t \in abandoned

PlaceHeld(t) ==
  /\ Publishing(t) => t \in recent
  /\ t \in recent => Publishing(t) \/ state[t] \in Blocked \/ t \in abandoned

(* A card is edited only for a row that is sent, and by an engine that has *)
(* already taken the token for confirmed.                                  *)
EditsSent(t) ==
  /\ ~At(t, "idle") => state[t] # "absent"
  /\ At(t, "editing") => memory[t] = "confirmed" /\ state[t] = "sent"

Agrees(t) ==
  \/ memory[t] = "unloaded"
  \/ memory[t] = state[t]
  \/ memory[t] = "confirmed" /\ state[t] = "sent"
  \/ memory[t] = "observing" /\ state[t] \in {"absent", "security_pending"}

MemoryOK(t) == At(t, "idle") /\ t \notin abandoned => Agrees(t)

EngineOK(t) == AnswerRecorded(t) /\ PlaceHeld(t) /\ EditsSent(t) /\ MemoryOK(t)

(* What EngineOK reads of a token.                                         *)
Untouched(u) ==
  /\ state'[u] = state[u] /\ memory'[u] = memory[u] /\ call'[u] = call[u]
  /\ u \in recent' <=> u \in recent
  /\ u \in abandoned' <=> u \in abandoned

LEMMA UntouchedIsOK ==
  ASSUME NEW u \in Tokens, EngineOK(u), Untouched(u) PROVE EngineOK(u)'
BY DEF EngineOK, Untouched, AnswerRecorded, PlaceHeld, EditsSent, MemoryOK, Agrees, At,
   Publishing

-----------------------------------------------------------------------------
(* A verdict on a token that agrees leaves it agreeing: from a blocked     *)
(* state no unsent verdict can come, so the guard of the upsert never      *)
(* makes the row differ from the memory.                                   *)
LEMMA LoadedAgrees ==
  ASSUME TypeOK, NEW t \in Tokens, Agrees(t)
  PROVE  \A s \in Loaded(t) :
           \/ s = state[t]
           \/ s = "confirmed" /\ state[t] = "sent"
           \/ s = "observing" /\ state[t] \in {"absent", "security_pending"}
BY DEF Agrees, Loaded

LEMMA BlockedVerdicts ==
  ASSUME NEW s \in Blocked
  PROVE  /\ Verdicts(s) \subseteq Blocked
         /\ \A verdict \in Verdicts(s) : verdict = s \/ (s = "sent" /\ verdict = "confirmed")
BY DEF Verdicts, Blocked

LEMMA UnsentVerdicts ==
  ASSUME NEW s \in Unsent PROVE Verdicts(s) \subseteq Unsent
BY DEF Verdicts, Unsent

LEMMA UpsertWrites ==
  ASSUME TypeOK, NEW t \in Tokens, NEW verdict \in Unsent, upsertCandidateDecision(t, verdict)
  PROVE  /\ state[t] \notin Blocked => state'[t] = verdict
         /\ state[t] \in Blocked => state'[t] = state[t]
         /\ \A u \in Tokens \ {t} : state'[u] = state[u]
BY DEF TypeOK, upsertCandidateDecision, Unsent, Blocked, SignalStates

LEMMA SettleStep ==
  ASSUME TypeOK, NEW t \in Tokens, EngineOK(t), Settle(t) PROVE EngineOK(t)'
<1>0. Loaded(t) \subseteq SignalStates
  BY LoadedIsState
<1>a. PICK s \in Loaded(t) :
      \E verdict \in Verdicts(s) \ {"qualified"} :
        /\ ~(verdict = "confirmed" /\ s = "sent")
        /\ \/ verdict \in Unsent /\ upsertCandidateDecision(t, verdict)
           \/ verdict \in Blocked /\ UNCHANGED state
        /\ Remember(t, verdict)
  BY DEF Settle
<1>1. PICK verdict \in Verdicts(s) :
        /\ ~(verdict = "confirmed" /\ s = "sent")
        /\ \/ verdict \in Unsent /\ upsertCandidateDecision(t, verdict)
           \/ verdict \in Blocked /\ UNCHANGED state
        /\ Remember(t, verdict)
  BY <1>a
<1>2. At(t, "idle") /\ UNCHANGED <<call, recent, abandoned>> /\ memory'[t] = verdict
  BY <1>1 DEF Settle, Ready, Remember, TypeOK
<1>3. state[t] \in Blocked => state'[t] \in Blocked
  BY <1>1, UpsertWrites
<1>4. t \notin abandoned => Agrees(t)'
  <2> SUFFICES ASSUME t \notin abandoned PROVE Agrees(t)'
    OBVIOUS
  <2>1. Agrees(t)
    BY <1>2 DEF EngineOK, MemoryOK
  <2>2. CASE verdict \in Unsent
    <3>1. s \notin Blocked
      BY <1>1, <2>2, BlockedVerdicts DEF Unsent, Blocked
    <3>2. state[t] \notin Blocked
      BY <2>1, <3>1, LoadedAgrees DEF Blocked
    <3> QED BY <1>1, <1>2, <2>2, <3>2, UpsertWrites DEF Agrees, Unsent, Blocked
  <2>3. CASE verdict \in Blocked /\ UNCHANGED state
    <3>1. s \in Blocked
      BY <1>0, <1>1, <2>3, UnsentVerdicts DEF SignalStates, Unsent, Blocked
    <3>2. verdict = s
      BY <1>1, <3>1, BlockedVerdicts
    <3> QED BY <1>2, <2>1, <2>3, <3>1, <3>2, LoadedAgrees DEF Agrees, Blocked
  <2> QED BY <1>1, <2>2, <2>3 DEF Unsent, Blocked
<1> QED
  BY <1>2, <1>3, <1>4 DEF EngineOK, AnswerRecorded, PlaceHeld, EditsSent, MemoryOK, At, Publishing

LEMMA EvaluateStep ==
  ASSUME TypeOK, NEW t \in Tokens, EngineOK(t), Evaluate(t) PROVE EngineOK(t)'
<1> USE DEF EngineOK, AnswerRecorded, PlaceHeld, EditsSent, MemoryOK, At, Publishing, Phases
<1>1. CASE EvaluateNothing(t)
  BY <1>1, UntouchedIsOK DEF EvaluateNothing, Untouched
<1>2. CASE EvaluateThrows(t)
  <2>1. UNCHANGED <<state, call, recent, abandoned>> /\ memory'[t] \in {memory[t]} \cup Loaded(t)
    BY <1>2 DEF EvaluateThrows, Remember, TypeOK
  <2>2. Agrees(t) => Agrees(t)'
    BY <2>1, LoadedAgrees DEF Agrees
  <2>3. MemoryOK(t)'
    BY <2>1, <2>2, <1>2 DEF EvaluateThrows, Ready
  <2>4. EditsSent(t)' /\ AnswerRecorded(t)' /\ PlaceHeld(t)'
    BY <2>1, <1>2 DEF EvaluateThrows, Ready
  <2> QED BY <2>3, <2>4
<1>3. CASE Settle(t)
  BY <1>3, SettleStep
<1>4. CASE Qualify(t)
  <2>1. /\ call'[t].at = "publish"
        /\ recent' = recent \cup {t} /\ UNCHANGED abandoned
    BY <1>4 DEF Qualify, Goto, TypeOK
  <2>2. state'[t] # "absent"
    BY <1>4, UpsertWrites DEF Qualify, Unsent, Blocked
  <2> QED BY <2>1, <2>2
<1>5. CASE BeginConfirm(t)
  <2>1. /\ At(t, "idle") /\ "sent" \in Loaded(t)
        /\ memory'[t] = "confirmed"
        /\ UNCHANGED <<state, recent, abandoned>>
    BY <1>5 DEF BeginConfirm, Ready, Remember, TypeOK
  <2>2. CASE state[t] = "sent" /\ Goto(t, "editing", 0)
    <3>1. call'[t].at = "editing"
      BY <2>2 DEF Goto, TypeOK
    <3> QED BY <2>1, <2>2, <3>1 DEF Blocked
  <2>3. CASE UNCHANGED call
    <3>1. Agrees(t) => state[t] = "sent"
      BY <2>1, LoadedAgrees
    <3> QED BY <2>1, <2>3, <3>1 DEF Agrees
  <2> QED BY <1>5, <2>2, <2>3 DEF BeginConfirm
<1>6. CASE AfterPublish(t)
  <2>1. /\ At(t, "returned") /\ call'[t].at = "idle"
        /\ memory'[t] = Reread(t)
        /\ UNCHANGED <<state, abandoned>>
    BY <1>6 DEF AfterPublish, Finish, Idle, Remember, TypeOK
  <2>2. state[t] # "absent" /\ Reread(t) = state[t]
    BY <2>1 DEF Reread
  <2>3. t \in recent' => state[t] \in Blocked \/ t \in abandoned
    <3>1. CASE KeepsReservation(call[t].result)
      BY <2>1, <3>1
    <3>2. CASE ~KeepsReservation(call[t].result)
      BY <1>6, <3>2 DEF AfterPublish
    <3> QED BY <3>1, <3>2
  <2> QED BY <2>1, <2>2, <2>3 DEF Agrees
<1> QED BY <1>1, <1>2, <1>3, <1>4, <1>5, <1>6 DEF Evaluate

-----------------------------------------------------------------------------
(* The publisher: until it returns the token keeps its place, and what it  *)
(* returns is in the row.                                                  *)
LEMMA PublishStep ==
  ASSUME TypeOK, NEW t \in Tokens, EngineOK(t), Publish(t) PROVE EngineOK(t)'
<1> USE DEF EngineOK, AnswerRecorded, PlaceHeld, EditsSent, MemoryOK, At, Publishing, Phases
<1>1. CASE BeginPublish(t)
  <2>1. /\ At(t, "publish") /\ UNCHANGED <<recent, memory, abandoned>>
        /\ UNCHANGED state \/ Move(t, "qualified", "cancelled")
    BY <1>1 DEF BeginPublish, cancelQualifiedDelivery
  <2>2. \/ call'[t].at = "recheck"
        \/ call'[t].at = "returned" /\ call'[t].result \in {"duplicate", "not_sent"}
    BY <1>1 DEF BeginPublish, Goto, Return, TypeOK
  <2>3. state'[t] # "absent"
    BY <2>1, MoveOne
  <2> QED BY <2>1, <2>2, <2>3 DEF KeepsReservation
<1>2. CASE RecheckFails(t)
  <2>1. At(t, "recheck") /\ call'[t].at = "cancelling" /\ UNCHANGED <<recent, abandoned>>
    BY <1>2 DEF RecheckFails, Goto, TypeOK
  <2>2. state'[t] # "absent"
    BY <1>2, <2>1, UpsertWrites DEF RecheckFails, Unsent
  <2> QED BY <2>1, <2>2
<1>3. CASE CancelDelivery(t)
  <2>1. /\ At(t, "cancelling") /\ UNCHANGED <<recent, abandoned>>
        /\ call'[t].at = "returned" /\ call'[t].result \in {"cancelled", "duplicate"}
    BY <1>3 DEF CancelDelivery, Return, TypeOK
  <2>2. state'[t] # "absent"
    BY <1>3, <2>1, MoveOne DEF CancelDelivery, cancelQualifiedDelivery
  <2> QED BY <2>1, <2>2 DEF KeepsReservation
<1>4. CASE Send(t)
  <2>1. At(t, "recheck") /\ UNCHANGED <<recent, abandoned>>
    BY <1>4 DEF Send
  <2>2. CASE tryMarkDeliveryPending(t) /\ Goto(t, "sending", call[t].attempt)
    <3>1. state'[t] = "delivery_pending" /\ call'[t].at = "sending"
      BY <2>2, MoveOne DEF tryMarkDeliveryPending, Goto, TypeOK
    <3> QED BY <2>1, <3>1
  <2>3. CASE Return(t, "duplicate") /\ UNCHANGED state
    <3>1. call'[t].at = "returned" /\ call'[t].result = "duplicate"
      BY <2>3 DEF Return, TypeOK
    <3> QED BY <2>1, <2>3, <3>1 DEF KeepsReservation
  <2> QED BY <1>4, <2>2, <2>3 DEF Send
<1>5. CASE RecordSent(t)
  <2>1. /\ At(t, "sending") /\ state'[t] = "sent"
        /\ call'[t].at = "returned" /\ UNCHANGED <<recent, abandoned>>
    BY <1>5, MoveOne DEF RecordSent, markSent, Return, TypeOK
  <2> QED BY <2>1 DEF Blocked
<1>6. CASE AnswerIsAmbiguous(t)
  <2>1. At(t, "sending") /\ call'[t].at = "returned" /\ UNCHANGED recent
    BY <1>6 DEF AnswerIsAmbiguous, Return, TypeOK
  <2>2. CASE markDeliveryUnknown(t) /\ UNCHANGED abandoned
    BY <2>1, <2>2, MoveOne DEF markDeliveryUnknown, Blocked
  <2>3. CASE UNCHANGED state /\ abandoned' = abandoned \cup {t}
    BY <2>1, <2>3
  <2> QED BY <1>6, <2>2, <2>3 DEF AnswerIsAmbiguous
<1>7. CASE RetryLater(t) \/ GiveUp(t)
  <2>1. /\ At(t, "sending") /\ UNCHANGED <<recent, abandoned>>
        /\ \/ call'[t].at = "backoff"
           \/ call'[t].at = "returned" /\ call'[t].result = "not_sent"
    BY <1>7 DEF RetryLater, GiveUp, Goto, Return, TypeOK
  <2>2. state'[t] # "absent"
    BY <1>7, MoveOne DEF RetryLater, GiveUp, releaseDeliveryForRetry, markDeliveryNotSent
  <2> QED BY <2>1, <2>2 DEF KeepsReservation
<1>8. CASE BackoffEnds(t)
  <2>1. /\ At(t, "backoff") /\ call'[t].at = "recheck"
        /\ UNCHANGED <<state, recent, memory, abandoned>>
    BY <1>8 DEF BackoffEnds, Goto, TypeOK
  <2> QED BY <2>1
<1>9. CASE PublishThrows(t)
  <2>1. call'[t].at = "idle" /\ abandoned' = abandoned \cup {t}
    BY <1>9 DEF PublishThrows, Finish, Idle, TypeOK
  <2> QED BY <2>1
<1>10. CASE EditSucceeds(t) \/ EditFails(t)
  <2>1. /\ At(t, "editing") /\ call'[t].at = "idle" /\ UNCHANGED <<recent, abandoned>>
        /\ memory'[t] = "confirmed" /\ state'[t] \in {"sent", "confirmed"}
    BY <1>10, MoveOne DEF EditSucceeds, EditFails, markConfirmed, Remember, Finish, Idle, TypeOK
  <2> QED BY <2>1 DEF Agrees, Blocked
<1> QED BY <1>1, <1>2, <1>3, <1>4, <1>5, <1>6, <1>7, <1>8, <1>9, <1>10 DEF Publish

(* An evaluation or a publish changes nothing of any other token.          *)
LEMMA OtherTokens ==
  ASSUME TypeOK, NEW t \in Tokens, Evaluate(t) \/ Publish(t), NEW u \in Tokens \ {t}
  PROVE  Untouched(u)
<1>1. ASSUME Evaluate(t) PROVE Untouched(u)
  <2>1. CASE Settle(t)
    <3>1. PICK verdict \in SignalStates :
            /\ \/ verdict \in Unsent /\ upsertCandidateDecision(t, verdict)
               \/ UNCHANGED state
            /\ Remember(t, verdict)
      BY <2>1, LoadedIsState, VerdictsAreStates DEF Settle
    <3> QED BY <2>1, <3>1, UpsertWrites DEF Settle, Untouched, Remember, TypeOK
  <2>2. CASE Qualify(t)
    <3>1. "qualified" \in Unsent
      BY DEF Unsent
    <3> QED BY <2>2, <3>1, UpsertWrites DEF Qualify, Untouched, Remember, Goto, TypeOK
  <2>3. CASE EvaluateNothing(t) \/ EvaluateThrows(t) \/ BeginConfirm(t) \/ AfterPublish(t)
    BY <2>3 DEF EvaluateNothing, EvaluateThrows, BeginConfirm, AfterPublish, Untouched,
       Remember, Goto, Finish, TypeOK
  <2> QED BY <1>1, <2>1, <2>2, <2>3 DEF Evaluate
<1>2. ASSUME Publish(t) PROVE Untouched(u)
  <2>1. CASE RecheckFails(t)
    BY <2>1, UpsertWrites DEF RecheckFails, Untouched, Goto, TypeOK
  <2>2. CASE ~RecheckFails(t)
    <3>1. UNCHANGED state \/ \E from, to : Move(t, from, to)
      BY <1>2, <2>2 DEF Publish, BeginPublish, CancelDelivery, Send, RecordSent,
         AnswerIsAmbiguous, RetryLater, BackoffEnds, GiveUp, PublishThrows, EditSucceeds,
         EditFails, cancelQualifiedDelivery, tryMarkDeliveryPending, markSent,
         markDeliveryUnknown, releaseDeliveryForRetry, markDeliveryNotSent, markConfirmed
    <3>2. state'[u] = state[u]
      BY <3>1, MoveOne
    <3>3. /\ memory'[u] = memory[u] /\ call'[u] = call[u] /\ UNCHANGED recent
          /\ abandoned' \in {abandoned, abandoned \cup {t}}
      BY <1>2, <2>2 DEF Publish, BeginPublish, CancelDelivery, Send, RecordSent,
         AnswerIsAmbiguous, RetryLater, BackoffEnds, GiveUp, PublishThrows, EditSucceeds,
         EditFails, Goto, Return, Finish, Remember, TypeOK
    <3> QED BY <3>2, <3>3 DEF Untouched
  <2> QED BY <2>1, <2>2
<1> QED BY <1>1, <1>2

EngineInvariant == \A t \in Tokens : EngineOK(t)

LEMMA EngineInvariantStep ==
  ASSUME TypeOK, EngineInvariant, [Next]_vars PROVE EngineInvariant'
<1>1. ASSUME NEW t \in Tokens, Evaluate(t) \/ Publish(t) PROVE EngineInvariant'
  <2>1. EngineOK(t)'
    BY <1>1, EvaluateStep, PublishStep DEF EngineInvariant
  <2>2. \A u \in Tokens \ {t} : EngineOK(u)'
    BY <1>1, OtherTokens, UntouchedIsOK DEF EngineInvariant
  <2> QED BY <2>1, <2>2 DEF EngineInvariant
<1>2. CASE UNCHANGED <<state, memory, call, recent, abandoned>>
  BY <1>2, UntouchedIsOK DEF EngineInvariant, Untouched
<1>3. ASSUME NEW t \in Tokens, Arrive(t) \/ Telegram(t) PROVE EngineInvariant'
  BY <1>2, <1>3 DEF Arrive, Telegram, TelegramAccepts, TelegramRefuses, process
<1>4. CASE Shutdown \/ UNCHANGED vars
  BY <1>2, <1>4 DEF Shutdown, vars
<1>5. CASE Restart
  <2> SUFFICES ASSUME NEW t \in Tokens PROVE EngineOK(t)'
    BY DEF EngineInvariant
  <2>1. call'[t].at = "idle" /\ memory'[t] = "unloaded" /\ abandoned' = {}
    BY <1>5 DEF Restart, Idle
  <2>2. t \in recent' => state'[t] \in Blocked
    BY <1>5 DEF Restart, RecoveredState, Blocked
  <2> QED BY <2>1, <2>2 DEF EngineOK, AnswerRecorded, PlaceHeld, EditsSent, MemoryOK,
          Agrees, At, Publishing
<1> QED BY <1>1, <1>3, <1>4, <1>5 DEF Next

LEMMA EngineAlways == Spec => []EngineInvariant
<1>1. Init => EngineInvariant
  <2> SUFFICES ASSUME Init, NEW t \in Tokens PROVE EngineOK(t)
    BY DEF EngineInvariant
  <2>1. call[t].at = "idle" /\ memory[t] = "unloaded" /\ recent = {}
    BY DEF Init, Idle
  <2> QED BY <2>1 DEF EngineOK, AnswerRecorded, PlaceHeld, EditsSent, MemoryOK,
          Agrees, At, Publishing
<1>2. TypeOK /\ EngineInvariant /\ [Next]_vars => EngineInvariant'
  BY EngineInvariantStep
<1> QED BY <1>1, <1>2, AttemptsBounded, PTL DEF Spec

(* A token being delivered always counts against the noise limits, and a   *)
(* place is kept only for a token that was or may have been sent, or one   *)
(* that a repository error abandoned; retries, crashes and shutdowns leak  *)
(* none.                                                                   *)
THEOREM PlacesAreNotLeaked == Spec => []ReservationMatchesDelivery
<1>1. EngineInvariant => ReservationMatchesDelivery
  BY DEF EngineInvariant, EngineOK, PlaceHeld, ReservationMatchesDelivery
<1> QED BY <1>1, EngineAlways, PTL

(* Between evaluations the engine's memory is what the row says, but for a *)
(* confirmation whose edit failed and for an abandoned delivery.           *)
THEOREM EngineFollowsRow == Spec => []EngineAgreesWithRow
<1>1. EngineInvariant => EngineAgreesWithRow
  BY DEF EngineInvariant, EngineOK, MemoryOK, Agrees, EngineAgreesWithRow
<1> QED BY <1>1, EngineAlways, PTL
=============================================================================
