-------------------------- MODULE SignalEvaluation --------------------------
(***************************************************************************)
(* Who has a token evaluated, when, and by which clock.  Every committed   *)
(* change of a source starts a batch: processTokens takes its tokens in    *)
(* order, with one reading of the clock for all, and waits for each, the   *)
(* sending of its card included.  Every answer about a token's security,   *)
(* or its failure, has that token evaluated once more, with the time of    *)
(* the answer.  The evaluations of one token run one after the other, in a *)
(* chain of promises; one that throws takes those behind it along.         *)
(*                                                                         *)
(* The detector compares these clocks with the candidate's reference       *)
(* (qualifiedAt) and with the capture of the cached security snapshot, and *)
(* the engine asks for a snapshot when the detector wants one.  What the   *)
(* market and the safety rules say is a choice (Decisions).  rejected,     *)
(* cancelled and suppressed are one state here, closed: they differ in     *)
(* what the row tells, no evaluation tells them apart.  sent stands for    *)
(* every state from delivery_pending on that outlives the sending.         *)
(*                                                                         *)
(* One process is modelled, with whatever rows an earlier one has left.    *)
(* Storage works here: SignalDelivery has it fail, and has the restarts.   *)
(* The jobs' places are in SecurityManager, the limits in NoiseControl.    *)
(***************************************************************************)
EXTENDS Integers, Sequences, FiniteSetsExt

CONSTANTS
  N,             \* number of tokens; they are numbered as their keys sort
  Batches,       \* bound: batches under way at a time
  Changes,       \* bound: the sets of tokens that the commit of each may change
  SendMaxAge,    \* security_max_age_at_send, 10 s
  CacheTtl,      \* security_cache, 60 s
  MaxTime        \* bound

Tokens == 1..N
None == -1        \* a time that is not set
Completion == "completion"   \* in place of a batch: the answer about security

ASSUME EvaluationAssumption ==
  /\ Completion \notin Batches
  /\ \A b \in Batches : Changes[b] \subseteq (SUBSET Tokens) \ {{}}
  /\ N \in Nat \ {0} /\ MaxTime \in Nat
  /\ SendMaxAge \in Nat /\ CacheTtl \in Nat /\ SendMaxAge <= CacheTtl

VARIABLES
  now,
  state,      \* EngineState.state, or what inputFor will read from the row
  candidate,  \* the same for EngineState.candidate: its qualifiedAt
  cache,      \* capturedAt of the cached security snapshot
  failed,     \* failedPreheats
  fetching,   \* tokens with a security job
  queue,      \* locks: the evaluations of a token; the first one is running
              \* if call says so
  call,       \* where the running evaluation waits
  todo,       \* of each batch: the tokens it has not finished
  unseen      \* history: no evaluation has seen the newest snapshot yet

engine == <<state, candidate>>
security == <<cache, failed, fetching>>
vars == <<now, engine, security, queue, call, todo, unseen>>

States == {"observing", "security_pending", "qualified", "closed", "sent"}

(* What waits for security or for its card has a candidate: inputFor takes *)
(* a row that waits without one for observing.                             *)
HasReference(t) == state[t] \in {"security_pending", "qualified"} => candidate[t] # None

Init ==
  /\ now = 0
  /\ state \in [Tokens -> States]
  /\ candidate \in [Tokens -> {None, 0}]
  /\ \A t \in Tokens : HasReference(t) /\ (state[t] = "observing" => candidate[t] = None)
  /\ cache = [t \in Tokens |-> None]
  /\ failed = [t \in Tokens |-> None]
  /\ fetching = {}
  /\ queue = [t \in Tokens |-> <<>>]
  /\ call = [t \in Tokens |-> "idle"]
  /\ todo = [b \in Batches |-> {}]
  /\ unseen = {}

(* An evaluation, or a recheck, that waits for nothing runs before any     *)
(* other event is taken from the event loop.                               *)
Ready(t) == call[t] = "idle" /\ queue[t] # <<>>
Quiet == \A t \in Tokens : ~Ready(t) /\ call[t] # "judging"

Within(time, limit) == time # None /\ now - time <= limit

-----------------------------------------------------------------------------
(* The detector. *)

(* getCached. *)
Captured(t) == IF Within(cache[t], CacheTtl) THEN cache[t] ELSE None
Fresh(captured, clock) == captured # None /\ captured <= clock /\ clock - captured <= SendMaxAge

Continues(t) == state[t] \in {"security_pending", "qualified"} /\ candidate[t] # None

Decision(s, reference, preheat) == [state |-> s, reference |-> reference, preheat |-> preheat]

(* evaluateDetector: nothing, an observation, or a trigger (a new one, or  *)
(* the candidate's) and what security, safety, momentum and noise make of  *)
(* it.                                                                     *)
Decisions(t, clock) ==
  IF state[t] = "sent" THEN {Decision("sent", None, FALSE), Decision("confirmed", None, FALSE)}
  ELSE LET references == {clock} \cup (IF Continues(t) THEN {candidate[t]} ELSE {})
           judged == IF Fresh(Captured(t), clock)
                     THEN UNION {{Decision("closed", r, FALSE), Decision("qualified", r, FALSE)} :
                                   r \in references}
                     ELSE {}
           observed == IF Continues(t) THEN {} ELSE {Decision(state[t], None, p) : p \in BOOLEAN}
       IN {Decision("security_pending", r, TRUE) : r \in references} \cup judged \cup observed

(* validateDetectorInput throws if the clock is behind the candidate's, or *)
(* if the token had not been discovered then.  The time of discovery is    *)
(* left out: a candidate is no older than it, and where there is none, any *)
(* clock but the present one may be behind it.                             *)
MayPrecedeDiscovery(t, clock) == candidate[t] = None /\ clock < now
Consistent(t, clock) == HasReference(t) /\ (candidate[t] # None => candidate[t] <= clock)

-----------------------------------------------------------------------------
(* The chains and the batches. *)

(* Mutant: the batch ends with the token that was sent.                    *)
ForgetfulAfter(t) ==
  /\ todo' = todo
  /\ queue' = [queue EXCEPT ![t] = Tail(@)]

(* An evaluation of t is over: its batch goes on to the next token.        *)
After(t) ==
  LET e == Head(queue[t])
      popped == [queue EXCEPT ![t] = Tail(@)]
  IN IF e.batch = Completion THEN queue' = popped /\ UNCHANGED todo
     ELSE LET rest == todo[e.batch] \ {t}
          IN /\ todo' = [todo EXCEPT ![e.batch] = rest]
             /\ queue' = IF rest = {} THEN popped ELSE [popped EXCEPT ![Min(rest)] = Append(@, e)]

(* An evaluation of t threw: the promises that were chained to it reject,  *)
(* and with them their batches.                                            *)
Throws(t) ==
  LET lost == {queue[t][i].batch : i \in DOMAIN queue[t]} \ {Completion}
  IN /\ queue' = [queue EXCEPT ![t] = <<>>]
     /\ todo' = [b \in Batches |-> IF b \in lost THEN {} ELSE todo[b]]

(* onCommitted: a commit of one source, and the tokens it changed.         *)
Commit(b, changed) ==
  /\ Quiet
  /\ todo[b] = {}
  /\ todo' = [todo EXCEPT ![b] = changed]
  /\ queue' = [queue EXCEPT ![Min(changed)] = Append(@, [clock |-> now, batch |-> b])]
  /\ UNCHANGED <<now, engine, security, call, unseen>>

-----------------------------------------------------------------------------
(* SecurityManager, as the engine sees it. *)

(* preheat. *)
Preheated(t) ==
  IF Within(cache[t], CacheTtl) \/ Within(failed[t], CacheTtl) THEN fetching ELSE fetching \cup {t}

(* The recheck begins: getFreshForSend.                                    *)
AskFresh(t) ==
  IF Within(cache[t], SendMaxAge)
  THEN call' = [call EXCEPT ![t] = "judging"] /\ UNCHANGED fetching
  ELSE call' = [call EXCEPT ![t] = "security"] /\ fetching' = fetching \cup {t}

(* Mutant: only the answer a card waits for has its token evaluated.       *)
EvaluatedIfAwaited(t) ==
  IF call[t] # "security" THEN queue
  ELSE [queue EXCEPT ![t] = Append(@, [clock |-> now, batch |-> Completion])]

(* onCompleted. *)
Evaluated(t) == [queue EXCEPT ![t] = Append(@, [clock |-> now, batch |-> Completion])]

Answered(t) ==
  /\ fetching' = fetching \ {t}
  /\ queue' = Evaluated(t)
  /\ call' = IF call[t] = "security" THEN [call EXCEPT ![t] = "judging"] ELSE call
  /\ UNCHANGED <<now, engine, todo>>

SecurityArrives(t) ==
  /\ Quiet /\ t \in fetching
  /\ cache' = [cache EXCEPT ![t] = now]
  /\ failed' = [failed EXCEPT ![t] = None]
  /\ unseen' = unseen \cup {t}
  /\ Answered(t)

SecurityFails(t) ==
  /\ Quiet /\ t \in fetching
  /\ failed' = [failed EXCEPT ![t] = now]
  /\ Answered(t)
  /\ UNCHANGED <<cache, unseen>>

-----------------------------------------------------------------------------
(* SignalEngine: evaluateAndAct and recheck. *)

Sees(t, clock) == unseen' = IF Captured(t) # None /\ Captured(t) <= clock THEN unseen \ {t} ELSE unseen

(* Mutant: nobody waits until the card is sent.                            *)
DecideUnawaited(t, d) ==
  /\ candidate' = [candidate EXCEPT ![t] = IF d.reference = None THEN @ ELSE d.reference]
  /\ state' = [state EXCEPT ![t] = IF d.state = "confirmed" THEN "sent" ELSE d.state]
  /\ IF d.state = "qualified" THEN AskFresh(t)
     ELSE fetching' = (IF d.preheat THEN Preheated(t) ELSE fetching) /\ UNCHANGED call
  /\ After(t)
  /\ Sees(t, Head(queue[t]).clock)
  /\ UNCHANGED <<now, cache, failed>>

(* The verdict is stored, remembered and acted upon.                       *)
Decide(t, d) ==
  /\ candidate' = [candidate EXCEPT ![t] = IF d.reference = None THEN @ ELSE d.reference]
  /\ Sees(t, Head(queue[t]).clock)
  /\ state' = [state EXCEPT ![t] = IF d.state = "confirmed" THEN "sent" ELSE d.state]
  /\ CASE d.state = "qualified" -> AskFresh(t) /\ UNCHANGED <<queue, todo>>
       [] d.state = "confirmed" -> /\ call' = [call EXCEPT ![t] = "editing"]
                                   /\ UNCHANGED <<fetching, queue, todo>>
       [] OTHER -> /\ fetching' = IF d.preheat THEN Preheated(t) ELSE fetching
                   /\ After(t)
                   /\ UNCHANGED call
  /\ UNCHANGED <<now, cache, failed>>

Evaluate(t) ==
  /\ Ready(t)
  /\ LET clock == Head(queue[t]).clock
     IN \/ /\ Consistent(t, clock)
           /\ \E d \in Decisions(t, clock) : Decide(t, d)
        \/ /\ ~Consistent(t, clock) \/ MayPrecedeDiscovery(t, clock)
           /\ Throws(t) /\ UNCHANGED <<now, engine, security, call, unseen>>

(* inputFor finds no data of the token in the window any more.             *)
MarketMissing(t) ==
  /\ Ready(t)
  /\ After(t)
  /\ unseen' = unseen \ {t}
  /\ UNCHANGED <<now, engine, security, call>>

(* publish or confirm returns; the engine takes the state from the row.    *)
Returns(t, s) ==
  /\ state' = [state EXCEPT ![t] = s]
  /\ call' = [call EXCEPT ![t] = "idle"]
  /\ After(t)

(* The recheck has its answer: it is refused for want of security or data, *)
(* or by the detector, or it passes.  The verdict is stored in the row     *)
(* only, and has nothing asked for.                                        *)
Judge(t) ==
  /\ call[t] = "judging"
  /\ Sees(t, now)
  /\ \/ Returns(t, "closed")
     \/ /\ Within(cache[t], SendMaxAge)
        /\ \E d \in Decisions(t, now) :
             IF d.state # "qualified" THEN Returns(t, d.state)
             ELSE call' = [call EXCEPT ![t] = "sending"] /\ UNCHANGED <<state, queue, todo>>
  /\ UNCHANGED <<now, candidate, security>>

(* The pool or Telegram refuse, or the card is sent, or may have been.     *)
SendEnds(t) ==
  /\ Quiet /\ call[t] = "sending"
  /\ \E s \in {"closed", "sent"} : Returns(t, s)
  /\ UNCHANGED <<now, candidate, security, unseen>>

(* The card was edited, or was not.                                        *)
EditEnds(t) ==
  /\ Quiet /\ call[t] = "editing"
  /\ Returns(t, "sent")
  /\ UNCHANGED <<now, candidate, security, unseen>>

(* 429 or 5xx: after a pause the card is rechecked.  It is tried three     *)
(* times at most: SignalDelivery counts, here the fairness of SendEnds     *)
(* says as much.                                                           *)
RetryLater(t) ==
  /\ Quiet /\ call[t] = "sending"
  /\ AskFresh(t)
  /\ UNCHANGED <<now, engine, cache, failed, queue, todo, unseen>>

Tick == /\ Quiet /\ now < MaxTime /\ now' = now + 1
        /\ UNCHANGED <<engine, security, queue, call, todo, unseen>>

Step(t) ==
  \/ Evaluate(t) \/ MarketMissing(t) \/ Judge(t)
  \/ SecurityArrives(t) \/ SecurityFails(t) \/ SendEnds(t) \/ EditEnds(t)
  \/ RetryLater(t)

Next ==
  \/ \E t \in Tokens : Step(t)
  \/ \E b \in Batches : \E changed \in Changes[b] : Commit(b, changed)
  \/ Tick

Spec == Init /\ [][Next]_vars

(* What is ready runs.  GMGN and Telegram answer, or a timeout does, and   *)
(* the event loop comes to it, however many other events it has to handle. *)
Runs == \E t \in Tokens : Evaluate(t) \/ MarketMissing(t) \/ Judge(t)
FairSpec ==
  /\ Spec
  /\ WF_vars(Runs)
  /\ \A t \in Tokens :
       /\ SF_vars(SecurityArrives(t) \/ SecurityFails(t))
       /\ SF_vars(SendEnds(t) \/ EditEnds(t))

-----------------------------------------------------------------------------
(* Properties. *)

Times == {None} \cup 0..now

(* The types; validateDetectorInput's other demand is always met; a token  *)
(* whose card is under way is the first of its chain, and its batch waits. *)
TypeOK ==
  /\ now \in Nat
  /\ state \in [Tokens -> States] /\ candidate \in [Tokens -> Times]
  /\ cache \in [Tokens -> Times] /\ failed \in [Tokens -> Times] /\ fetching \subseteq Tokens
  /\ queue \in [Tokens -> Seq([clock : 0..now, batch : Batches \cup {Completion}])]
  /\ call \in [Tokens -> {"idle", "security", "judging", "sending", "editing"}]
  /\ todo \in [Batches -> SUBSET Tokens]
  /\ unseen \subseteq Tokens
  /\ \A t \in Tokens :
       /\ HasReference(t)
       /\ call[t] # "idle" => queue[t] # <<>>
       /\ call[t] \in {"security", "judging", "sending"} => state[t] = "qualified"
       /\ \A i \in DOMAIN queue[t] : queue[t][i].batch # Completion => t \in todo[queue[t][i].batch]

(* A candidate that waits for security, with no evaluation under way, has  *)
(* been judged by the newest snapshot: no answer is overlooked, whatever   *)
(* was queued, sent or lost when it came.                                  *)
AnswersAreSeen ==
  \A t \in Tokens :
    state[t] = "security_pending" /\ queue[t] = <<>> /\ Within(cache[t], CacheTtl) => t \notin unseen

(* The part of this module that stands for the security manager is what    *)
(* SnapshotView says, as the manager is: SecurityManager implements it.    *)
Pruned(times) == [t \in Tokens |-> IF Within(times[t], CacheTtl) THEN times[t] ELSE None]
View == INSTANCE SnapshotView WITH
  captured <- Pruned(cache), missed <- Pruned(failed), asked <- fetching,
  awaited <- {t \in Tokens : call[t] = "security"}
ImplementsSnapshotView == View!ViewSpec

(* A batch may wait for a card, the card for security, the chain of a      *)
(* token for another batch: nobody waits for ever.                         *)
BatchesEnd == \A b \in Batches : todo[b] # {} ~> todo[b] = {}

(* detector.ts, validateDetectorInput: the reference of a candidate is not *)
(* in the future.  Were it, the evaluation would throw, and the rest of    *)
(* its batch and of its chain would be lost.                               *)
InputIsConsistent == \A t \in Tokens : Ready(t) => Consistent(t, Head(queue[t]).clock)
=============================================================================
