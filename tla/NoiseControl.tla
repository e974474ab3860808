---------------------------- MODULE NoiseControl ----------------------------
(***************************************************************************)
(* The noise limits: at most so many first signals in a rolling minute, of *)
(* them so many of normal priority, and one per creator and half hour.     *)
(* SignalEngine keeps one entry in recentSignals for each token it tries   *)
(* to send: it is reserved at the verdict, with the clock of the batch the *)
(* verdict belongs to; judged again by the recheck before every attempt,   *)
(* then without the token's own entry; set to the time of sending once the *)
(* card is sent; given up when it is not.  A restart fills recentSignals   *)
(* from the rows that were sent in the last minute.                        *)
(*                                                                         *)
(* Storage works here: what a failing database does to the reservations is *)
(* in SignalDelivery.  Everything else that may refuse a card (security,   *)
(* data, liquidity, Telegram) is a choice.                                 *)
(***************************************************************************)
EXTENDS Integers, FiniteSets

CONSTANTS
  Tokens,
  Creator,                   \* of each token; NoCreator is not an address
  NoCreator,
  MaxTotal, MaxNormal,       \* max_initial_/max_normal_signals_per_minute
  Minute, CreatorCooldown,   \* 60 s, creator_cooldown
  MaxLag,                    \* bound: age of a batch's clock when it is used
  MaxTime                    \* bound

ASSUME NoiseAssumption ==
  /\ IsFiniteSet(Tokens)
  /\ MaxTotal \in Nat /\ MaxNormal \in Nat
  /\ Minute \in Nat /\ CreatorCooldown \in Nat /\ Minute < CreatorCooldown
  /\ MaxLag \in Nat /\ MaxTime \in Nat

Priorities == {"normal", "high"}

VARIABLES
  now,
  startedAt,  \* when the process started
  phase,      \* where evaluateAndAct stands with a token
  row,        \* signals.state: open, sent, or delivery_unknown
  sentAt,     \* signals.sent_at, 0 while the row is not sent
  priority,   \* signals.priority
  recent,     \* recentSignals, as an entry for each token
  verdict,    \* history: the clock and the priority of the verdict that holds
  lenient     \* history: tokens let through by a recheck that did not see all

vars == <<now, startedAt, phase, row, sentAt, priority, recent, verdict, lenient>>

None == [at |-> 0, priority |-> "none"]
Entry(at, p) == [at |-> at, priority |-> p]
Has(t) == recent[t] # None

Init ==
  /\ now = 0 /\ startedAt = 0
  /\ phase = [t \in Tokens |-> "idle"]
  /\ row = [t \in Tokens |-> "open"]
  /\ sentAt = [t \in Tokens |-> 0]
  /\ priority = [t \in Tokens |-> "normal"]
  /\ recent = [t \in Tokens |-> None]
  /\ verdict = [t \in Tokens |-> None]
  /\ lenient = {}

-----------------------------------------------------------------------------
(* selectWithinNoiseLimits, for one candidate and the entries of Others.   *)

(* Mutant: an entry that is a minute old still has its card in the window. *)
WithinMinuteStrictly(Others, clock) == {u \in Others : Has(u) /\ recent[u].at > clock - Minute}
WithinMinute(Others, clock) == {u \in Others : Has(u) /\ recent[u].at >= clock - Minute}
Normal(S) == {u \in S : recent[u].priority = "normal"}

(* Mutant: the cooldown of a creator is compared with the minute.          *)
CreatorQuietForMinute(t, Others, clock) ==
  Creator[t] = NoCreator \/
  \A u \in Others : Has(u) /\ Creator[u] = Creator[t] => recent[u].at <= clock - Minute
CreatorQuiet(t, Others, clock) ==
  Creator[t] = NoCreator \/
  \A u \in Others : Has(u) /\ Creator[u] = Creator[t] => recent[u].at <= clock - CreatorCooldown

accepted(t, p, Others, clock) ==
  /\ t \notin {u \in Others : Has(u)}
  /\ CreatorQuiet(t, Others, clock)
  /\ Cardinality(WithinMinute(Others, clock)) < MaxTotal
  /\ p = "normal" => Cardinality(Normal(WithinMinute(Others, clock))) < MaxNormal

-----------------------------------------------------------------------------
(* SignalEngine and TelegramPublisher. *)

Goto(t, place) == phase' = [phase EXCEPT ![t] = place]
removeRecent(t) ==
  /\ recent' = [recent EXCEPT ![t] = None]
  /\ verdict' = [verdict EXCEPT ![t] = None]
  /\ lenient' = lenient \ {t}

(* The detector qualifies the token; clock is the batch's, which may have  *)
(* waited for the sending of other tokens, or for an earlier evaluation.   *)
Clocks == {c \in startedAt..now : now - c <= MaxLag}
Qualify(t, clock, p) ==
  /\ phase[t] = "idle" /\ row[t] = "open"
  /\ accepted(t, p, Tokens, clock)
  /\ Goto(t, "publish")
  /\ recent' = [recent EXCEPT ![t] = Entry(clock, p)]
  /\ verdict' = [verdict EXCEPT ![t] = Entry(clock, p)]
  /\ priority' = [priority EXCEPT ![t] = p]
  /\ UNCHANGED <<now, startedAt, row, sentAt, lenient>>

(* What the recheck of t cannot see: a card on its way whose entry is more *)
(* than a minute old.                                                      *)
Overlooks(t) ==
  \E u \in Tokens \ {t} : phase[u] \in {"checked", "sending"} /\ recent[u].at < now - Minute

(* Mutant: the recheck does not ask again.                                 *)
RecheckTrusts(t, p) == TRUE
RecheckAccepts(t, p) == accepted(t, p, Tokens \ {t}, now)

(* The recheck, with the clock of its own; the fresh verdict may have      *)
(* another priority, which is saved when the pool is thin.                 *)
RecheckPasses(t, p) ==
  /\ phase[t] = "publish"
  /\ RecheckAccepts(t, p)
  /\ Goto(t, "checked")
  /\ \E thin \in BOOLEAN : priority' = [priority EXCEPT ![t] = IF thin THEN p ELSE @]
  /\ lenient' = IF Overlooks(t) \/ p # verdict[t].priority THEN lenient \cup {t} ELSE lenient \ {t}
  /\ UNCHANGED <<now, startedAt, row, sentAt, recent, verdict>>

(* The recheck, the pool or the card's data refuse; the delivery ends.     *)
Cancel(t) ==
  /\ phase[t] \in {"publish", "checked"}
  /\ Goto(t, "idle")
  /\ removeRecent(t)
  /\ UNCHANGED <<now, startedAt, row, sentAt, priority>>

Send(t) ==
  /\ phase[t] = "checked"
  /\ Goto(t, "sending")
  /\ UNCHANGED <<now, startedAt, row, sentAt, priority, recent, verdict, lenient>>

SentEntry(t) == Entry(now, verdict[t].priority)

RecordSent(t) ==
  /\ phase[t] = "sending"
  /\ Goto(t, "idle")
  /\ row' = [row EXCEPT ![t] = "sent"]
  /\ sentAt' = [sentAt EXCEPT ![t] = now]
  /\ recent' = [recent EXCEPT ![t] = SentEntry(t)]
  /\ UNCHANGED <<now, startedAt, priority, verdict, lenient>>

(* No answer: the card may be in the chat, the entry stays as it is.       *)
AnswerIsAmbiguous(t) ==
  /\ phase[t] = "sending"
  /\ Goto(t, "idle")
  /\ row' = [row EXCEPT ![t] = "unknown"]
  /\ UNCHANGED <<now, startedAt, sentAt, priority, recent, verdict, lenient>>

(* Mutant: a refusal gives the place up although it is tried again.        *)
RetryLaterReleased(t) ==
  /\ phase[t] = "sending"
  /\ Goto(t, "publish")
  /\ removeRecent(t)
  /\ UNCHANGED <<now, startedAt, row, sentAt, priority>>

(* 429 or 5xx: after a pause the recheck is asked again.                   *)
RetryLater(t) ==
  /\ phase[t] = "sending"
  /\ Goto(t, "publish")
  /\ UNCHANGED <<now, startedAt, row, sentAt, priority, recent, verdict, lenient>>

GiveUp(t) ==
  /\ phase[t] = "sending"
  /\ Goto(t, "idle")
  /\ removeRecent(t)
  /\ UNCHANGED <<now, startedAt, row, sentAt, priority>>

(* recoverStartupState, recentSent.                                        *)
RecoveredEntry(t) ==
  IF row[t] = "sent" /\ sentAt[t] >= now - Minute THEN Entry(sentAt[t], priority[t]) ELSE None

(* The process ends, or dies, and is started again.                        *)
Restart ==
  /\ startedAt' = now
  /\ recent' = [t \in Tokens |-> RecoveredEntry(t)]
  /\ row' = [t \in Tokens |-> IF phase[t] = "sending" THEN "unknown" ELSE row[t]]
  /\ phase' = [t \in Tokens |-> "idle"]
  /\ verdict' = [t \in Tokens |-> IF row[t] = "sent" THEN verdict[t] ELSE None]
  /\ lenient' = {t \in lenient : row[t] = "sent"}
  /\ UNCHANGED <<now, sentAt, priority>>

Tick == /\ now < MaxTime /\ now' = now + 1
        /\ UNCHANGED <<startedAt, phase, row, sentAt, priority, recent, verdict, lenient>>

Deliver(t) ==
  \/ \E clock \in Clocks, p \in Priorities : Qualify(t, clock, p)
  \/ \E p \in Priorities : RecheckPasses(t, p)
  \/ Cancel(t) \/ Send(t) \/ RecordSent(t) \/ AnswerIsAmbiguous(t) \/ RetryLater(t) \/ GiveUp(t)

Next == (\E t \in Tokens : Deliver(t)) \/ Restart \/ Tick

Spec == Init /\ [][Next]_vars

-----------------------------------------------------------------------------
(* Properties. *)

Entries == [at : Nat, priority : Priorities] \cup {None}

(* The types; and a delivery under way holds its place, with the priority  *)
(* of its verdict.                                                         *)
TypeOK ==
  /\ now \in Nat /\ startedAt \in 0..now
  /\ phase \in [Tokens -> {"idle", "publish", "checked", "sending"}]
  /\ row \in [Tokens -> {"open", "sent", "unknown"}]
  /\ sentAt \in [Tokens -> 0..now]
  /\ priority \in [Tokens -> Priorities]
  /\ recent \in [Tokens -> Entries] /\ verdict \in [Tokens -> Entries]
  /\ lenient \subseteq Tokens
  /\ \A t \in Tokens : phase[t] # "idle" => row[t] = "open" /\ Has(t) /\ recent[t] = verdict[t]

Card(S) == Cardinality(S)
IsNormal(t) == verdict[t].priority = "normal" /\ priority[t] = "normal"

(* By the clocks of the verdicts, no minute holds more places than the     *)
(* limits allow: of deliveries under way, of unknown outcome in this       *)
(* process, and of cards sent, restarts included.                          *)
Placed(from, to) ==
  {t \in Tokens : verdict[t] # None /\ verdict[t].at \in from..to}
VerdictsWithinLimits ==
  \A to \in 0..now :
    /\ Card(Placed(to - Minute, to)) <= MaxTotal
    /\ Card({t \in Placed(to - Minute, to) : IsNormal(t)}) <= MaxNormal

(* gmgn-bsc-signal detection: in a rolling minute at most so many cards    *)
(* are sent.  The code keeps it for every card whose last recheck saw      *)
(* every card still on its way, with the priority it was reserved for.     *)
Sent(from, to) == {t \in Tokens \ lenient : row[t] = "sent" /\ sentAt[t] \in from..to}
CardsWithinLimits ==
  \A to \in 0..now :
    /\ Card(Sent(to - Minute, to)) <= MaxTotal
    /\ Card({t \in Sent(to - Minute, to) : IsNormal(t)}) <= MaxNormal

(* Two cards of one creator that a process has sent are at least the       *)
(* cooldown apart, on the same condition.                                  *)
CreatorApart ==
  \A t, u \in Sent(startedAt, now) :
    t # u /\ Creator[t] = Creator[u] /\ Creator[t] # NoCreator =>
      sentAt[t] >= sentAt[u] + CreatorCooldown \/ sentAt[u] >= sentAt[t] + CreatorCooldown
=============================================================================
