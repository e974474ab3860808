------------------------- MODULE NoiseControl_proofs -------------------------
(***************************************************************************)
(* The limits of NoiseControl, for every set of tokens and creators, all   *)
(* limits, minutes and cooldowns, and whatever the batches' clocks lag.    *)
(***************************************************************************)
EXTENDS NoiseControl, FiniteSetTheorems, TLAPS

(* Counting sets of tokens.                                                *)
LEMMA Fewer ==
  ASSUME NEW R \in SUBSET Tokens, NEW S \in SUBSET R, NEW n \in Nat, Cardinality(R) <= n
  PROVE  Cardinality(S) <= n
<1>1. IsFiniteSet(R)
  BY NoiseAssumption, FS_Subset
<1>2. Cardinality(S) \in Nat /\ Cardinality(R) \in Nat /\ Cardinality(S) <= Cardinality(R)
  BY <1>1, FS_Subset, FS_CardinalityType
<1> QED BY <1>2

LEMMA OneMore ==
  ASSUME NEW R \in SUBSET Tokens, NEW S \in SUBSET Tokens, NEW t \in Tokens,
         S \ {t} \subseteq R, NEW n \in Nat, Cardinality(R) < n
  PROVE  Cardinality(S) <= n
<1>1. IsFiniteSet(R) /\ IsFiniteSet(R \cup {t}) /\ IsFiniteSet(S)
  BY NoiseAssumption, FS_Subset
<1>2. Cardinality(R \cup {t}) <= Cardinality(R) + 1 /\ Cardinality(R) \in Nat
  BY <1>1, FS_AddElement, FS_CardinalityType
<1>3. S \subseteq R \cup {t}
  OBVIOUS
<1>4. Cardinality(S) \in Nat /\ Cardinality(R \cup {t}) \in Nat
      /\ Cardinality(S) <= Cardinality(R \cup {t})
  BY <1>1, <1>3, FS_Subset, FS_CardinalityType
<1> QED BY <1>2, <1>4

-----------------------------------------------------------------------------
(* How the entries, the verdicts and the rows of a token hang together: an *)
(* entry is never older than its verdict; what has dropped out of          *)
(* recentSignals is older than a minute at the start of the process; a     *)
(* card sent since then still has its entry, with the time of sending.     *)
Consistent(u) ==
  /\ verdict[u] # None => verdict[u].at <= now
  /\ Has(u) => verdict[u] # None /\ verdict[u].at <= recent[u].at
  /\ Has(u) /\ IsNormal(u) => recent[u].priority = "normal"
  /\ verdict[u] # None /\ ~Has(u) => row[u] = "sent" /\ verdict[u].at < startedAt - Minute
  /\ row[u] = "sent" => verdict[u] # None /\ verdict[u].at <= sentAt[u]
  /\ row[u] = "sent" /\ sentAt[u] >= startedAt - Minute => Has(u) /\ recent[u].at = sentAt[u]

Consistency == TypeOK /\ \A u \in Tokens : Consistent(u)

(* All that is kept of a token.                                            *)
Same(u) ==
  /\ phase'[u] = phase[u] /\ row'[u] = row[u] /\ sentAt'[u] = sentAt[u]
  /\ priority'[u] = priority[u] /\ recent'[u] = recent[u] /\ verdict'[u] = verdict[u]
  /\ u \in lenient' <=> u \in lenient

LEMMA OthersSame ==
  ASSUME TypeOK, NEW t \in Tokens, Deliver(t)
  PROVE  UNCHANGED <<now, startedAt>> /\ \A u \in Tokens \ {t} : Same(u)
BY DEF Deliver, Qualify, RecheckPasses, Cancel, Send, RecordSent, AnswerIsAmbiguous, RetryLater,
   GiveUp, Goto, removeRecent, Same, TypeOK

(* What an entry is made of.                                               *)
LEMMA EntryTyped ==
  ASSUME NEW at \in Nat, NEW p \in Priorities
  PROVE  /\ Entry(at, p) \in Entries /\ Entry(at, p) # None
         /\ Entry(at, p).at = at /\ Entry(at, p).priority = p
BY DEF Entry, Entries, None, Priorities

LEMMA EntryParts ==
  ASSUME NEW e \in Entries, e # None PROVE e.at \in Nat /\ e.priority \in Priorities
BY DEF Entries

LEMMA DeliverTyped ==
  ASSUME Consistency, NEW t \in Tokens, Deliver(t) PROVE TypeOK'
<1> USE DEF Consistency, TypeOK, Has
<1> USE NoiseAssumption
<1>1. ASSUME NEW clock \in Clocks, NEW p \in Priorities, Qualify(t, clock, p) PROVE TypeOK'
  <2>1. clock \in Nat
    BY DEF Clocks
  <2> QED BY <1>1, <2>1, EntryTyped DEF Qualify, Goto
<1>2. ASSUME NEW p \in Priorities, RecheckPasses(t, p) PROVE TypeOK'
  BY <1>2 DEF RecheckPasses, Goto
<1>3. CASE Cancel(t) \/ GiveUp(t)
  BY <1>3 DEF Cancel, GiveUp, Goto, removeRecent, Entries
<1>4. CASE Send(t) \/ RetryLater(t) \/ AnswerIsAmbiguous(t)
  BY <1>4 DEF Send, RetryLater, AnswerIsAmbiguous, Goto
<1>5. CASE RecordSent(t)
  <2>1. verdict[t].priority \in Priorities
    BY <1>5, EntryParts DEF RecordSent
  <2> QED BY <1>5, <2>1, EntryTyped DEF RecordSent, SentEntry, Goto
<1> QED BY <1>1, <1>2, <1>3, <1>4, <1>5 DEF Deliver

LEMMA DeliverConsistent ==
  ASSUME Consistency, NEW t \in Tokens, Deliver(t) PROVE Consistency'
<1> USE NoiseAssumption DEF Consistency
<1>1. TypeOK'
  BY DeliverTyped
<1>2. ASSUME NEW u \in Tokens \ {t} PROVE Consistent(u)'
  BY OthersSame DEF Same, Consistent, Has, IsNormal
<1>3. Consistent(t)'
  <2> USE DEF Consistent, Has, IsNormal
  <2>1. ASSUME NEW clock \in Clocks, NEW p \in Priorities, Qualify(t, clock, p)
        PROVE  Consistent(t)'
    <3>1. /\ recent'[t] = Entry(clock, p) /\ verdict'[t] = Entry(clock, p)
          /\ row'[t] = "open" /\ UNCHANGED <<startedAt, sentAt>>
      BY <2>1 DEF Qualify, TypeOK
    <3>2. clock \in Nat /\ clock <= now /\ UNCHANGED now
      BY <2>1 DEF Clocks, TypeOK, Qualify
    <3>3. /\ recent'[t] # None /\ recent'[t] = verdict'[t]
          /\ recent'[t].at = clock /\ row'[t] # "sent"
      BY <3>1, <3>2, EntryTyped
    <3> QED BY <3>2, <3>3
  <2>2. ASSUME NEW p \in Priorities, RecheckPasses(t, p) PROVE Consistent(t)'
    <3>1. recent[t] = verdict[t] /\ row[t] = "open" /\ recent[t] # None
      BY <2>2 DEF RecheckPasses, TypeOK
    <3>2. UNCHANGED <<now, startedAt, row, sentAt, recent, verdict>>
      BY <2>2 DEF RecheckPasses
    <3> QED BY <3>1, <3>2
  <2>3. CASE Cancel(t) \/ GiveUp(t)
    <3>1. /\ recent'[t] = None /\ verdict'[t] = None /\ row[t] = "open"
          /\ UNCHANGED <<now, startedAt, row, sentAt>>
      BY <2>3 DEF Cancel, GiveUp, removeRecent, TypeOK
    <3> QED BY <3>1
  <2>4. CASE Send(t) \/ RetryLater(t) \/ AnswerIsAmbiguous(t)
    <3>1. /\ row[t] = "open" /\ row'[t] # "sent"
          /\ UNCHANGED <<now, startedAt, sentAt, recent, verdict, priority>>
      BY <2>4 DEF Send, RetryLater, AnswerIsAmbiguous, TypeOK
    <3> QED BY <3>1
  <2>5. CASE RecordSent(t)
    <3>1. verdict[t] # None /\ recent[t] = verdict[t] /\ verdict[t].priority \in Priorities
          /\ verdict[t].at \in Nat
      BY <2>5, EntryParts DEF RecordSent, TypeOK
    <3>2. /\ recent'[t] = Entry(now, verdict[t].priority) /\ sentAt'[t] = now
          /\ UNCHANGED <<startedAt, verdict, priority>>
      BY <2>5 DEF RecordSent, SentEntry, TypeOK
    <3>3. verdict[t].at <= now /\ UNCHANGED now /\ now \in Nat
      BY <2>5, <3>1 DEF RecordSent, TypeOK
    <3>4. recent'[t] # None /\ recent'[t].at = now /\ recent'[t].priority = verdict[t].priority
      BY <3>1, <3>2, <3>3, EntryTyped
    <3> QED BY <3>1, <3>2, <3>3, <3>4
  <2> QED BY <2>1, <2>2, <2>3, <2>4, <2>5 DEF Deliver
<1> QED BY <1>1, <1>2, <1>3

LEMMA RestartConsistent == ASSUME Consistency, Restart PROVE Consistency'
<1> USE NoiseAssumption DEF Consistency
<1>1. ASSUME NEW u \in Tokens
      PROVE  /\ recent'[u] = RecoveredEntry(u) /\ recent'[u] \in Entries
             /\ recent'[u] # None => recent'[u] = Entry(sentAt[u], priority[u])
             /\ recent'[u] # None <=> row[u] = "sent" /\ sentAt[u] >= now - Minute
  <2>1. Entry(sentAt[u], priority[u]) \in Entries /\ Entry(sentAt[u], priority[u]) # None
    BY EntryTyped DEF TypeOK
  <2> QED BY <2>1 DEF Restart, RecoveredEntry, Entries
<1>2. TypeOK'
  <2>1. recent' \in [Tokens -> Entries]
    BY <1>1 DEF Restart
  <2>2. verdict' \in [Tokens -> Entries]
    BY DEF Restart, TypeOK, Entries
  <2> QED BY <2>1, <2>2 DEF Restart, TypeOK
<1>3. ASSUME NEW u \in Tokens PROVE Consistent(u)'
  <2>1. /\ startedAt' = now /\ now' = now /\ sentAt'[u] = sentAt[u] /\ priority'[u] = priority[u]
        /\ verdict'[u] # None => verdict'[u] = verdict[u] /\ row[u] = "sent"
        /\ row'[u] = "sent" => row[u] = "sent" /\ verdict'[u] = verdict[u]
    BY DEF Restart, TypeOK
  <2>2. row[u] = "sent" => row'[u] = "sent"
    BY DEF Restart, TypeOK
  <2>3. /\ row[u] = "sent" => verdict[u] # None /\ verdict[u].at <= sentAt[u]
        /\ verdict[u] # None => verdict[u].at <= now /\ verdict[u].at \in Nat
    BY EntryParts DEF Consistent, TypeOK
  <2>4. recent'[u] # None => recent'[u].at = sentAt[u] /\ recent'[u].priority = priority[u]
    BY <1>1, EntryTyped DEF TypeOK
  <2>5. now \in Nat /\ sentAt[u] \in Nat
    BY DEF TypeOK
  <2> QED BY <1>1, <2>1, <2>2, <2>3, <2>4, <2>5 DEF Consistent, Has, IsNormal
<1> QED BY <1>2, <1>3

LEMMA InitConsistent == Init => Consistency
<1> SUFFICES ASSUME Init PROVE Consistency
  OBVIOUS
<1> USE NoiseAssumption
<1>1. TypeOK
  BY DEF Init, TypeOK, Entries, Priorities
<1>2. \A u \in Tokens : Consistent(u)
  BY DEF Init, Consistent, Has, IsNormal
<1> QED BY <1>1, <1>2 DEF Consistency

LEMMA ConsistencyStep == ASSUME Consistency, [Next]_vars PROVE Consistency'
<1>1. CASE Tick
  BY <1>1, NoiseAssumption, EntryParts DEF Consistency, Tick, TypeOK, Consistent, Has, IsNormal
<1>2. CASE UNCHANGED vars
  BY <1>2 DEF vars, Consistency, TypeOK, Consistent, Has, IsNormal
<1> QED BY <1>1, <1>2, DeliverConsistent, RestartConsistent DEF Next

(* The variables are typed, a delivery under way holds its place, and the  *)
(* entries, rows and verdicts agree.                                       *)
THEOREM PlacesAreConsistent == Spec => [](TypeOK /\ Consistency)
<1>1. Consistency => TypeOK
  BY DEF Consistency
<1> QED BY <1>1, InitConsistent, ConsistencyStep, PTL DEF Spec

-----------------------------------------------------------------------------
(* A verdict within the minute that ends at or after a clock of this       *)
(* process is still counted by that clock.                                 *)
LEMMA PlacedIsCounted ==
  ASSUME Consistency, NEW clock \in Clocks, NEW to \in Nat, clock <= to,
         NEW u \in Placed(to - Minute, to)
  PROVE  u \in WithinMinute(Tokens, clock)
<1> USE NoiseAssumption
<1>1. u \in Tokens /\ verdict[u] # None /\ verdict[u].at \in Nat /\ verdict[u].at >= to - Minute
  BY EntryParts DEF Placed, Consistency, TypeOK
<1>2. clock \in Nat /\ startedAt <= clock /\ startedAt \in Nat
  BY DEF Clocks, Consistency, TypeOK
<1>3. Has(u)
  BY <1>1, <1>2 DEF Consistency, Consistent
<1>4. recent[u].at \in Nat /\ verdict[u].at <= recent[u].at
  BY <1>1, <1>3, EntryParts DEF Consistency, Consistent, TypeOK, Has
<1> QED BY <1>1, <1>2, <1>3, <1>4 DEF WithinMinute

(* The verdict's priority, as long as nothing says otherwise: what the     *)
(* entry counts as, or the row once the entry is gone.                     *)
CountsAsNormal(u) ==
  /\ verdict[u].priority = "normal"
  /\ Has(u) => recent[u].priority = "normal"
  /\ ~Has(u) => priority[u] = "normal"
NormalOf(S) == {u \in S : CountsAsNormal(u)}

WithinByVerdict ==
  \A to \in Nat :
    /\ Cardinality(Placed(to - Minute, to)) <= MaxTotal
    /\ Cardinality(NormalOf(Placed(to - Minute, to))) <= MaxNormal

LEMMA NormalCounts ==
  ASSUME Consistency, NEW u \in Tokens, IsNormal(u) PROVE CountsAsNormal(u)
BY DEF Consistency, Consistent, IsNormal, CountsAsNormal

LEMMA QualifyWithin ==
  ASSUME Consistency, WithinByVerdict, NEW t \in Tokens, NEW clock \in Clocks,
         NEW p \in Priorities, Qualify(t, clock, p)
  PROVE  WithinByVerdict'
<1> USE NoiseAssumption
<1> SUFFICES ASSUME NEW to \in Nat
             PROVE  /\ Cardinality(Placed(to - Minute, to)') <= MaxTotal
                    /\ Cardinality(NormalOf(Placed(to - Minute, to))') <= MaxNormal
  BY DEF WithinByVerdict
<1> DEFINE W == Placed(to - Minute, to)
           R == WithinMinute(Tokens, clock)
<1>1. clock \in Nat
  BY DEF Clocks, Consistency, TypeOK
<1>2. /\ verdict'[t] = Entry(clock, p) /\ recent'[t] = Entry(clock, p)
      /\ verdict'[t].at = clock /\ verdict'[t] # None
      /\ verdict'[t].priority = p
      /\ \A u \in Tokens \ {t} : Same(u)
  BY <1>1, EntryTyped DEF Qualify, Consistency, TypeOK, Same, Goto
<1>3. Placed(to - Minute, to)' \ {t} \subseteq W /\ W \subseteq Tokens
  BY <1>2 DEF Placed, Same
<1>4. NormalOf(Placed(to - Minute, to))' \ {t} \subseteq NormalOf(W)
  BY <1>2, <1>3 DEF NormalOf, CountsAsNormal, Same, Has, Placed
<1>5. CASE clock \in (to - Minute)..to
  <2>1. W \subseteq R
    BY <1>1, <1>5, PlacedIsCounted
  <2>2. NormalOf(W) \subseteq Normal(R)
    BY <2>1 DEF NormalOf, CountsAsNormal, Normal, WithinMinute
  <2>3. Cardinality(R) < MaxTotal /\ (p = "normal" => Cardinality(Normal(R)) < MaxNormal)
    BY DEF Qualify, accepted
  <2>4. R \subseteq Tokens /\ Normal(R) \subseteq Tokens
        /\ Placed(to - Minute, to)' \subseteq Tokens /\ NormalOf(Placed(to - Minute, to))' \subseteq Tokens
    BY DEF WithinMinute, Normal, Placed, NormalOf
  <2>5. Cardinality(Placed(to - Minute, to)') <= MaxTotal
    BY <1>3, <2>1, <2>3, <2>4, OneMore
  <2>6. CASE p = "normal"
    BY <1>4, <2>2, <2>3, <2>4, <2>5, <2>6, OneMore
  <2>7. CASE p # "normal"
    <3>1. t \notin NormalOf(Placed(to - Minute, to))'
      BY <1>2, <2>7 DEF NormalOf, CountsAsNormal
    <3>2. NormalOf(Placed(to - Minute, to))' \subseteq NormalOf(W) /\ NormalOf(W) \subseteq Tokens
      BY <1>3, <1>4, <3>1 DEF NormalOf
    <3> QED BY <2>5, <3>2, Fewer DEF WithinByVerdict
  <2> QED BY <2>6, <2>7
<1>6. CASE clock \notin (to - Minute)..to
  <2>1. Placed(to - Minute, to)' \subseteq W /\ NormalOf(Placed(to - Minute, to))' \subseteq NormalOf(W)
        /\ NormalOf(W) \subseteq Tokens
    BY <1>2, <1>3, <1>4, <1>6 DEF Placed, NormalOf
  <2> QED BY <1>3, <2>1, Fewer DEF WithinByVerdict
<1> QED BY <1>5, <1>6

(* Every other step keeps the verdicts it does not drop, and what they     *)
(* count as.                                                               *)
FewerPlaces ==
  \A u \in Tokens :
    verdict'[u] # None => /\ verdict'[u] = verdict[u]
                          /\ CountsAsNormal(u)' => CountsAsNormal(u)

LEMMA FewerWithin == ASSUME WithinByVerdict, FewerPlaces PROVE WithinByVerdict'
<1> USE NoiseAssumption
<1> SUFFICES ASSUME NEW to \in Nat
             PROVE  /\ Cardinality(Placed(to - Minute, to)') <= MaxTotal
                    /\ Cardinality(NormalOf(Placed(to - Minute, to))') <= MaxNormal
  BY DEF WithinByVerdict
<1> DEFINE W == Placed(to - Minute, to)
<1>1. /\ W \subseteq Tokens /\ NormalOf(W) \subseteq Tokens
      /\ W' \subseteq W /\ NormalOf(W)' \subseteq NormalOf(W)
  BY DEF FewerPlaces, Placed, NormalOf
<1> QED BY <1>1, Fewer DEF WithinByVerdict

LEMMA DeliverFewer ==
  ASSUME Consistency, NEW t \in Tokens, Deliver(t),
         \A clock \in Clocks, p \in Priorities : ~Qualify(t, clock, p)
  PROVE  FewerPlaces
<1>1. ASSUME NEW u \in Tokens \ {t}
      PROVE  verdict'[u] = verdict[u] /\ (CountsAsNormal(u)' => CountsAsNormal(u))
  BY OthersSame DEF Same, CountsAsNormal, Has, Consistency
<1>2. verdict'[t] # None => verdict'[t] = verdict[t] /\ (CountsAsNormal(t)' => CountsAsNormal(t))
  <2> USE DEF CountsAsNormal, Has, Consistency, TypeOK
  <2>1. CASE \E p \in Priorities : RecheckPasses(t, p)
    <3>1. recent[t] # None /\ UNCHANGED <<recent, verdict>>
      BY <2>1 DEF RecheckPasses
    <3> QED BY <3>1
  <2>2. CASE Cancel(t) \/ GiveUp(t)
    BY <2>2 DEF Cancel, GiveUp, removeRecent
  <2>3. CASE Send(t) \/ RetryLater(t) \/ AnswerIsAmbiguous(t)
    BY <2>3 DEF Send, RetryLater, AnswerIsAmbiguous
  <2>4. CASE RecordSent(t)
    BY <2>4 DEF RecordSent
  <2> QED BY <2>1, <2>2, <2>3, <2>4 DEF Deliver
<1> QED BY <1>1, <1>2 DEF FewerPlaces

LEMMA RestartFewer == ASSUME Consistency, Restart PROVE FewerPlaces
<1> SUFFICES ASSUME NEW u \in Tokens, verdict'[u] # None
             PROVE  verdict'[u] = verdict[u] /\ (CountsAsNormal(u)' => CountsAsNormal(u))
  BY DEF FewerPlaces
<1>1. row[u] = "sent" /\ verdict'[u] = verdict[u] /\ priority'[u] = priority[u]
  BY DEF Restart, Consistency, TypeOK
<1>2. Has(u)' => recent'[u] = Entry(sentAt[u], priority[u])
  BY DEF Restart, RecoveredEntry, Has
<1>3. CountsAsNormal(u)' => IsNormal(u)
  BY <1>1, <1>2, EntryTyped DEF CountsAsNormal, IsNormal, Consistency, TypeOK
<1> QED BY <1>1, <1>3, NormalCounts

LEMMA WithinStep ==
  ASSUME Consistency, WithinByVerdict, [Next]_vars PROVE WithinByVerdict'
<1>1. ASSUME NEW t \in Tokens, Deliver(t) PROVE WithinByVerdict'
  <2>1. CASE \A clock \in Clocks, p \in Priorities : ~Qualify(t, clock, p)
    BY <1>1, <2>1, DeliverFewer, FewerWithin
  <2> QED BY <2>1, QualifyWithin
<1>2. CASE Tick \/ UNCHANGED vars
  <2>1. FewerPlaces
    BY <1>2 DEF Tick, vars, FewerPlaces, CountsAsNormal, Has
  <2> QED BY <2>1, FewerWithin
<1> QED BY <1>1, <1>2, RestartFewer, FewerWithin DEF Next

(* By the clocks of the verdicts no minute ever holds more places than the *)
(* limits allow, restarts and late batches included.                       *)
THEOREM VerdictsKeepLimits == Spec => []VerdictsWithinLimits
<1>1. Init => WithinByVerdict
  <2> SUFFICES ASSUME Init, NEW to \in Nat
               PROVE  /\ Cardinality(Placed(to - Minute, to)) <= MaxTotal
                      /\ Cardinality(NormalOf(Placed(to - Minute, to))) <= MaxNormal
    BY DEF WithinByVerdict
  <2>1. Placed(to - Minute, to) = {} /\ NormalOf(Placed(to - Minute, to)) = {}
    BY DEF Init, Placed, NormalOf
  <2> QED BY <2>1, FS_EmptySet, NoiseAssumption
<1>2. Consistency /\ WithinByVerdict => VerdictsWithinLimits
  <2> SUFFICES ASSUME Consistency, WithinByVerdict, NEW to \in 0..now
               PROVE  /\ Cardinality(Placed(to - Minute, to)) <= MaxTotal
                      /\ Cardinality({t \in Placed(to - Minute, to) : IsNormal(t)}) <= MaxNormal
    BY DEF VerdictsWithinLimits, Card
  <2>1. to \in Nat
    BY DEF Consistency, TypeOK
  <2>2. {t \in Placed(to - Minute, to) : IsNormal(t)} \subseteq NormalOf(Placed(to - Minute, to))
    BY NormalCounts DEF Placed, NormalOf
  <2>3. NormalOf(Placed(to - Minute, to)) \subseteq Tokens
    BY DEF NormalOf, Placed
  <2> QED BY <2>1, <2>2, <2>3, Fewer, NoiseAssumption DEF WithinByVerdict
<1>3. Consistency /\ WithinByVerdict /\ [Next]_vars => WithinByVerdict'
  BY WithinStep
<1> QED BY <1>1, <1>2, <1>3, PlacesAreConsistent, PTL DEF Spec

-----------------------------------------------------------------------------
(* Cards.  Those a recheck has let through are counted from then on, sent  *)
(* or not: the recheck that lets another through has seen them all.        *)
Cards ==
  {u \in Tokens \ lenient :
     \/ row[u] = "sent" /\ sentAt[u] >= now - Minute
     \/ phase[u] \in {"checked", "sending"}}
NormalCards == {u \in Cards : IsNormal(u)}
CardsInv == Cardinality(Cards) <= MaxTotal /\ Cardinality(NormalCards) <= MaxNormal

LEMMA FewerCards ==
  ASSUME CardsInv, Cards' \subseteq Cards, \A u \in Cards' : IsNormal(u)' => IsNormal(u)
  PROVE  CardsInv'
<1>1. Cards \subseteq Tokens /\ NormalCards \subseteq Tokens /\ NormalCards' \subseteq NormalCards
  BY DEF Cards, NormalCards
<1> QED BY <1>1, Fewer, NoiseAssumption DEF CardsInv

LEMMA RecheckCards ==
  ASSUME Consistency, CardsInv, NEW t \in Tokens, NEW p \in Priorities, RecheckPasses(t, p)
  PROVE  CardsInv'
<1> USE NoiseAssumption
<1>1. /\ UNCHANGED <<now, row, sentAt, recent, verdict>> /\ phase[t] = "publish" /\ row[t] = "open"
      /\ \A u \in Tokens \ {t} : Same(u)
  BY OthersSame DEF RecheckPasses, Deliver, Consistency, TypeOK
<1>2. CASE t \in lenient'
  <2>1. Cards' \subseteq Cards /\ \A u \in Cards' : IsNormal(u)' => IsNormal(u)
    BY <1>1, <1>2 DEF Cards, Same, IsNormal
  <2> QED BY <2>1, FewerCards
<1>3. CASE t \notin lenient'
  <2> DEFINE R == WithinMinute(Tokens \ {t}, now)
  <2>1. ~Overlooks(t) /\ p = verdict[t].priority
    BY <1>3 DEF RecheckPasses, Consistency, TypeOK
  <2>2. Cardinality(R) < MaxTotal /\ (p = "normal" => Cardinality(Normal(R)) < MaxNormal)
    BY DEF RecheckPasses, RecheckAccepts, accepted
  <2>3. ASSUME NEW u \in Cards' \ {t} PROVE u \in R /\ (IsNormal(u)' => u \in Normal(R))
    <3>1. u \in Tokens \ {t} /\ Consistent(u) /\ now \in Nat /\ startedAt \in 0..now
      BY DEF Cards, Consistency, TypeOK
    <3>2. \/ row[u] = "sent" /\ sentAt[u] >= now - Minute
          \/ phase[u] \in {"checked", "sending"}
      BY <1>1, <3>1 DEF Cards, Same
    <3>3. CASE row[u] = "sent" /\ sentAt[u] >= now - Minute
      <4>1. sentAt[u] \in Nat /\ sentAt[u] >= startedAt - Minute
        BY <3>1, <3>3 DEF Consistency, TypeOK
      <4>2. Has(u) /\ recent[u].at >= now - Minute
        BY <3>1, <3>3, <4>1 DEF Consistent
      <4> QED BY <1>1, <3>1, <4>2 DEF WithinMinute, Normal, Consistent, Same, IsNormal
    <3>4. CASE phase[u] \in {"checked", "sending"}
      <4>1. Has(u) /\ recent[u].at \in Nat
        BY <3>1, <3>4, EntryParts DEF Consistency, TypeOK, Has
      <4>2. ~(recent[u].at < now - Minute)
        BY <2>1, <3>1, <3>4 DEF Overlooks
      <4>3. recent[u].at >= now - Minute
        BY <3>1, <4>1, <4>2
      <4> QED BY <1>1, <3>1, <4>1, <4>3 DEF WithinMinute, Normal, Consistent, Same, IsNormal
    <3> QED BY <3>2, <3>3, <3>4
  <2>4. R \subseteq Tokens /\ Normal(R) \subseteq Tokens
        /\ Cards' \subseteq Tokens /\ NormalCards' \subseteq Tokens
    BY DEF WithinMinute, Normal, Cards, NormalCards
  <2>5. Cardinality(Cards') <= MaxTotal
    BY <2>2, <2>3, <2>4, OneMore
  <2>6. CASE p = "normal"
    <3>1. NormalCards' \ {t} \subseteq Normal(R)
      BY <2>3 DEF NormalCards
    <3>2. Cardinality(NormalCards') <= MaxNormal
      BY <2>2, <2>4, <2>6, <3>1, OneMore
    <3> QED BY <2>5, <3>2 DEF CardsInv
  <2>7. CASE p # "normal"
    <3>1. t \notin NormalCards'
      BY <1>1, <2>1, <2>7 DEF NormalCards, IsNormal
    <3>2. NormalCards' \subseteq NormalCards
      BY <1>1, <3>1 DEF NormalCards, Cards, Same, IsNormal
    <3>3. NormalCards \subseteq Tokens
      BY DEF NormalCards, Cards
    <3> QED BY <2>5, <3>2, <3>3, Fewer DEF CardsInv
  <2> QED BY <2>6, <2>7
<1> QED BY <1>2, <1>3

LEMMA DeliverCards ==
  ASSUME Consistency, CardsInv, NEW t \in Tokens, Deliver(t) PROVE CardsInv'
<1> USE NoiseAssumption
<1>1. UNCHANGED now /\ \A u \in Tokens \ {t} : Same(u)
  BY OthersSame DEF Consistency
<1>2. ASSUME t \in Cards' => t \in Cards /\ (IsNormal(t)' => IsNormal(t)) PROVE CardsInv'
  <2>1. Cards' \subseteq Cards /\ \A u \in Cards' : IsNormal(u)' => IsNormal(u)
    BY <1>1, <1>2 DEF Cards, Same, IsNormal
  <2> QED BY <2>1, FewerCards
<1>3. ASSUME NEW clock \in Clocks, NEW p \in Priorities, Qualify(t, clock, p) PROVE CardsInv'
  <2>1. t \notin Cards'
    BY <1>3 DEF Qualify, Goto, Cards, Consistency, TypeOK
  <2> QED BY <1>2, <2>1
<1>4. ASSUME NEW p \in Priorities, RecheckPasses(t, p) PROVE CardsInv'
  BY <1>4, RecheckCards
<1>5. CASE Cancel(t) \/ RetryLater(t) \/ GiveUp(t) \/ AnswerIsAmbiguous(t)
  <2>1. t \notin Cards'
    BY <1>5 DEF Cancel, RetryLater, GiveUp, AnswerIsAmbiguous, Goto, Cards, Consistency, TypeOK
  <2> QED BY <1>2, <2>1
<1>6. CASE Send(t) \/ RecordSent(t)
  <2>1. /\ phase[t] \in {"checked", "sending"} /\ UNCHANGED <<priority, verdict, lenient>>
    BY <1>6 DEF Send, RecordSent
  <2>2. t \in Cards' => t \in Cards
    BY <2>1 DEF Cards
  <2> QED BY <1>2, <2>1, <2>2 DEF IsNormal
<1> QED BY <1>3, <1>4, <1>5, <1>6 DEF Deliver

LEMMA CardsStep == ASSUME Consistency, CardsInv, [Next]_vars PROVE CardsInv'
<1> USE NoiseAssumption
<1>1. CASE Restart
  <2>1. Cards' \subseteq Cards /\ \A u \in Cards' : IsNormal(u)' => IsNormal(u)
    BY <1>1 DEF Restart, Cards, IsNormal, Consistency, TypeOK
  <2> QED BY <2>1, FewerCards
<1>2. CASE Tick
  <2>1. Cards' \subseteq Cards /\ \A u \in Cards' : IsNormal(u)' => IsNormal(u)
    BY <1>2 DEF Tick, Cards, IsNormal, Consistency, TypeOK
  <2> QED BY <2>1, FewerCards
<1>3. CASE UNCHANGED vars
  BY <1>3 DEF vars, CardsInv, Cards, NormalCards, IsNormal
<1> QED BY <1>1, <1>2, <1>3, DeliverCards DEF Next

(* What a step does to a row that is sent: nothing, or it has just made it *)
(* so.                                                                     *)
Kept(u) ==
  /\ row[u] = "sent" /\ sentAt'[u] = sentAt[u] /\ verdict'[u] = verdict[u]
  /\ priority'[u] = priority[u] /\ (u \in lenient' <=> u \in lenient)
JustSent(u) ==
  /\ phase[u] = "sending" /\ sentAt'[u] = now /\ UNCHANGED <<now, startedAt>>
  /\ (u \in lenient' <=> u \in lenient)

LEMMA SentStays ==
  ASSUME Consistency, [Next]_vars, NEW u \in Tokens, row'[u] = "sent"
  PROVE  Kept(u) \/ JustSent(u)
<1>1. ASSUME NEW t \in Tokens, Deliver(t), t # u PROVE Kept(u)
  BY <1>1, OthersSame DEF Kept, Same, Consistency
<1>2. CASE Deliver(u)
  BY <1>2 DEF Deliver, Qualify, RecheckPasses, Cancel, Send, RecordSent, AnswerIsAmbiguous,
     RetryLater, GiveUp, Goto, removeRecent, Kept, JustSent, Consistency, TypeOK
<1>3. CASE Restart
  BY <1>3 DEF Restart, Kept, Consistency, TypeOK
<1>4. CASE Tick \/ UNCHANGED vars
  BY <1>4 DEF Tick, vars, Kept
<1> QED BY <1>1, <1>2, <1>3, <1>4 DEF Next

LEMMA TimeGoesOn == ASSUME Consistency, [Next]_vars PROVE now \in Nat /\ now' \in now..(now + 1)
<1>1. now \in Nat
  BY DEF Consistency, TypeOK
<1>2. now' = now \/ now' = now + 1
  BY OthersSame DEF Next, Restart, Tick, vars, Consistency
<1> QED BY <1>1, <1>2

(* The windows that are past keep what they hold; the one that ends now    *)
(* holds no more than Cards.                                               *)
LEMMA WindowsStep ==
  ASSUME Consistency, CardsInv, CardsWithinLimits, [Next]_vars
  PROVE  CardsWithinLimits'
<1> USE NoiseAssumption
<1>1. Consistency' /\ CardsInv'
  BY ConsistencyStep, CardsStep
<1>2. now \in Nat /\ now' \in now..(now + 1)
  BY TimeGoesOn
<1> SUFFICES ASSUME NEW to \in 0..now'
             PROVE  /\ Cardinality(Sent(to - Minute, to)') <= MaxTotal
                    /\ Cardinality({t \in Sent(to - Minute, to)' : IsNormal(t)'}) <= MaxNormal
  BY DEF CardsWithinLimits, Card
<1> DEFINE S == Sent(to - Minute, to)
           N == {t \in S : IsNormal(t)}
<1>3. to \in Nat
  BY <1>2
<1>4. CASE to < now'
  <2>1. to \in 0..now
    BY <1>2, <1>3, <1>4
  <2>2. ASSUME NEW u \in S' PROVE u \in S /\ (IsNormal(u)' => IsNormal(u))
    <3>1. u \in Tokens \ lenient' /\ row'[u] = "sent" /\ sentAt'[u] \in (to - Minute)..to
      BY DEF Sent
    <3>2. ~JustSent(u)
      BY <1>2, <1>3, <1>4, <3>1 DEF JustSent
    <3>3. Kept(u)
      BY <3>1, <3>2, SentStays
    <3> QED BY <3>1, <3>3 DEF Kept, Sent, IsNormal
  <2>3. S \subseteq Tokens /\ N \subseteq Tokens /\ S' \subseteq S /\ N' \subseteq N
    BY <2>2 DEF Sent
  <2>4. Cardinality(S) <= MaxTotal /\ Cardinality(N) <= MaxNormal
    BY <2>1 DEF CardsWithinLimits, Card
  <2>5. Cardinality(S') <= MaxTotal
    BY <2>3, <2>4, Fewer
  <2>6. Cardinality(N') <= MaxNormal
    BY <2>3, <2>4, Fewer
  <2> QED BY <2>5, <2>6
<1>5. CASE to = now'
  <2>1. ASSUME NEW u \in S' PROVE u \in Cards'
    BY <1>2, <1>3, <1>5 DEF Sent, Cards
  <2>2. /\ Cards' \subseteq Tokens /\ NormalCards' \subseteq Tokens
        /\ S' \subseteq Cards' /\ N' \subseteq NormalCards'
    BY <2>1 DEF Cards, NormalCards
  <2>3. Cardinality(S') <= MaxTotal
    BY <1>1, <2>2, Fewer DEF CardsInv
  <2>4. Cardinality(N') <= MaxNormal
    BY <1>1, <2>2, Fewer DEF CardsInv
  <2> QED BY <2>3, <2>4
<1> QED BY <1>2, <1>3, <1>4, <1>5

LEMMA NoCardsYet == ASSUME Init PROVE CardsInv /\ CardsWithinLimits
<1> USE NoiseAssumption
<1>1. Cards = {} /\ NormalCards = {}
  BY DEF Init, Cards, NormalCards
<1>2. ASSUME NEW to \in 0..now
      PROVE  /\ Sent(to - Minute, to) = {}
             /\ {t \in Sent(to - Minute, to) : IsNormal(t)} = {}
  BY DEF Init, Sent
<1>3. Cardinality({}) <= MaxTotal /\ Cardinality({}) <= MaxNormal
  BY FS_EmptySet
<1>4. CardsInv
  BY <1>1, <1>3 DEF CardsInv
<1>5. CardsWithinLimits
  BY <1>2, <1>3 DEF CardsWithinLimits, Card
<1> QED BY <1>4, <1>5

(* In no minute are more cards sent than the limits allow, restarts        *)
(* included, but for those a recheck has let through without seeing all.   *)
THEOREM CardsKeepLimits == Spec => []CardsWithinLimits
<1>1. Consistency /\ CardsInv /\ CardsWithinLimits /\ [Next]_vars => CardsInv' /\ CardsWithinLimits'
  BY CardsStep, WindowsStep
<1> QED BY <1>1, NoCardsYet, PlacesAreConsistent, PTL DEF Spec

-----------------------------------------------------------------------------
(* Creators.  Of the cards a recheck has let through, those on their way   *)
(* are of different creators, and a creator's last card is a cooldown old  *)
(* when the next is on its way.                                            *)
SameCreator(t, u) == t # u /\ Creator[t] = Creator[u] /\ Creator[t] # NoCreator
Live == {u \in Tokens \ lenient : phase[u] \in {"checked", "sending"}}
Mine == Sent(startedAt, now)

CreatorInv ==
  /\ \A t, u \in Live : ~SameCreator(t, u)
  /\ \A t \in Live, u \in Mine : SameCreator(t, u) => sentAt[u] + CreatorCooldown <= now
  /\ CreatorApart

LEMMA FewerLive ==
  ASSUME Consistency, CreatorInv, now' \in Nat, now <= now', Live' \subseteq Live,
         Mine' \subseteq Mine, \A u \in Mine' : sentAt'[u] = sentAt[u]
  PROVE  CreatorInv'
<1> USE NoiseAssumption
<1>1. ASSUME NEW t \in Live', NEW u \in Live' PROVE ~SameCreator(t, u)'
  BY DEF CreatorInv, SameCreator
<1>2. ASSUME NEW t \in Live', NEW u \in Mine', SameCreator(t, u)'
      PROVE  sentAt'[u] + CreatorCooldown <= now'
  <2>1. sentAt[u] + CreatorCooldown <= now /\ sentAt'[u] = sentAt[u]
    BY <1>2 DEF CreatorInv, SameCreator
  <2>2. sentAt[u] \in Nat /\ now \in Nat
    BY DEF Mine, Sent, Consistency, TypeOK
  <2> QED BY <2>1, <2>2
<1>3. CreatorApart'
  BY DEF CreatorInv, CreatorApart, Mine
<1> QED BY <1>1, <1>2, <1>3 DEF CreatorInv

(* A recheck sees the entries of all cards on their way and of all cards   *)
(* this process has sent.                                                  *)
LEMMA RecheckCreators ==
  ASSUME Consistency, CreatorInv, NEW t \in Tokens, NEW p \in Priorities, RecheckPasses(t, p)
  PROVE  CreatorInv'
<1> USE NoiseAssumption
<1>1. /\ UNCHANGED <<now, startedAt, row, sentAt, recent, verdict>>
      /\ phase[t] = "publish" /\ row[t] = "open"
      /\ \A u \in Tokens \ {t} : Same(u)
  BY OthersSame DEF RecheckPasses, Deliver, Consistency, TypeOK
<1>2. now \in Nat /\ startedAt \in Nat /\ \A u \in Tokens : sentAt[u] \in Nat
  BY DEF Consistency, TypeOK
<1>3. Mine' = Mine
  BY <1>1 DEF Mine, Sent, Same
<1>4. Live' \ {t} \subseteq Live
  BY <1>1 DEF Live, Same
<1>5. CASE t \notin Live'
  BY <1>1, <1>2, <1>3, <1>4, <1>5, FewerLive
<1>6. CASE t \in Live'
  <2>1. ~Overlooks(t)
    BY <1>6 DEF Live, RecheckPasses, Consistency, TypeOK
  <2>2. ASSUME NEW u \in Tokens, Has(u), SameCreator(t, u) \/ SameCreator(u, t)
        PROVE  recent[u].at <= now - CreatorCooldown /\ u # t
    BY <2>2 DEF RecheckPasses, RecheckAccepts, accepted, CreatorQuiet, SameCreator
  <2>3. ASSUME NEW u \in Live PROVE ~SameCreator(t, u) /\ ~SameCreator(u, t)
    <3>1. u \in Tokens /\ phase[u] \in {"checked", "sending"} /\ Has(u)
      BY DEF Live, Consistency, TypeOK
    <3>2. recent[u].at \in Nat
      BY <3>1, EntryParts DEF Has, Consistency, TypeOK
    <3>3. u # t => ~(recent[u].at < now - Minute)
      BY <2>1, <3>1 DEF Overlooks
    <3>4. ~(recent[u].at <= now - CreatorCooldown /\ u # t)
      BY <1>2, <3>2, <3>3
    <3> QED BY <2>2, <3>1, <3>4
  <2>4. ASSUME NEW u \in Mine, SameCreator(t, u) PROVE sentAt[u] + CreatorCooldown <= now
    <3>1. u \in Tokens /\ row[u] = "sent" /\ sentAt[u] >= startedAt
      BY DEF Mine, Sent
    <3>2. sentAt[u] >= startedAt - Minute
      BY <1>2, <3>1
    <3>3. Has(u) /\ recent[u].at = sentAt[u]
      BY <3>1, <3>2 DEF Consistency, Consistent
    <3>4. sentAt[u] <= now - CreatorCooldown
      BY <2>2, <2>4, <3>1, <3>3
    <3> QED BY <1>2, <3>1, <3>4
  <2>5. ASSUME NEW v \in Live', NEW u \in Live' PROVE ~SameCreator(v, u)
    BY <1>4, <2>3 DEF CreatorInv, SameCreator
  <2>6. ASSUME NEW v \in Live', NEW u \in Mine, SameCreator(v, u)
        PROVE  sentAt[u] + CreatorCooldown <= now
    BY <1>4, <2>4, <2>6 DEF CreatorInv
  <2>7. CreatorApart'
    BY <1>1, <1>3 DEF CreatorInv, CreatorApart, Mine
  <2> QED BY <1>1, <1>3, <2>5, <2>6, <2>7 DEF CreatorInv, SameCreator
<1> QED BY <1>5, <1>6

LEMMA RecordCreators ==
  ASSUME Consistency, CreatorInv, NEW t \in Tokens, RecordSent(t)
  PROVE  CreatorInv'
<1> USE NoiseAssumption
<1>1. /\ UNCHANGED <<now, startedAt, lenient>> /\ phase[t] = "sending" /\ sentAt'[t] = now
      /\ row[t] = "open" /\ phase'[t] = "idle" /\ \A u \in Tokens \ {t} : Same(u)
  BY OthersSame DEF RecordSent, Deliver, Goto, Consistency, TypeOK
<1>2. now \in Nat /\ \A u \in Tokens : sentAt[u] \in Nat
  BY DEF Consistency, TypeOK
<1>3. Live' \subseteq Live /\ t \notin Live'
  BY <1>1 DEF Live, Same
<1>4. Mine' \ {t} \subseteq Mine /\ t \notin Mine
      /\ \A u \in Mine' \ {t} : u \in Tokens /\ sentAt'[u] = sentAt[u]
  BY <1>1 DEF Mine, Sent, Same
<1>5. t \in Mine' => t \in Live
  BY <1>1 DEF Mine, Sent, Live
<1>6. ASSUME NEW v \in Live', NEW u \in Live' PROVE ~SameCreator(v, u)
  BY <1>3 DEF CreatorInv
<1>7. ASSUME NEW v \in Live', NEW u \in Mine', SameCreator(v, u)
      PROVE  sentAt'[u] + CreatorCooldown <= now
  <2>1. u # t
    BY <1>3, <1>5, <1>7 DEF CreatorInv
  <2> QED BY <1>3, <1>4, <1>7, <2>1 DEF CreatorInv
<1>8. ASSUME NEW v \in Mine', NEW u \in Mine', SameCreator(v, u)
      PROVE  \/ sentAt'[v] >= sentAt'[u] + CreatorCooldown
             \/ sentAt'[u] >= sentAt'[v] + CreatorCooldown
  <2>1. CASE v # t /\ u # t
    <3>1. v \in Mine /\ u \in Mine /\ sentAt'[v] = sentAt[v] /\ sentAt'[u] = sentAt[u]
      BY <1>4, <2>1
    <3> QED BY <1>8, <3>1 DEF CreatorInv, CreatorApart, Mine, SameCreator
  <2>2. CASE v = t
    <3>1. u \in Mine /\ u \in Tokens /\ sentAt'[u] = sentAt[u] /\ t \in Live
      BY <1>4, <1>5, <1>8, <2>2 DEF SameCreator
    <3>2. sentAt[u] + CreatorCooldown <= now
      BY <1>8, <2>2, <3>1 DEF CreatorInv
    <3> QED BY <1>1, <1>2, <2>2, <3>1, <3>2
  <2>3. CASE u = t
    <3>1. v \in Mine /\ v \in Tokens /\ sentAt'[v] = sentAt[v] /\ t \in Live
      BY <1>4, <1>5, <1>8, <2>3 DEF SameCreator
    <3>2. sentAt[v] + CreatorCooldown <= now
      BY <1>8, <2>3, <3>1 DEF CreatorInv, SameCreator
    <3> QED BY <1>1, <1>2, <2>3, <3>1, <3>2
  <2> QED BY <2>1, <2>2, <2>3
<1>9. CreatorApart'
  BY <1>8 DEF CreatorApart, Mine, SameCreator
<1> QED BY <1>1, <1>6, <1>7, <1>9 DEF CreatorInv, SameCreator

LEMMA CreatorStep == ASSUME Consistency, CreatorInv, [Next]_vars PROVE CreatorInv'
<1> USE NoiseAssumption
<1>1. now \in Nat /\ now' \in Nat /\ now <= now'
  BY TimeGoesOn
<1>2. ASSUME NEW t \in Tokens, Deliver(t) PROVE CreatorInv'
  <2>1. UNCHANGED <<now, startedAt>> /\ \A u \in Tokens \ {t} : Same(u)
    BY <1>2, OthersSame DEF Consistency
  <2>2. ASSUME t \in Live' => t \in Live, row'[t] # "sent" PROVE CreatorInv'
    <3>1. Live' \subseteq Live
      BY <2>1, <2>2 DEF Live, Same
    <3>2. Mine' \subseteq Mine /\ \A u \in Mine' : sentAt'[u] = sentAt[u]
      BY <2>1, <2>2 DEF Mine, Sent, Same
    <3> QED BY <1>1, <3>1, <3>2, FewerLive
  <2>3. CASE \E clock \in Clocks, p \in Priorities : Qualify(t, clock, p)
    BY <2>2, <2>3 DEF Qualify, Goto, Live, Consistency, TypeOK
  <2>4. CASE \E p \in Priorities : RecheckPasses(t, p)
    BY <2>4, RecheckCreators
  <2>5. CASE RecordSent(t)
    BY <2>5, RecordCreators
  <2>6. CASE Cancel(t) \/ RetryLater(t) \/ GiveUp(t) \/ AnswerIsAmbiguous(t)
    BY <2>2, <2>6 DEF Cancel, RetryLater, GiveUp, AnswerIsAmbiguous, Goto, Live, Consistency, TypeOK
  <2>7. CASE Send(t)
    BY <2>2, <2>7 DEF Send, Goto, Live, Consistency, TypeOK
  <2> QED BY <1>2, <2>3, <2>4, <2>5, <2>6, <2>7 DEF Deliver
<1>3. CASE Restart \/ Tick \/ UNCHANGED vars
  <2>1. Live' \subseteq Live
    BY <1>3 DEF Restart, Tick, vars, Live
  <2>2. startedAt \in Nat /\ startedAt' \in Nat /\ startedAt <= startedAt' /\ startedAt <= now
        /\ \A u \in Tokens : sentAt[u] \in 0..now
    BY <1>3 DEF Restart, Tick, vars, Consistency, TypeOK
  <2>3. ASSUME NEW u \in Mine' PROVE u \in Mine /\ sentAt'[u] = sentAt[u]
    <3>1. u \in Tokens /\ u \notin lenient' /\ row'[u] = "sent" /\ sentAt'[u] \in startedAt'..now'
      BY DEF Mine, Sent
    <3>2. UNCHANGED sentAt /\ row[u] = "sent" /\ (u \in lenient' <=> u \in lenient)
      BY <1>3, <3>1 DEF Restart, Tick, vars, Consistency, TypeOK
    <3>3. sentAt[u] \in startedAt..now
      BY <1>1, <2>2, <3>1, <3>2
    <3> QED BY <3>1, <3>2, <3>3 DEF Mine, Sent
  <2> QED BY <1>1, <2>1, <2>3, FewerLive
<1> QED BY <1>2, <1>3 DEF Next

(* No process sends two cards of one creator within the cooldown, but for  *)
(* those a recheck has let through without seeing all.                     *)
THEOREM CreatorsAreApart == Spec => []CreatorApart
<1>1. Init => CreatorInv
  BY DEF Init, CreatorInv, Live, Mine, Sent, CreatorApart
<1>2. CreatorInv => CreatorApart
  BY DEF CreatorInv
<1>3. Consistency /\ CreatorInv /\ [Next]_vars => CreatorInv'
  BY CreatorStep
<1> QED BY <1>1, <1>2, <1>3, PlacesAreConsistent, PTL DEF Spec
=============================================================================
