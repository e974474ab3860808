---------------------- MODULE SignalEvaluation_proofs ----------------------
(***************************************************************************)
(* What holds of the evaluations for any number of tokens and batches:     *)
(* each batch that is not finished is in one chain, once, at the first of  *)
(* its tokens that are left; and no answer about security is overlooked.   *)
(***************************************************************************)
EXTENDS SignalEvaluation, SequenceTheorems, WellFoundedInduction, TLAPS

(* Entry i of the chain of t is one of batch b.                            *)
Carries(chains, t, i, b) == i \in 1..Len(chains[t]) /\ chains[t][i].batch = b

(* A batch waits in the chain of the first token it has left, and nowhere  *)
(* else; one that has none left waits nowhere.                             *)
Placed(chains, left, b) ==
  /\ \A t \in Tokens, i \in Nat : Carries(chains, t, i, b) =>
       t \in left /\ \A u \in left : t <= u
  /\ \A t, u \in Tokens, i, k \in Nat :
       Carries(chains, t, i, b) /\ Carries(chains, u, k, b) => t = u /\ i = k
  /\ left # {} => \E t \in Tokens, i \in Nat : Carries(chains, t, i, b)

Entries(time) == [clock : 0..time, batch : Batches \cup {Completion}]
ChainsTyped ==
  /\ now \in Nat
  /\ queue \in [Tokens -> Seq(Entries(now))]
  /\ todo \in [Batches -> SUBSET Tokens]
ChainInv == ChainsTyped /\ \A b \in Batches : Placed(queue, todo[b], b)

-----------------------------------------------------------------------------
(* What Min, Append and Tail do. *)

LEMMA FirstToken ==
  ASSUME NEW T \in SUBSET Tokens, T # {}
  PROVE  Min(T) \in T /\ \A u \in T : Min(T) <= u
<1>1. T \subseteq Nat
  BY EvaluationAssumption DEF Tokens
<1>2. PICK x \in T : \A y \in T : ~(<<y, x>> \in OpToRel(<, Nat))
  BY <1>1, WFMin, NatLessThanWellFounded
<1>3. \A y \in T : ~(y < x)
  BY <1>1, <1>2 DEF OpToRel
<1>4. \A y \in T : x <= y
  BY <1>1, <1>3
<1> QED BY <1>4 DEF Min

(* r is q with e at the end of the chain of t, or without its head.        *)
WithEntry(r, q, t, e) ==
  /\ r[t] # <<>>
  /\ \A u \in Tokens \ {t} : r[u] = q[u]
  /\ Head(r[t]) = IF q[t] = <<>> THEN e ELSE Head(q[t])
  /\ \A u \in Tokens, i \in Nat : \A b : Carries(r, u, i, b) <=>
       Carries(q, u, i, b) \/ (u = t /\ i = Len(q[t]) + 1 /\ e.batch = b)
WithoutHead(r, q, t) ==
  /\ \A u \in Tokens \ {t} : r[u] = q[u]
  /\ \A u \in Tokens, i \in Nat : \A b : Carries(r, u, i, b) <=>
       IF u = t THEN i # 0 /\ Carries(q, t, i + 1, b) ELSE Carries(q, u, i, b)

LEMMA Appended ==
  ASSUME NEW S, NEW q \in [Tokens -> Seq(S)], NEW t \in Tokens, NEW e \in S
  PROVE  /\ [q EXCEPT ![t] = Append(q[t], e)] \in [Tokens -> Seq(S)]
         /\ WithEntry([q EXCEPT ![t] = Append(q[t], e)], q, t, e)
<1> DEFINE a == Append(q[t], e)
           r == [q EXCEPT ![t] = Append(q[t], e)]
<1>1. r = [q EXCEPT ![t] = a] /\ r[t] = a /\ \A u \in Tokens \ {t} : r[u] = q[u]
  OBVIOUS
<1>2. /\ a \in Seq(S) /\ a # <<>> /\ Len(a) = Len(q[t]) + 1 /\ Len(q[t]) \in Nat
      /\ \A i \in 1..Len(q[t]) : a[i] = q[t][i]
      /\ a[Len(q[t]) + 1] = e
  BY AppendProperties, LenProperties
<1>3. Head(a) = IF q[t] = <<>> THEN e ELSE Head(q[t])
  BY HeadTailAppend
<1> HIDE DEF a, r
<1>4. ASSUME NEW u \in Tokens, NEW i \in Nat, NEW b
      PROVE  Carries(r, u, i, b) <=>
               Carries(q, u, i, b) \/ (u = t /\ i = Len(q[t]) + 1 /\ e.batch = b)
  <2>1. CASE u # t
    BY <1>1, <2>1 DEF Carries
  <2>2. CASE u = t
    BY <1>1, <1>2, <2>2 DEF Carries
  <2> QED BY <2>1, <2>2
<1>5. r \in [Tokens -> Seq(S)]
  BY <1>1, <1>2
<1>6. WithEntry(r, q, t, e)
  BY <1>1, <1>2, <1>3, <1>4 DEF WithEntry
<1> QED BY <1>5, <1>6 DEF r

LEMMA Popped ==
  ASSUME NEW S, NEW q \in [Tokens -> Seq(S)], NEW t \in Tokens, q[t] # <<>>
  PROVE  /\ [q EXCEPT ![t] = Tail(q[t])] \in [Tokens -> Seq(S)]
         /\ WithoutHead([q EXCEPT ![t] = Tail(q[t])], q, t)
         /\ Head(q[t]) \in S /\ Head(q[t]) = q[t][1] /\ 1 \in 1..Len(q[t])
<1> DEFINE a == Tail(q[t])
           r == [q EXCEPT ![t] = Tail(q[t])]
<1>1. r = [q EXCEPT ![t] = a] /\ r[t] = a /\ \A u \in Tokens \ {t} : r[u] = q[u]
  OBVIOUS
<1>2. /\ a \in Seq(S) /\ Len(a) = Len(q[t]) - 1 /\ Len(q[t]) \in Nat \ {0}
      /\ \A i \in 1..Len(a) : a[i] = q[t][i + 1]
      /\ Head(q[t]) \in S
  BY HeadTailProperties, EmptySeq
<1>3. Head(q[t]) = q[t][1] /\ 1 \in 1..Len(q[t])
  BY <1>2
<1> HIDE DEF a, r
<1>4. ASSUME NEW u \in Tokens, NEW i \in Nat, NEW b
      PROVE  Carries(r, u, i, b) <=>
               IF u = t THEN i # 0 /\ Carries(q, t, i + 1, b) ELSE Carries(q, u, i, b)
  <2>1. CASE u # t
    BY <1>1, <2>1 DEF Carries
  <2>2. CASE u = t
    BY <1>1, <1>2, <2>2 DEF Carries
  <2> QED BY <2>1, <2>2
<1>5. r \in [Tokens -> Seq(S)]
  BY <1>1, <1>2
<1>6. WithoutHead(r, q, t)
  BY <1>1, <1>4 DEF WithoutHead
<1> QED BY <1>2, <1>3, <1>5, <1>6 DEF r

-----------------------------------------------------------------------------
(* What the steps do to the chains. *)

LEMMA EntriesGrow ==
  ASSUME NEW m \in Nat, NEW n \in Nat, m <= n PROVE Entries(m) \subseteq Entries(n)
BY DEF Entries

(* The chain of u only grows.                                              *)
Kept(u) ==
  \/ queue'[u] = queue[u]
  \/ queue'[u] # <<>> /\ (queue[u] # <<>> => Head(queue'[u]) = Head(queue[u]))

(* The end of an evaluation takes the entry from its chain, and its batch  *)
(* to the chain of the next token.                                         *)
LEMMA AfterKeeps ==
  ASSUME ChainInv, NEW t \in Tokens, queue[t] # <<>>, After(t), UNCHANGED now
  PROVE  /\ ChainInv'
         /\ \A u \in Tokens \ {t} : Kept(u)
<1> DEFINE S == Entries(now)
           e == Head(queue[t])
           popped == [queue EXCEPT ![t] = Tail(@)]
<1>1. queue \in [Tokens -> Seq(S)] /\ todo \in [Batches -> SUBSET Tokens] /\ now \in Nat
  BY DEF ChainInv, ChainsTyped
<1>2. /\ popped \in [Tokens -> Seq(S)]
      /\ \A u \in Tokens \ {t} : popped[u] = queue[u]
      /\ e \in S /\ e = queue[t][1] /\ 1 \in 1..Len(queue[t])
      /\ \A u \in Tokens, i \in Nat : \A b : Carries(popped, u, i, b) <=>
           IF u = t THEN i # 0 /\ Carries(queue, t, i + 1, b) ELSE Carries(queue, u, i, b)
  <2>1. popped \in [Tokens -> Seq(S)] /\ WithoutHead(popped, queue, t)
        /\ e \in S /\ e = queue[t][1] /\ 1 \in 1..Len(queue[t])
    <3> HIDE DEF S
    <3>1. /\ [queue EXCEPT ![t] = Tail(queue[t])] \in [Tokens -> Seq(S)]
          /\ WithoutHead([queue EXCEPT ![t] = Tail(queue[t])], queue, t)
          /\ Head(queue[t]) \in S /\ Head(queue[t]) = queue[t][1] /\ 1 \in 1..Len(queue[t])
      BY <1>1, Popped, Zenon
    <3> QED BY <3>1
  <2> HIDE DEF S, e, popped
  <2> QED BY <2>1 DEF WithoutHead
<1>3. e.batch \in Batches \cup {Completion}
  BY <1>2 DEF Entries
<1>4. Carries(queue, t, 1, e.batch)
  BY <1>2 DEF Carries
<1>5. ASSUME NEW b \in Batches, b # e.batch PROVE Placed(popped, todo[b], b)
  <2>1. Placed(queue, todo[b], b)
    BY DEF ChainInv
  <2>2. ~Carries(queue, t, 1, b)
    BY <1>2, <1>5 DEF Carries
  <2>3. ASSUME NEW u \in Tokens, NEW i \in Nat, Carries(queue, u, i, b)
        PROVE  \E k \in Nat : Carries(popped, u, k, b)
    <3>1. CASE u # t
      BY <1>2, <2>3, <3>1
    <3>2. CASE u = t
      <4>1. i - 1 \in Nat \ {0} /\ i - 1 + 1 = i
        BY <2>2, <2>3, <3>2 DEF Carries
      <4> QED BY <1>2, <2>3, <3>2, <4>1
    <3> QED BY <3>1, <3>2
  <2>4. \A u \in Tokens, i \in Nat : Carries(popped, u, i, b) =>
          \E k \in Nat : Carries(queue, u, k, b) /\ k = IF u = t THEN i + 1 ELSE i
    BY <1>2
  <2>5. \A u \in Tokens, i \in Nat : Carries(popped, u, i, b) =>
          u \in todo[b] /\ \A v \in todo[b] : u <= v
    BY <2>1, <2>4 DEF Placed
  <2>6. \A u, v \in Tokens, i, k \in Nat :
          Carries(popped, u, i, b) /\ Carries(popped, v, k, b) => u = v /\ i = k
    BY <2>1, <2>4 DEF Placed
  <2>7. todo[b] # {} => \E u \in Tokens, i \in Nat : Carries(popped, u, i, b)
    BY <2>1, <2>3 DEF Placed
  <2> QED BY <2>5, <2>6, <2>7 DEF Placed
<1>6. ASSUME e.batch \in Batches
      PROVE  \A u \in Tokens, i \in Nat : ~Carries(popped, u, i, e.batch)
  <2>1. Placed(queue, todo[e.batch], e.batch)
    BY <1>6 DEF ChainInv
  <2>2. \A u \in Tokens, i \in Nat : Carries(queue, u, i, e.batch) => u = t /\ i = 1
    BY <1>4, <2>1 DEF Placed
  <2>3. ASSUME NEW u \in Tokens, NEW i \in Nat, NEW b, b = e.batch, Carries(popped, u, i, b)
        PROVE  FALSE
    <3>1. IF u = t THEN i # 0 /\ Carries(queue, t, i + 1, b) ELSE Carries(queue, u, i, b)
      BY <1>2, <2>3
    <3> QED BY <2>2, <2>3, <3>1
  <2> QED BY <2>3
<1> HIDE DEF popped, e, S
<1>7. CASE e.batch = Completion
  <2>1. queue' = popped /\ UNCHANGED todo
    BY <1>7 DEF After, e, popped
  <2>2. \A b \in Batches : b # e.batch
    BY <1>7, EvaluationAssumption
  <2> QED BY <1>1, <1>2, <1>5, <2>1, <2>2 DEF ChainInv, ChainsTyped, Kept, S
<1>8. CASE e.batch # Completion
  <2> DEFINE rest == todo[e.batch] \ {t}
  <2>1. e.batch \in Batches /\ rest \in SUBSET Tokens /\ t \notin rest
    BY <1>1, <1>3, <1>8
  <2>2. todo' = [todo EXCEPT ![e.batch] = rest]
    BY <1>8 DEF After, e
  <2>3. CASE rest = {}
    <3>1. queue' = popped
      BY <1>8, <2>3 DEF After, e, popped
    <3>2. Placed(popped, {}, e.batch)
      BY <1>6, <2>1 DEF Placed
    <3>3. \A b \in Batches : Placed(queue', todo'[b], b)
      BY <1>1, <1>5, <2>1, <2>2, <2>3, <3>1, <3>2
    <3> QED BY <1>1, <1>2, <2>1, <2>2, <3>1, <3>3 DEF ChainInv, ChainsTyped, Kept, S
  <2>4. CASE rest # {}
    <3> DEFINE m == Min(rest)
    <3>1. m \in rest /\ m \in Tokens /\ m # t /\ \A u \in rest : m <= u
      BY <2>1, <2>4, FirstToken
    <3>2. queue' = [popped EXCEPT ![m] = Append(@, e)]
      BY <1>8, <2>4 DEF After, e, popped
    <3> HIDE DEF m
    <3>3. /\ queue' \in [Tokens -> Seq(S)] /\ queue'[m] # <<>>
          /\ \A u \in Tokens \ {m} : queue'[u] = popped[u]
          /\ Head(queue'[m]) = IF popped[m] = <<>> THEN e ELSE Head(popped[m])
          /\ \A u \in Tokens, i \in Nat : \A b : Carries(queue', u, i, b) <=>
               Carries(popped, u, i, b) \/ (u = m /\ i = Len(popped[m]) + 1 /\ e.batch = b)
      <4>1. popped \in [Tokens -> Seq(S)] /\ m \in Tokens /\ e \in S
        BY <1>2, <3>1
      <4>2. queue' \in [Tokens -> Seq(S)] /\ WithEntry(queue', popped, m, e)
        BY <3>2, <4>1, Appended
      <4> QED BY <4>2 DEF WithEntry
    <3>4. Len(popped[m]) \in Nat
      BY <1>2, <3>1, LenProperties
    <3>5. Placed(queue', rest, e.batch)
      <4>1. \A u \in Tokens, i \in Nat :
              Carries(queue', u, i, e.batch) <=> u = m /\ i = Len(popped[m]) + 1
        BY <1>6, <2>1, <3>3
      <4>2. Len(popped[m]) + 1 \in Nat
        BY <3>4
      <4> QED BY <3>1, <4>1, <4>2 DEF Placed
    <3>6. ASSUME NEW b \in Batches, b # e.batch PROVE Placed(queue', todo[b], b)
      <4>1. \A u \in Tokens, i \in Nat : Carries(queue', u, i, b) <=> Carries(popped, u, i, b)
        BY <3>3, <3>6
      <4> QED BY <1>5, <3>6, <4>1 DEF Placed
    <3>7. \A b \in Batches : Placed(queue', todo'[b], b)
      BY <1>1, <2>1, <2>2, <3>5, <3>6
    <3>8. \A u \in Tokens \ {t} : Kept(u)
      BY <1>2, <3>1, <3>3 DEF Kept
    <3> QED BY <1>1, <2>1, <2>2, <3>3, <3>7, <3>8 DEF ChainInv, ChainsTyped, S
  <2> QED BY <2>3, <2>4
<1> QED BY <1>7, <1>8
(* An evaluation that throws takes its chain along, and the batches that   *)
(* wait there.                                                             *)
LEMMA ThrowsKeeps ==
  ASSUME ChainInv, NEW t \in Tokens, Throws(t), UNCHANGED now
  PROVE  ChainInv' /\ queue'[t] = <<>> /\ \A u \in Tokens \ {t} : Kept(u)
<1> DEFINE lost == {queue[t][i].batch : i \in DOMAIN queue[t]} \ {Completion}
<1>1. queue \in [Tokens -> Seq(Entries(now))] /\ todo \in [Batches -> SUBSET Tokens] /\ now \in Nat
  BY DEF ChainInv, ChainsTyped
<1>2. /\ queue' = [queue EXCEPT ![t] = <<>>]
      /\ todo' = [b \in Batches |-> IF b \in lost THEN {} ELSE todo[b]]
  BY DEF Throws
<1>3. queue'[t] = <<>> /\ \A u \in Tokens \ {t} : queue'[u] = queue[u]
  BY <1>1, <1>2
<1>4. DOMAIN queue[t] = 1..Len(queue[t]) /\ Len(queue[t]) \in Nat
  BY <1>1, LenProperties
<1>5. \A b \in Batches : b \in lost <=> \E i \in Nat : Carries(queue, t, i, b)
  BY <1>4, EvaluationAssumption DEF Carries
<1> HIDE DEF lost
<1>6. \A u \in Tokens, i \in Nat : \A b : Carries(queue', u, i, b) <=> u # t /\ Carries(queue, u, i, b)
  BY <1>3 DEF Carries
<1>7. ASSUME NEW b \in Batches PROVE Placed(queue', todo'[b], b)
  <2>1. Placed(queue, todo[b], b)
    BY DEF ChainInv
  <2>2. CASE b \in lost
    <3>1. todo'[b] = {}
      BY <1>2, <2>2
    <3>2. \A u \in Tokens, i \in Nat : ~Carries(queue', u, i, b)
      BY <1>5, <1>6, <2>1, <2>2 DEF Placed
    <3> QED BY <3>1, <3>2 DEF Placed
  <2>3. CASE b \notin lost
    <3>1. todo'[b] = todo[b]
      BY <1>2, <2>3
    <3>2. \A u \in Tokens, i \in Nat : Carries(queue', u, i, b) <=> Carries(queue, u, i, b)
      BY <1>5, <1>6, <2>3
    <3> QED BY <2>1, <3>1, <3>2 DEF Placed
  <2> QED BY <2>2, <2>3
<1>8. ChainsTyped'
  <2>1. queue' \in [Tokens -> Seq(Entries(now))]
    BY <1>1, <1>2, EmptySeq
  <2>2. todo' \in [Batches -> SUBSET Tokens]
    BY <1>1, <1>2
  <2> QED BY <1>1, <2>1, <2>2 DEF ChainsTyped
<1> QED BY <1>3, <1>7, <1>8 DEF ChainInv, Kept

(* A commit starts a batch at the first of its tokens.                     *)
LEMMA CommitKeeps ==
  ASSUME ChainInv, NEW b \in Batches, NEW changed \in Changes[b], Commit(b, changed)
  PROVE  ChainInv' /\ \A u \in Tokens : Kept(u)
<1> DEFINE m == Min(changed)
           e == [clock |-> now, batch |-> b]
           S == Entries(now)
<1>1. queue \in [Tokens -> Seq(S)] /\ todo \in [Batches -> SUBSET Tokens] /\ now \in Nat
  BY DEF ChainInv, ChainsTyped
<1>2. changed \in SUBSET Tokens /\ changed # {}
  BY EvaluationAssumption
<1>3. m \in changed /\ m \in Tokens /\ \A u \in changed : m <= u
  BY <1>2, FirstToken
<1>4. e \in S /\ e.batch = b
  BY <1>1 DEF Entries
<1>5. /\ queue' = [queue EXCEPT ![m] = Append(@, e)]
      /\ todo' = [todo EXCEPT ![b] = changed] /\ todo[b] = {} /\ now' = now
  BY DEF Commit
<1> HIDE DEF m, e, S
<1>6. queue' \in [Tokens -> Seq(S)] /\ WithEntry(queue', queue, m, e)
  BY <1>1, <1>3, <1>4, <1>5, Appended
<1>7. Len(queue[m]) \in Nat
  BY <1>1, <1>3, LenProperties
<1>8. \A u \in Tokens, i \in Nat : ~Carries(queue, u, i, b)
  BY <1>5 DEF ChainInv, Placed
<1>9. Placed(queue', changed, b)
  BY <1>2, <1>3, <1>4, <1>6, <1>7, <1>8 DEF Placed, WithEntry
<1>10. ASSUME NEW c \in Batches, c # b PROVE Placed(queue', todo[c], c)
  <2>1. \A u \in Tokens, i \in Nat : Carries(queue', u, i, c) <=> Carries(queue, u, i, c)
    BY <1>4, <1>6, <1>10 DEF WithEntry
  <2>2. Placed(queue, todo[c], c)
    BY DEF ChainInv
  <2> QED BY <2>1, <2>2 DEF Placed
<1>11. \A c \in Batches : Placed(queue', todo'[c], c)
  BY <1>1, <1>5, <1>9, <1>10
<1>12. \A u \in Tokens : Kept(u)
  BY <1>6 DEF WithEntry, Kept
<1>13. ChainsTyped'
  BY <1>1, <1>2, <1>5, <1>6 DEF ChainsTyped, S
<1> QED BY <1>11, <1>12, <1>13 DEF ChainInv

(* An answer about security has its token evaluated, for no batch, at the  *)
(* time of the answer.                                                     *)
LEMMA EvaluatedKeeps ==
  ASSUME ChainInv, NEW t \in Tokens, queue' = Evaluated(t), UNCHANGED <<now, todo>>
  PROVE  /\ ChainInv'
         /\ \A u \in Tokens : Kept(u)
         /\ queue'[t] # <<>>
         /\ queue[t] = <<>> => Head(queue'[t]).clock = now
<1> DEFINE e == [clock |-> now, batch |-> Completion]
           S == Entries(now)
<1>1. queue \in [Tokens -> Seq(S)] /\ todo \in [Batches -> SUBSET Tokens] /\ now \in Nat
  BY DEF ChainInv, ChainsTyped
<1>2. e \in S /\ e.batch = Completion /\ e.clock = now
  BY <1>1 DEF Entries
<1>3. queue' = [queue EXCEPT ![t] = Append(@, e)]
  BY DEF Evaluated
<1> HIDE DEF e, S
<1>4. queue' \in [Tokens -> Seq(S)] /\ WithEntry(queue', queue, t, e)
  <2>1. /\ [queue EXCEPT ![t] = Append(queue[t], e)] \in [Tokens -> Seq(S)]
        /\ WithEntry([queue EXCEPT ![t] = Append(queue[t], e)], queue, t, e)
    BY <1>1, <1>2, Appended, Zenon
  <2> QED BY <1>3, <2>1
<1>5. ASSUME NEW c \in Batches PROVE Placed(queue', todo'[c], c)
  <2>1. \A u \in Tokens, i \in Nat : Carries(queue', u, i, c) <=> Carries(queue, u, i, c)
    BY <1>2, <1>4, EvaluationAssumption DEF WithEntry
  <2>2. Placed(queue, todo[c], c)
    BY DEF ChainInv
  <2> QED BY <2>1, <2>2 DEF Placed
<1>6. ChainsTyped'
  BY <1>1, <1>4 DEF ChainsTyped, S
<1> QED BY <1>2, <1>4, <1>5, <1>6 DEF ChainInv, WithEntry, Kept

(* Time does nothing to the chains.                                        *)
LEMMA ChainsLast ==
  ASSUME ChainInv, UNCHANGED <<queue, todo>>, now' \in Nat, now <= now'
  PROVE  ChainInv' /\ \A u \in Tokens : Kept(u)
<1>1. queue \in [Tokens -> Seq(Entries(now))] /\ todo \in [Batches -> SUBSET Tokens] /\ now \in Nat
  BY DEF ChainInv, ChainsTyped
<1>2. \A u \in Tokens : queue[u] \in Seq(Entries(now'))
  <2>1. Entries(now) \subseteq Entries(now')
    BY <1>1, EntriesGrow
  <2> HIDE DEF Entries
  <2> QED BY <1>1, <2>1, SeqMonotonic
<1>3. queue' \in [Tokens -> Seq(Entries(now'))]
  BY <1>1, <1>2
<1>4. ChainsTyped'
  BY <1>1, <1>3 DEF ChainsTyped
<1>5. \A b \in Batches : Placed(queue', todo'[b], b)
  BY DEF ChainInv
<1> QED BY <1>4, <1>5 DEF ChainInv, Kept
-----------------------------------------------------------------------------
(* The engine and security. *)

EngineTyped ==
  /\ state \in [Tokens -> States] /\ candidate \in [Tokens -> Times]
  /\ cache \in [Tokens -> Times] /\ failed \in [Tokens -> Times] /\ fetching \subseteq Tokens
  /\ call \in [Tokens -> {"idle", "security", "judging", "sending", "editing"}]
  /\ unseen \subseteq Tokens

(* A token is asked for only when what is cached would not do for a card;  *)
(* so none is asked for while its card is sent.                            *)
Stale(t) == t \in fetching => ~Within(cache[t], SendMaxAge)

(* A snapshot that was not seen is about to be: by the recheck, or by an   *)
(* evaluation, which no other event comes before; or the card is out.      *)
Noticed(t) ==
  t \in unseen /\ Within(cache[t], CacheTtl) =>
    \/ state[t] = "sent"
    \/ call[t] = "judging"
    \/ call[t] = "idle" /\ queue[t] # <<>> /\ Head(queue[t]).clock = now

Coherent(t) ==
  /\ HasReference(t)
  /\ call[t] # "idle" => queue[t] # <<>>
  /\ call[t] \in {"security", "judging", "sending"} => state[t] = "qualified"
  /\ call[t] = "editing" => state[t] = "sent"
  /\ call[t] = "sending" => t \notin fetching
  /\ Stale(t) /\ Noticed(t)

IInv == ChainInv /\ EngineTyped /\ \A t \in Tokens : Coherent(t)

(* What a step of one token leaves to the others.                          *)
Same(u) ==
  /\ state'[u] = state[u] /\ candidate'[u] = candidate[u]
  /\ cache'[u] = cache[u] /\ call'[u] = call[u]
  /\ (u \in unseen') = (u \in unseen) /\ (u \in fetching') = (u \in fetching)

LEMMA OthersStayCoherent ==
  ASSUME NEW u \in Tokens, Coherent(u), Same(u), Kept(u), now' = now
  PROVE  Coherent(u)'
BY DEF Coherent, HasReference, Stale, Noticed, Within, Same, Kept

(* What a detector may decide.                                             *)
LEMMA Decided ==
  ASSUME IInv, NEW t \in Tokens, NEW clock \in 0..now, NEW d,
         d \in Decisions(t, clock)
  PROVE  /\ d.state \in States \cup {"confirmed"} /\ d.reference \in Times /\ d.preheat \in BOOLEAN
         /\ state[t] = "sent" => d.state \in {"sent", "confirmed"}
         /\ d.state = "confirmed" => state[t] = "sent"
         /\ d.state \in {"security_pending", "qualified"} => d.reference # None
<1>1. state[t] \in States /\ candidate[t] \in Times /\ HasReference(t) /\ now \in Nat
  BY DEF IInv, EngineTyped, ChainInv, ChainsTyped, Coherent
<1>2. CASE state[t] = "sent"
  <2>1. d = Decision("sent", None, FALSE) \/ d = Decision("confirmed", None, FALSE)
    BY <1>2 DEF Decisions
  <2>2. CASE d = Decision("sent", None, FALSE)
    BY <1>2, <2>2 DEF Decision, States, Times
  <2>3. CASE d = Decision("confirmed", None, FALSE)
    BY <1>2, <2>3 DEF Decision, States, Times
  <2> QED BY <2>1, <2>2, <2>3
<1>3. CASE state[t] # "sent"
  <2> DEFINE references == {clock} \cup (IF Continues(t) THEN {candidate[t]} ELSE {})
  <2>1. \A r \in references : r \in Times /\ r # None
    BY <1>1 DEF Continues, Times, None
  <2> HIDE DEF references
  <2>2. \/ \E r \in references : d = Decision("security_pending", r, TRUE)
        \/ \E s \in {"closed", "qualified"}, r \in references : d = Decision(s, r, FALSE)
        \/ ~Continues(t) /\ \E p \in BOOLEAN : d = Decision(state[t], None, p)
    <3> DEFINE judged == UNION {{Decision("closed", r, FALSE), Decision("qualified", r, FALSE)} :
                                r \in references}
               observed == {Decision(state[t], None, p) : p \in BOOLEAN}
               asked == {Decision("security_pending", r, TRUE) : r \in references}
    <3>1. d \in asked \cup (IF Fresh(Captured(t), clock) THEN judged ELSE {})
                    \cup (IF Continues(t) THEN {} ELSE observed)
      BY <1>3 DEF Decisions, references
    <3>2. d \in asked \/ d \in judged \/ (~Continues(t) /\ d \in observed)
      <4> HIDE DEF asked, judged, observed
      <4> QED BY <3>1
    <3> QED BY <3>2
  <2>3. CASE \E r \in references : d = Decision("security_pending", r, TRUE)
    BY <1>3, <2>1, <2>3 DEF Decision, States
  <2>4. CASE \E s \in {"closed", "qualified"}, r \in references : d = Decision(s, r, FALSE)
    BY <1>3, <2>1, <2>4 DEF Decision, States
  <2>5. CASE ~Continues(t) /\ \E p \in BOOLEAN : d = Decision(state[t], None, p)
    BY <1>1, <1>3, <2>5 DEF Decision, States, Continues, HasReference, Times
  <2> QED BY <2>2, <2>3, <2>4, <2>5
<1> QED BY <1>2, <1>3

(* A step of t keeps the invariant if it keeps what is about t.            *)
LEMMA OneTokenSteps ==
  ASSUME IInv, NEW t \in Tokens, now' = now, ChainInv', EngineTyped', Coherent(t)',
         \A u \in Tokens \ {t} : Same(u) /\ Kept(u)
  PROVE  IInv'
BY OthersStayCoherent DEF IInv

(* The snapshot a reading of the clock at clock finds in the cache.        *)
LEMMA Seen ==
  ASSUME IInv, NEW t \in Tokens, NEW clock, Sees(t, clock)
  PROVE  /\ unseen' \subseteq Tokens
         /\ \A u \in Tokens \ {t} : (u \in unseen') = (u \in unseen)
         /\ t \in unseen' => t \in unseen
         /\ clock = now /\ Within(cache[t], CacheTtl) => t \notin unseen'
<1>1. cache[t] \in Times /\ now \in Nat /\ unseen \subseteq Tokens
  BY DEF IInv, EngineTyped, ChainInv, ChainsTyped
<1> QED BY <1>1 DEF Sees, Captured, Within, Times, None

LEMMA Asked ==
  ASSUME IInv, NEW t \in Tokens, AskFresh(t)
  PROVE  /\ call' \in [Tokens -> {"idle", "security", "judging", "sending", "editing"}]
         /\ fetching' \subseteq Tokens
         /\ \A u \in Tokens \ {t} : call'[u] = call[u] /\ (u \in fetching') = (u \in fetching)
         /\ call'[t] \in {"judging", "security"}
         /\ t \in fetching' => ~Within(cache[t], SendMaxAge)
BY DEF IInv, EngineTyped, AskFresh, Coherent, Stale

LEMMA PreheatAsks ==
  ASSUME IInv, NEW t \in Tokens
  PROVE  /\ Preheated(t) \subseteq Tokens
         /\ \A u \in Tokens \ {t} : (u \in Preheated(t)) = (u \in fetching)
         /\ t \in Preheated(t) => ~Within(cache[t], SendMaxAge)
<1>1. cache[t] \in Times /\ now \in Nat
  BY DEF IInv, EngineTyped, ChainInv, ChainsTyped
<1> QED BY <1>1, EvaluationAssumption
        DEF IInv, EngineTyped, Preheated, Coherent, Stale, Within, Times, None

LEMMA EvaluateKeeps ==
  ASSUME IInv, NEW t \in Tokens, Evaluate(t)
  PROVE  IInv'
<1> DEFINE clock == Head(queue[t]).clock
<1>1. /\ ChainInv /\ EngineTyped /\ Coherent(t) /\ now \in Nat
      /\ queue \in [Tokens -> Seq(Entries(now))]
  BY DEF IInv, ChainInv, ChainsTyped
<1>2. queue[t] # <<>> /\ call[t] = "idle"
  BY DEF Evaluate, Ready
<1>3. clock \in 0..now
  <2>1. Head(queue[t]) \in Entries(now)
    BY <1>1, <1>2, HeadTailProperties
  <2> QED BY <2>1 DEF Entries
<1> HIDE DEF clock
<1>4. CASE \E d \in Decisions(t, clock) : Decide(t, d)
  <2>1. PICK d \in Decisions(t, clock) : Decide(t, d)
    BY <1>4
  <2>2. /\ d.state \in States \cup {"confirmed"} /\ d.reference \in Times /\ d.preheat \in BOOLEAN
        /\ state[t] = "sent" => d.state \in {"sent", "confirmed"}
        /\ d.state = "confirmed" => state[t] = "sent"
        /\ d.state \in {"security_pending", "qualified"} => d.reference # None
    BY <1>3, Decided
  <2>3. /\ candidate' = [candidate EXCEPT ![t] = IF d.reference = None THEN @ ELSE d.reference]
        /\ state' = [state EXCEPT ![t] = IF d.state = "confirmed" THEN "sent" ELSE d.state]
        /\ now' = now /\ cache' = cache /\ failed' = failed
        /\ Sees(t, clock)
    BY <2>1 DEF Decide, clock
  <2>4. /\ unseen' \subseteq Tokens
        /\ \A u \in Tokens \ {t} : (u \in unseen') = (u \in unseen)
        /\ t \in unseen' => t \in unseen
        /\ clock = now /\ Within(cache[t], CacheTtl) => t \notin unseen'
    BY <2>3, Seen
  <2>5. t \in unseen' /\ Within(cache[t], CacheTtl) => state'[t] = "sent"
    <3>1. t \in unseen' /\ Within(cache[t], CacheTtl) => state[t] = "sent"
      BY <1>1, <1>2, <2>4 DEF Coherent, Noticed, clock
    <3> QED BY <1>1, <2>2, <2>3, <3>1 DEF EngineTyped
  <2>6. /\ state' \in [Tokens -> States] /\ candidate' \in [Tokens -> Times]
        /\ cache' \in [Tokens -> Times] /\ failed' \in [Tokens -> Times]
        /\ \A u \in Tokens \ {t} : state'[u] = state[u] /\ candidate'[u] = candidate[u]
        /\ state'[t] = IF d.state = "confirmed" THEN "sent" ELSE d.state
        /\ state'[t] \in {"security_pending", "qualified"} => candidate'[t] # None
    BY <1>1, <2>2, <2>3 DEF EngineTyped, States
  <2>7. CASE d.state = "qualified"
    <3>1. AskFresh(t) /\ UNCHANGED <<queue, todo>>
      BY <2>1, <2>7 DEF Decide
    <3>2. /\ call' \in [Tokens -> {"idle", "security", "judging", "sending", "editing"}]
          /\ fetching' \subseteq Tokens
          /\ \A u \in Tokens \ {t} : call'[u] = call[u] /\ (u \in fetching') = (u \in fetching)
          /\ call'[t] \in {"judging", "security"}
          /\ t \in fetching' => ~Within(cache[t], SendMaxAge)
      BY <3>1, Asked
    <3>3. ChainInv' /\ \A u \in Tokens : Kept(u)
      BY <1>1, <2>3, <3>1, ChainsLast
    <3>4. EngineTyped'
      BY <2>3, <2>4, <2>6, <3>2 DEF EngineTyped, Times
    <3>5. \A u \in Tokens \ {t} : Same(u)
      BY <2>3, <2>4, <2>6, <3>2 DEF Same
    <3>6. Coherent(t)'
      BY <1>2, <2>3, <2>5, <2>6, <2>7, <3>1, <3>2
         DEF Coherent, HasReference, Stale, Noticed, Within
    <3> QED BY <2>3, <3>3, <3>4, <3>5, <3>6, OneTokenSteps
  <2>8. CASE d.state = "confirmed"
    <3>1. call' = [call EXCEPT ![t] = "editing"] /\ UNCHANGED <<fetching, queue, todo>>
      BY <2>1, <2>8 DEF Decide
    <3>2. ChainInv' /\ \A u \in Tokens : Kept(u)
      BY <1>1, <2>3, <3>1, ChainsLast
    <3>3. EngineTyped'
      BY <1>1, <2>3, <2>4, <2>6, <3>1 DEF EngineTyped, Times
    <3>4. \A u \in Tokens \ {t} : Same(u)
      BY <1>1, <2>3, <2>4, <2>6, <3>1 DEF Same, EngineTyped
    <3>5. Coherent(t)'
      BY <1>1, <1>2, <2>3, <2>5, <2>6, <2>8, <3>1
         DEF Coherent, HasReference, Stale, Noticed, Within, EngineTyped
    <3> QED BY <2>3, <3>2, <3>3, <3>4, <3>5, OneTokenSteps
  <2>9. CASE d.state \notin {"qualified", "confirmed"}
    <3>1. /\ fetching' = IF d.preheat THEN Preheated(t) ELSE fetching
          /\ After(t) /\ call' = call
      BY <2>1, <2>9 DEF Decide
    <3>2. ChainInv' /\ \A u \in Tokens \ {t} : Kept(u)
      BY <1>1, <1>2, <2>3, <3>1, AfterKeeps
    <3>3. /\ fetching' \subseteq Tokens
          /\ \A u \in Tokens \ {t} : (u \in fetching') = (u \in fetching)
          /\ t \in fetching' => ~Within(cache[t], SendMaxAge)
      BY <1>1, <3>1, PreheatAsks DEF EngineTyped, Coherent, Stale
    <3>4. EngineTyped'
      BY <1>1, <2>3, <2>4, <2>6, <3>1, <3>3 DEF EngineTyped, Times
    <3>5. \A u \in Tokens \ {t} : Same(u)
      BY <2>3, <2>4, <2>6, <3>1, <3>3 DEF Same
    <3>6. Coherent(t)'
      BY <1>2, <2>3, <2>5, <2>6, <3>1, <3>3
         DEF Coherent, HasReference, Stale, Noticed, Within
    <3> QED BY <2>3, <3>2, <3>4, <3>5, <3>6, OneTokenSteps
  <2> QED BY <2>7, <2>8, <2>9
<1>5. CASE /\ ~Consistent(t, clock) \/ MayPrecedeDiscovery(t, clock)
           /\ Throws(t) /\ UNCHANGED <<now, engine, security, call, unseen>>
  <2>1. Throws(t) /\ UNCHANGED <<now, engine, security, call, unseen>>
    BY <1>5
  <2>2. ChainInv' /\ queue'[t] = <<>> /\ \A u \in Tokens \ {t} : Kept(u)
    BY <1>1, <2>1, ThrowsKeeps
  <2>3. EngineTyped' /\ \A u \in Tokens \ {t} : Same(u)
    BY <1>1, <2>1 DEF EngineTyped, engine, security, Times, Same
  <2>4. clock # now
    BY <1>1, <1>5 DEF Consistent, MayPrecedeDiscovery, Coherent, EngineTyped, Times, None
  <2>5. Coherent(t)'
    BY <1>1, <1>2, <2>1, <2>2, <2>4
       DEF Coherent, HasReference, Stale, Noticed, Within, engine, security, clock
  <2> QED BY <2>1, <2>2, <2>3, <2>5, OneTokenSteps
<1> QED BY <1>4, <1>5, Zenon DEF Evaluate, clock

LEMMA MarketMissingKeeps ==
  ASSUME IInv, NEW t \in Tokens, MarketMissing(t)
  PROVE  IInv'
<1>1. ChainInv /\ EngineTyped /\ Coherent(t)
  BY DEF IInv
<1>2. /\ queue[t] # <<>> /\ call[t] = "idle" /\ After(t) /\ unseen' = unseen \ {t}
      /\ now' = now /\ UNCHANGED <<engine, security, call>>
  BY DEF MarketMissing, Ready
<1>3. ChainInv' /\ \A u \in Tokens \ {t} : Kept(u)
  BY <1>1, <1>2, AfterKeeps
<1>4. EngineTyped' /\ \A u \in Tokens \ {t} : Same(u)
  BY <1>1, <1>2 DEF EngineTyped, engine, security, Times, Same
<1>5. Coherent(t)'
  BY <1>1, <1>2 DEF Coherent, HasReference, Stale, Noticed, Within, engine, security
<1> QED BY <1>2, <1>3, <1>4, <1>5, OneTokenSteps

(* A recheck or a call that returns, after which no unseen snapshot may be *)
(* left unless the card is out.                                            *)
LEMMA ReturnsKeeps ==
  ASSUME IInv, NEW t \in Tokens, NEW s \in States, Returns(t, s),
         call[t] # "idle", UNCHANGED <<now, candidate, security>>,
         s \in {"security_pending", "qualified"} => candidate[t] # None,
         unseen' \subseteq Tokens,
         \A u \in Tokens \ {t} : (u \in unseen') = (u \in unseen),
         t \in unseen' /\ Within(cache[t], CacheTtl) => s = "sent"
  PROVE  IInv'
<1>1. ChainInv /\ EngineTyped /\ Coherent(t) /\ now' = now
  BY DEF IInv
<1>2. queue[t] # <<>>
  BY <1>1 DEF Coherent
<1>3. /\ state' = [state EXCEPT ![t] = s] /\ call' = [call EXCEPT ![t] = "idle"]
      /\ After(t)
  BY DEF Returns
<1>4. ChainInv' /\ \A u \in Tokens \ {t} : Kept(u)
  BY <1>1, <1>2, <1>3, AfterKeeps
<1>5. EngineTyped' /\ \A u \in Tokens \ {t} : Same(u)
  BY <1>1, <1>3 DEF EngineTyped, security, Times, Same
<1>6. Coherent(t)'
  BY <1>1, <1>3 DEF EngineTyped, Coherent, HasReference, Stale, Noticed, Within, security
<1> QED BY <1>1, <1>4, <1>5, <1>6, OneTokenSteps

LEMMA JudgeKeeps ==
  ASSUME IInv, NEW t \in Tokens, Judge(t)
  PROVE  IInv'
<1>1. /\ ChainInv /\ EngineTyped /\ Coherent(t) /\ now \in Nat
      /\ state[t] = "qualified" /\ candidate[t] # None /\ queue[t] # <<>>
  BY DEF IInv, ChainInv, ChainsTyped, Judge, Coherent, HasReference
<1>2. /\ call[t] = "judging" /\ Sees(t, now)
      /\ UNCHANGED <<now, candidate, security>> /\ now' = now
  BY DEF Judge
<1>3. /\ unseen' \subseteq Tokens
      /\ \A u \in Tokens \ {t} : (u \in unseen') = (u \in unseen)
      /\ ~(t \in unseen' /\ Within(cache[t], CacheTtl))
  BY <1>2, Seen
<1>4. CASE Returns(t, "closed")
  BY <1>2, <1>3, <1>4, ReturnsKeeps DEF States
<1>5. CASE Within(cache[t], SendMaxAge) /\ \E d \in Decisions(t, now) :
             IF d.state # "qualified" THEN Returns(t, d.state)
             ELSE call' = [call EXCEPT ![t] = "sending"] /\ UNCHANGED <<state, queue, todo>>
  <2>1. PICK d \in Decisions(t, now) :
             IF d.state # "qualified" THEN Returns(t, d.state)
             ELSE call' = [call EXCEPT ![t] = "sending"] /\ UNCHANGED <<state, queue, todo>>
    BY <1>5
  <2>2. d.state \in States
    <3>1. now \in 0..now
      BY <1>1
    <3> QED BY <1>1, <3>1, Decided
  <2>3. CASE d.state # "qualified"
    BY <1>1, <1>2, <1>3, <2>1, <2>2, <2>3, ReturnsKeeps
  <2>4. CASE d.state = "qualified"
    <3>1. call' = [call EXCEPT ![t] = "sending"] /\ UNCHANGED <<state, queue, todo>>
      BY <2>1, <2>4
    <3>2. ChainInv' /\ \A u \in Tokens : Kept(u)
      BY <1>1, <1>2, <3>1, ChainsLast
    <3>3. EngineTyped' /\ \A u \in Tokens \ {t} : Same(u)
      BY <1>1, <1>2, <1>3, <3>1 DEF EngineTyped, security, Times, Same
    <3>4. Coherent(t)'
      BY <1>1, <1>2, <1>3, <1>5, <3>1
         DEF EngineTyped, Coherent, HasReference, Stale, Noticed, Within, security
    <3> QED BY <1>2, <3>2, <3>3, <3>4, OneTokenSteps
  <2> QED BY <2>3, <2>4
<1> QED BY <1>4, <1>5 DEF Judge

LEMMA SecurityArrivesKeeps ==
  ASSUME IInv, NEW t \in Tokens, SecurityArrives(t)
  PROVE  IInv'
<1>1. ChainInv /\ EngineTyped /\ Coherent(t) /\ now \in Nat
  BY DEF IInv, ChainInv, ChainsTyped
<1>2. /\ Quiet /\ t \in fetching /\ fetching' = fetching \ {t}
      /\ cache' = [cache EXCEPT ![t] = now] /\ failed' = [failed EXCEPT ![t] = None]
      /\ unseen' = unseen \cup {t} /\ queue' = Evaluated(t) /\ UNCHANGED <<now, todo>>
      /\ call' = IF call[t] = "security" THEN [call EXCEPT ![t] = "judging"] ELSE call
      /\ now' = now /\ state' = state /\ candidate' = candidate
  BY DEF SecurityArrives, Answered, engine
<1>3. /\ ChainInv' /\ \A u \in Tokens : Kept(u)
      /\ queue'[t] # <<>> /\ (queue[t] = <<>> => Head(queue'[t]).clock = now)
  BY <1>1, <1>2, EvaluatedKeeps
<1>4. EngineTyped' /\ \A u \in Tokens \ {t} : Same(u)
  BY <1>1, <1>2 DEF EngineTyped, Times, Same
<1>5. Coherent(t)'
  <2>1. \/ call[t] = "idle" /\ queue[t] = <<>> /\ call'[t] = "idle"
        \/ call[t] = "security" /\ call'[t] = "judging"
        \/ call[t] = "editing" /\ call'[t] = "editing"
    BY <1>1, <1>2 DEF EngineTyped, Quiet, Ready, Coherent
  <2> QED BY <1>1, <1>2, <1>3, <2>1 DEF Coherent, HasReference, Stale, Noticed, Within
<1> QED BY <1>2, <1>3, <1>4, <1>5, OneTokenSteps

LEMMA SecurityFailsKeeps ==
  ASSUME IInv, NEW t \in Tokens, SecurityFails(t)
  PROVE  IInv'
<1>1. ChainInv /\ EngineTyped /\ Coherent(t) /\ now \in Nat
  BY DEF IInv, ChainInv, ChainsTyped
<1>2. /\ Quiet /\ t \in fetching /\ fetching' = fetching \ {t}
      /\ failed' = [failed EXCEPT ![t] = now] /\ UNCHANGED <<cache, unseen>>
      /\ queue' = Evaluated(t) /\ UNCHANGED <<now, todo>>
      /\ call' = IF call[t] = "security" THEN [call EXCEPT ![t] = "judging"] ELSE call
      /\ now' = now /\ state' = state /\ candidate' = candidate
  BY DEF SecurityFails, Answered, engine
<1>3. ChainInv' /\ (\A u \in Tokens : Kept(u)) /\ queue'[t] # <<>>
  BY <1>1, <1>2, EvaluatedKeeps
<1>4. EngineTyped' /\ \A u \in Tokens \ {t} : Same(u)
  BY <1>1, <1>2 DEF EngineTyped, Times, Same
<1>5. Coherent(t)'
  <2>1. \/ call[t] = "idle" /\ queue[t] = <<>> /\ call'[t] = "idle"
        \/ call[t] = "security" /\ call'[t] = "judging"
        \/ call[t] = "editing" /\ call'[t] = "editing"
    BY <1>1, <1>2 DEF EngineTyped, Quiet, Ready, Coherent
  <2> QED BY <1>1, <1>2, <1>3, <2>1 DEF Coherent, HasReference, Stale, Noticed, Within
<1> QED BY <1>2, <1>3, <1>4, <1>5, OneTokenSteps

LEMMA SendEndsKeeps ==
  ASSUME IInv, NEW t \in Tokens, SendEnds(t) \/ EditEnds(t)
  PROVE  IInv'
<1>1. EngineTyped /\ Coherent(t)
  BY DEF IInv
<1>2. PICK s \in {"closed", "sent"} :
        /\ Returns(t, s) /\ UNCHANGED <<now, candidate, security, unseen>>
        /\ call[t] = "sending" \/ (call[t] = "editing" /\ s = "sent")
  BY DEF SendEnds, EditEnds
<1>3. t \in unseen /\ Within(cache[t], CacheTtl) => s = "sent"
  BY <1>1, <1>2 DEF Coherent, Noticed
<1>4. unseen' = unseen /\ UNCHANGED <<now, candidate, security>> /\ s \in States /\ call[t] # "idle"
  BY <1>2 DEF States
<1> QED BY <1>1, <1>2, <1>3, <1>4, ReturnsKeeps DEF EngineTyped

LEMMA RetryLaterKeeps ==
  ASSUME IInv, NEW t \in Tokens, RetryLater(t)
  PROVE  IInv'
<1>1. ChainInv /\ EngineTyped /\ Coherent(t) /\ now \in Nat
  BY DEF IInv, ChainInv, ChainsTyped
<1>2. /\ call[t] = "sending" /\ AskFresh(t) /\ now' = now /\ UNCHANGED <<queue, todo>>
      /\ state' = state /\ candidate' = candidate /\ cache' = cache /\ failed' = failed
      /\ unseen' = unseen
  BY DEF RetryLater, engine
<1>3. /\ call' \in [Tokens -> {"idle", "security", "judging", "sending", "editing"}]
      /\ fetching' \subseteq Tokens
      /\ \A u \in Tokens \ {t} : call'[u] = call[u] /\ (u \in fetching') = (u \in fetching)
      /\ call'[t] \in {"judging", "security"}
      /\ t \in fetching' => ~Within(cache[t], SendMaxAge)
  BY <1>2, Asked
<1>4. ChainInv' /\ \A u \in Tokens : Kept(u)
  BY <1>1, <1>2, ChainsLast
<1>5. EngineTyped' /\ \A u \in Tokens \ {t} : Same(u)
  BY <1>1, <1>2, <1>3 DEF EngineTyped, Times, Same
<1>6. Coherent(t)'
  BY <1>1, <1>2, <1>3 DEF Coherent, HasReference, Stale, Noticed, Within
<1> QED BY <1>2, <1>4, <1>5, <1>6, OneTokenSteps

LEMMA CommitKeepsAll ==
  ASSUME IInv, NEW b \in Batches, NEW changed \in Changes[b], Commit(b, changed)
  PROVE  IInv'
<1>1. ChainInv' /\ \A u \in Tokens : Kept(u)
  BY CommitKeeps DEF IInv
<1>2. EngineTyped' /\ now' = now /\ \A u \in Tokens : Same(u)
  BY DEF IInv, EngineTyped, Commit, engine, security, Times, Same
<1> QED BY <1>1, <1>2, OthersStayCoherent DEF IInv

LEMMA TickKeeps ==
  ASSUME IInv, Tick
  PROVE  IInv'
<1>1. now \in Nat /\ now' = now + 1 /\ EngineTyped
  BY DEF IInv, ChainInv, ChainsTyped, Tick
<1>2. ChainInv'
  BY <1>1, ChainsLast DEF IInv, Tick
<1>3. Times \subseteq Times'
  BY <1>1 DEF Times
<1>4. EngineTyped'
  <2>1. UNCHANGED <<state, candidate, cache, failed, fetching, call, unseen>>
    BY DEF Tick, engine, security
  <2> HIDE DEF Times
  <2> QED BY <1>1, <1>3, <2>1 DEF EngineTyped
<1>5. ASSUME NEW t \in Tokens PROVE Coherent(t)'
  <2>1. Coherent(t) /\ cache[t] \in Times
    BY DEF IInv, EngineTyped
  <2>2. Within(cache[t], SendMaxAge)' => Within(cache[t], SendMaxAge)
    BY <1>1, <2>1, EvaluationAssumption DEF Within, Tick, security, Times, None
  <2>3. Within(cache[t], CacheTtl)' => Within(cache[t], CacheTtl)
    BY <1>1, <2>1, EvaluationAssumption DEF Within, Tick, security, Times, None
  <2> QED BY <2>1, <2>2, <2>3
          DEF Tick, Quiet, Ready, engine, security, Coherent, HasReference, Stale, Noticed
<1> QED BY <1>2, <1>4, <1>5 DEF IInv

-----------------------------------------------------------------------------
(* The theorems. *)

LEMMA InitHolds == Init => IInv
<1> SUFFICES ASSUME Init PROVE IInv
  OBVIOUS
<1>1. EngineTyped
  BY DEF Init, EngineTyped, Times, None
<1>2. \A t \in Tokens : Coherent(t)
  BY DEF Init, Coherent, Stale, Noticed
<1>3. ChainsTyped
  <2>1. \A S : <<>> \in Seq(S)
    BY EmptySeq
  <2> QED BY <2>1 DEF Init, ChainsTyped
<1>4. \A b \in Batches : Placed(queue, todo[b], b)
  BY DEF Init, Placed, Carries
<1> QED BY <1>1, <1>2, <1>3, <1>4 DEF IInv, ChainInv

LEMMA StepHolds == IInv /\ [Next]_vars => IInv'
<1> SUFFICES ASSUME IInv, [Next]_vars PROVE IInv'
  OBVIOUS
<1>1. ASSUME NEW t \in Tokens, Step(t) PROVE IInv'
  BY <1>1, EvaluateKeeps, MarketMissingKeeps, JudgeKeeps, SecurityArrivesKeeps,
     SecurityFailsKeeps, SendEndsKeeps, RetryLaterKeeps DEF Step
<1>2. ASSUME NEW b \in Batches, NEW changed \in Changes[b], Commit(b, changed) PROVE IInv'
  BY <1>2, CommitKeepsAll
<1>3. CASE Tick
  BY <1>3, TickKeeps
<1>4. CASE UNCHANGED vars
  <2>1. UNCHANGED <<queue, todo, now, state, candidate, cache, failed, fetching, call, unseen>>
    BY <1>4 DEF vars, engine, security
  <2>2. ChainInv' /\ \A u \in Tokens : Kept(u)
    <3>1. now \in Nat /\ now' = now
      BY <2>1 DEF IInv, ChainInv, ChainsTyped
    <3> QED BY <2>1, <3>1, ChainsLast DEF IInv
  <2>3. EngineTyped' /\ \A u \in Tokens : Same(u)
    BY <2>1 DEF IInv, EngineTyped, Times, Same
  <2> QED BY <2>1, <2>2, <2>3, OthersStayCoherent DEF IInv
<1> QED BY <1>1, <1>2, <1>3, <1>4 DEF Next

THEOREM EvaluationInvariant == Spec => []IInv
BY InitHolds, StepHolds, PTL DEF Spec

(* The types; what waits for security or for its card has a reference; a   *)
(* token whose card is under way is the first of its chain, and what is in *)
(* the chain of a token belongs to a batch that has the token left.        *)
THEOREM EvaluationIsTyped == Spec => []TypeOK
<1>1. ASSUME IInv PROVE TypeOK
  <2>1. ChainInv /\ EngineTyped /\ \A t \in Tokens : Coherent(t)
    BY <1>1 DEF IInv
  <2>2. ASSUME NEW t \in Tokens, NEW i \in DOMAIN queue[t], queue[t][i].batch # Completion
        PROVE  t \in todo[queue[t][i].batch]
    <3> DEFINE b == queue[t][i].batch
    <3>1. queue[t] \in Seq(Entries(now))
      BY <2>1 DEF ChainInv, ChainsTyped
    <3>2. i \in 1..Len(queue[t]) /\ i \in Nat /\ queue[t][i] \in Entries(now)
      BY <3>1, LenProperties, ElementOfSeq
    <3>3. b \in Batches /\ Carries(queue, t, i, b)
      BY <2>2, <3>2 DEF Entries, Carries
    <3> HIDE DEF b
    <3>4. t \in todo[b]
      BY <2>1, <3>2, <3>3 DEF ChainInv, Placed
    <3> QED BY <3>4 DEF b
  <2> QED BY <2>1, <2>2 DEF TypeOK, ChainInv, ChainsTyped, EngineTyped, Coherent, Entries
<1> QED BY <1>1, EvaluationInvariant, PTL

(* The engine's evaluations and rechecks: a candidate that waits for       *)
(* security, with no evaluation under way, was judged by the newest        *)
(* snapshot, whatever was queued, sent or lost when it came.               *)
THEOREM NoAnswerIsOverlooked == Spec => []AnswersAreSeen
<1>1. ASSUME IInv PROVE AnswersAreSeen
  BY <1>1 DEF IInv, Coherent, Noticed, AnswersAreSeen
<1> QED BY <1>1, EvaluationInvariant, PTL

(* Every batch with tokens left is in one chain, once, at the first of     *)
(* these tokens; no chain has an entry of a batch that is over.  So no     *)
(* batch is dropped between two of its tokens, and none is taken twice.    *)
THEOREM BatchesAreCarried == Spec => []\A b \in Batches : Placed(queue, todo[b], b)
<1>1. ASSUME IInv PROVE \A b \in Batches : Placed(queue, todo[b], b)
  BY <1>1 DEF IInv, ChainInv
<1> QED BY <1>1, EvaluationInvariant, PTL

-----------------------------------------------------------------------------
(* The refinement. *)

Awaited(calls) == {t \in Tokens : calls[t] = "security"}
SameView == UNCHANGED <<now, cache, failed, fetching, Awaited(call)>>

LEMMA SameViewIsStutter == ASSUME SameView PROVE UNCHANGED View!viewVars
<1>1. UNCHANGED <<Pruned(cache), Pruned(failed)>>
  BY DEF SameView, Pruned, Within
<1> QED BY <1>1 DEF SameView, View!viewVars, Awaited

(* A sender finds a fresh snapshot, or asks for one and waits.             *)
LEMMA AskIsRequire ==
  ASSUME ChainInv, EngineTyped, NEW t \in Tokens, call[t] # "security", AskFresh(t),
         UNCHANGED <<now, cache, failed>>
  PROVE  SameView \/ View!Require(t)
<1>1. now \in Nat /\ cache \in [Tokens -> Times] /\ DOMAIN call = Tokens
  BY DEF ChainInv, ChainsTyped, EngineTyped
<1>2. CASE call' = [call EXCEPT ![t] = "judging"] /\ UNCHANGED fetching
  <2>1. Awaited(call') = Awaited(call)
    BY <1>1, <1>2 DEF Awaited
  <2> QED BY <1>2, <2>1 DEF SameView
<1>3. CASE /\ ~Within(cache[t], SendMaxAge)
           /\ call' = [call EXCEPT ![t] = "security"] /\ fetching' = fetching \cup {t}
  <2>1. Awaited(call') = Awaited(call) \cup {t}
    BY <1>1, <1>3 DEF Awaited
  <2>2. Pruned(cache)[t] = None \/ now - Pruned(cache)[t] > SendMaxAge
    BY <1>1, <1>3, EvaluationAssumption DEF Pruned, Within, Times, None
  <2>3. UNCHANGED <<Pruned(cache), Pruned(failed)>>
    BY DEF Pruned, Within
  <2>4. View!Require(t)
    BY <1>3, <2>1, <2>2, <2>3 DEF View!Require, Awaited
  <2> QED BY <2>4
<1> QED BY <1>2, <1>3 DEF AskFresh

(* A verdict asks for security, for a card or beforehand, or for nothing.  *)
LEMMA DecideInView ==
  ASSUME ChainInv, EngineTyped, NEW t \in Tokens, call[t] = "idle", NEW d, Decide(t, d)
  PROVE  SameView \/ View!ViewNext
<1>1. UNCHANGED <<now, cache, failed>> /\ DOMAIN call = Tokens
  BY DEF Decide, EngineTyped
<1>2. CASE d.state = "qualified"
  <2>1. AskFresh(t)
    BY <1>2 DEF Decide
  <2>2. SameView \/ View!Require(t)
    BY <1>1, <2>1, AskIsRequire
  <2> QED BY <2>2 DEF View!ViewNext
<1>3. CASE d.state = "confirmed"
  <2>1. call' = [call EXCEPT ![t] = "editing"] /\ UNCHANGED fetching
    BY <1>3 DEF Decide
  <2>2. Awaited(call') = Awaited(call)
    BY <1>1, <2>1 DEF Awaited
  <2> QED BY <1>1, <2>1, <2>2 DEF SameView
<1>4. CASE d.state # "qualified" /\ d.state # "confirmed"
  <2>1. fetching' \in {fetching, Preheated(t)} /\ UNCHANGED call
    BY <1>4 DEF Decide
  <2>2. CASE fetching' = fetching
    BY <1>1, <2>1, <2>2 DEF SameView
  <2>3. CASE /\ ~Within(cache[t], CacheTtl) /\ ~Within(failed[t], CacheTtl)
             /\ fetching' = fetching \cup {t}
    <3>1. Pruned(cache)[t] = None /\ Pruned(failed)[t] = None
      BY <2>3 DEF Pruned
    <3>2. UNCHANGED <<Pruned(cache), Pruned(failed), Awaited(call)>>
      BY <1>1, <2>1 DEF Pruned, Within, Awaited
    <3>3. View!Preheat(t)
      BY <1>1, <2>3, <3>1, <3>2 DEF View!Preheat, Awaited
    <3> QED BY <3>3 DEF View!ViewNext
  <2> QED BY <2>1, <2>2, <2>3 DEF Preheated
<1> QED BY <1>2, <1>3, <1>4

LEMMA AnswerInView ==
  ASSUME ChainInv, EngineTyped, NEW t \in Tokens, SecurityArrives(t) \/ SecurityFails(t)
  PROVE  View!ViewNext
<1>1. /\ now \in Nat /\ cache \in [Tokens -> Times] /\ failed \in [Tokens -> Times]
      /\ DOMAIN call = Tokens
  BY DEF ChainInv, ChainsTyped, EngineTyped
<1>2. /\ t \in fetching /\ fetching' = fetching \ {t} /\ now' = now
      /\ call' = IF call[t] = "security" THEN [call EXCEPT ![t] = "judging"] ELSE call
  BY DEF SecurityArrives, SecurityFails, Answered
<1>3. Awaited(call') = Awaited(call) \ {t}
  BY <1>1, <1>2 DEF Awaited
<1>4. View!Answered(t)
  BY <1>2, <1>3 DEF View!Answered, Awaited
<1>5. Within(now, CacheTtl) /\ ~Within(None, CacheTtl)
  BY <1>1, EvaluationAssumption DEF Within, None
<1>6. CASE SecurityArrives(t)
  <2>1. cache' = [cache EXCEPT ![t] = now] /\ failed' = [failed EXCEPT ![t] = None]
    BY <1>6 DEF SecurityArrives
  <2>2. Pruned(cache)' = [Pruned(cache) EXCEPT ![t] = now]
    BY <1>1, <1>2, <1>5, <2>1 DEF Pruned, Within
  <2>3. Pruned(failed)' = [Pruned(failed) EXCEPT ![t] = None]
    BY <1>1, <1>2, <1>5, <2>1 DEF Pruned, Within
  <2>4. View!Arrives(t)
    BY <1>4, <2>2, <2>3 DEF View!Arrives
  <2> QED BY <2>4 DEF View!ViewNext
<1>7. CASE SecurityFails(t)
  <2>1. cache' = cache /\ failed' = [failed EXCEPT ![t] = now]
    BY <1>7 DEF SecurityFails
  <2>2. Pruned(cache)' = Pruned(cache)
    BY <1>2, <2>1 DEF Pruned, Within
  <2>3. Pruned(failed)' = [Pruned(failed) EXCEPT ![t] = now]
    BY <1>1, <1>2, <1>5, <2>1 DEF Pruned, Within
  <2>4. View!Fails(t)
    BY <1>4, <2>2, <2>3 DEF View!Fails
  <2> QED BY <2>4 DEF View!ViewNext
<1> QED BY <1>6, <1>7

LEMMA TickInView ==
  ASSUME ChainInv, EngineTyped, Tick PROVE View!ViewNext
<1> DEFINE Left(times) ==
      [t \in Tokens |-> IF times[t] # None /\ now' - times[t] <= CacheTtl THEN times[t] ELSE None]
<1>1. /\ now \in Nat /\ cache \in [Tokens -> Times] /\ failed \in [Tokens -> Times]
      /\ now' = now + 1 /\ UNCHANGED <<cache, failed, fetching, call>>
  BY DEF ChainInv, ChainsTyped, EngineTyped, Tick, security
<1>2. ASSUME NEW times \in [Tokens -> Times] PROVE Left(times) = View!Lasting(Pruned(times))
  <2>1. ASSUME NEW t \in Tokens
        PROVE  times[t] # None /\ now' - times[t] <= CacheTtl <=>
                 Pruned(times)[t] # None /\ now' - Pruned(times)[t] <= CacheTtl
    BY <1>1, EvaluationAssumption DEF Pruned, Within, Times, None
  <2>2. \A t \in Tokens : Pruned(times)[t] # None => Pruned(times)[t] = times[t]
    BY DEF Pruned
  <2> QED BY <2>1, <2>2 DEF View!Lasting
<1>3. Pruned(cache)' = Left(cache) /\ Pruned(failed)' = Left(failed)
  BY <1>1 DEF Pruned, Within
<1>4. Left(cache) = View!Lasting(Pruned(cache)) /\ Left(failed) = View!Lasting(Pruned(failed))
  BY <1>1, <1>2
<1>5. View!Pass
  BY <1>1, <1>3, <1>4 DEF View!Pass
<1> QED BY <1>5 DEF View!ViewNext

LEMMA StepInView ==
  ASSUME IInv, [Next]_vars PROVE [View!ViewNext]_(View!viewVars)
<1>1. ChainInv /\ EngineTyped /\ DOMAIN call = Tokens
  BY DEF IInv, EngineTyped
<1>2. CASE SameView
  BY <1>2, SameViewIsStutter
<1>3. ASSUME NEW t \in Tokens, Evaluate(t) PROVE SameView \/ View!ViewNext
  <2>1. call[t] = "idle"
    BY <1>3 DEF Evaluate, Ready
  <2>2. CASE UNCHANGED <<now, security, call>>
    BY <2>2 DEF SameView, security, Awaited
  <2>3. CASE \E d : Decide(t, d)
    BY <1>1, <2>1, <2>3, DecideInView
  <2> QED BY <1>3, <2>2, <2>3 DEF Evaluate
<1>4. ASSUME NEW t \in Tokens, MarketMissing(t) PROVE SameView
  BY <1>4 DEF MarketMissing, SameView, security
<1>5. ASSUME NEW t \in Tokens, Judge(t) \/ SendEnds(t) \/ EditEnds(t) PROVE SameView
  <2>1. /\ UNCHANGED <<now, security>> /\ call[t] # "security"
        /\ call' = [call EXCEPT ![t] = "idle"] \/ call' = [call EXCEPT ![t] = "sending"]
    BY <1>5 DEF Judge, SendEnds, EditEnds, Returns
  <2>2. Awaited(call') = Awaited(call)
    BY <1>1, <2>1 DEF Awaited
  <2> QED BY <2>1, <2>2 DEF SameView, security
<1>6. ASSUME NEW t \in Tokens, RetryLater(t) PROVE SameView \/ View!ViewNext
  <2>1. AskFresh(t) /\ call[t] # "security" /\ UNCHANGED <<now, cache, failed>>
    BY <1>6 DEF RetryLater
  <2>2. SameView \/ View!Require(t)
    BY <1>1, <2>1, AskIsRequire
  <2> QED BY <2>2 DEF View!ViewNext
<1>7. ASSUME NEW b \in Batches, NEW changed \in Changes[b], Commit(b, changed) PROVE SameView
  BY <1>7 DEF Commit, SameView, security
<1>8. CASE UNCHANGED vars
  <2>1. SameView
    BY <1>8 DEF vars, SameView, security
  <2> QED BY <1>2, <2>1
<1> QED
  BY <1>1, <1>2, <1>3, <1>4, <1>5, <1>6, <1>7, <1>8, AnswerInView, TickInView DEF Next, Step

(* What the engine takes the security manager for is what SnapshotView     *)
(* says: it asks and is answered as the manager does, for any tokens.      *)
THEOREM EvaluationImplementsView == Spec => ImplementsSnapshotView
<1>1. Init => View!ViewInit
  BY DEF Init, View!ViewInit, View!Nothing, Pruned, Within
<1>2. IInv /\ [Next]_vars => [View!ViewNext]_(View!viewVars)
  BY StepInView
<1> QED BY <1>1, <1>2, EvaluationInvariant, PTL DEF Spec, ImplementsSnapshotView, View!ViewSpec
=============================================================================
