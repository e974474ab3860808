---------------------------- MODULE SnapshotView ----------------------------
(***************************************************************************)
(* What the rest of the bot may take the security manager for, without its *)
(* jobs, places and queue: a token is asked for when nothing is remembered *)
(* of it, or when a sender finds nothing fresh; each question has one      *)
(* answer, which reaches the sender that waits; and answers and failures   *)
(* are remembered for their time, and no longer.                           *)
(***************************************************************************)
EXTENDS Integers

CONSTANTS
  Tokens,
  CacheTtl,      \* how long answers and failures are remembered
  SendMaxAge,    \* how old an answer may be for a sender
  None           \* a time that is not set

VARIABLES
  now,
  captured,   \* of each token: when the answer that is remembered was given
  missed,     \* of each token: when the failure that is remembered happened
  asked,      \* the tokens with a question under way
  awaited     \* the tokens of which a sender waits for the answer

viewVars == <<now, captured, missed, asked, awaited>>

Nothing == [t \in Tokens |-> None]
ViewInit ==
  /\ now = 0
  /\ captured = Nothing /\ missed = Nothing
  /\ asked = {} /\ awaited = {}

Preheat(t) ==
  /\ captured[t] = None /\ missed[t] = None
  /\ asked' = asked \cup {t}
  /\ UNCHANGED <<now, captured, missed, awaited>>

Require(t) ==
  /\ captured[t] = None \/ now - captured[t] > SendMaxAge
  /\ asked' = asked \cup {t} /\ awaited' = awaited \cup {t}
  /\ UNCHANGED <<now, captured, missed>>

Answered(t) == t \in asked /\ asked' = asked \ {t} /\ awaited' = awaited \ {t} /\ UNCHANGED now

Arrives(t) ==
  /\ Answered(t)
  /\ captured' = [captured EXCEPT ![t] = now]
  /\ missed' = [missed EXCEPT ![t] = None]

(* An older answer is still remembered.                                    *)
Fails(t) ==
  /\ Answered(t)
  /\ missed' = [missed EXCEPT ![t] = now]
  /\ UNCHANGED captured

Lasting(times) ==
  [t \in Tokens |-> IF times[t] # None /\ now' - times[t] <= CacheTtl THEN times[t] ELSE None]
Pass ==
  /\ now' = now + 1
  /\ captured' = Lasting(captured) /\ missed' = Lasting(missed)
  /\ UNCHANGED <<asked, awaited>>

ViewNext ==
  \/ \E t \in Tokens : Preheat(t) \/ Require(t) \/ Arrives(t) \/ Fails(t)
  \/ Pass

ViewSpec == ViewInit /\ [][ViewNext]_viewVars
=============================================================================
