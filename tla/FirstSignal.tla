---------------------------- MODULE FirstSignal ----------------------------
(***************************************************************************)
(* What the bot promises about the first signal of a token, without saying *)
(* how: at most three tries, a new try only when every earlier one is      *)
(* known to have been refused, at most one message, and no message without *)
(* the token staying blocked for good.                                     *)
(***************************************************************************)
EXTENDS Naturals

CONSTANT Tokens

MaximumTries == 3

VARIABLES
  gate,      \* open: a try may start;  trying: one is out;
             \* shut: outcome unknown, never tried again;  done: known delivered
  tries,     \* tries started
  messages   \* messages in the chat

firstVars == <<gate, tries, messages>>

FirstInit ==
  /\ gate = [t \in Tokens |-> "open"]
  /\ tries = [t \in Tokens |-> 0]
  /\ messages = [t \in Tokens |-> 0]

Try(t) ==
  /\ gate[t] = "open" /\ tries[t] < MaximumTries
  /\ gate' = [gate EXCEPT ![t] = "trying"]
  /\ tries' = [tries EXCEPT ![t] = @ + 1]
  /\ UNCHANGED messages

(* Telegram may act on a try late, when the bot has already written it off. *)
Land(t) ==
  /\ gate[t] \in {"trying", "shut"} /\ messages[t] = 0
  /\ messages' = [messages EXCEPT ![t] = 1]
  /\ UNCHANGED <<gate, tries>>

Refuse(t) ==
  /\ gate[t] = "trying" /\ messages[t] = 0
  /\ gate' = [gate EXCEPT ![t] = "open"]
  /\ UNCHANGED <<tries, messages>>

Acknowledge(t) ==
  /\ gate[t] = "trying" /\ messages[t] = 1
  /\ gate' = [gate EXCEPT ![t] = "done"]
  /\ UNCHANGED <<tries, messages>>

(* Tries of unknown outcome are written off, several at once by a restart. *)
WriteOff(S) ==
  /\ \A t \in S : gate[t] = "trying"
  /\ gate' = [t \in Tokens |-> IF t \in S THEN "shut" ELSE gate[t]]
  /\ UNCHANGED <<tries, messages>>

FirstNext ==
  \/ \E t \in Tokens : Try(t) \/ Land(t) \/ Refuse(t) \/ Acknowledge(t)
  \/ \E S \in SUBSET Tokens : WriteOff(S)

FirstSpec == FirstInit /\ [][FirstNext]_firstVars
=============================================================================
