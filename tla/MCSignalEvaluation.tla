------------------------- MODULE MCSignalEvaluation -------------------------
(* Instances of SignalEvaluation for TLC. *)
EXTENDS SignalEvaluation, TLC

CONSTANTS b1, b2

TwoBatches == {b1, b2}
OneOvertakes == (b1 :> {{1, 2}}) @@ (b2 :> {{1}, {2}})
=============================================================================
