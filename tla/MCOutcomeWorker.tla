-------------------------- MODULE MCOutcomeWorker --------------------------
(* Instances of OutcomeWorker for TLC: a job of an earlier release and a   *)
(* new one, of every pair of kinds that take different ways through the    *)
(* worker.                                                                 *)
EXTENDS OutcomeWorker

TwoJobs == 1..2
OldAndNew == [j \in Jobs |-> j - 1]

Signal(lifecycle, final, priced) ==
  [kind |-> "signal", lifecycle |-> lifecycle, final |-> final, priced |-> priced]
Sample(lifecycle, final) ==
  [kind |-> "research", lifecycle |-> lifecycle, final |-> final, priced |-> TRUE]

(* no_trade, api_missing and retry_exhausted are treated alike.            *)
OldRowStates == {"completed", "no_trade", "pool_removed", "pending"}

Pairs == {<<Signal("graduated", TRUE, TRUE), Signal("curve", FALSE, FALSE)>>,
          <<Sample("curve", FALSE), Signal("graduated", TRUE, TRUE)>>}
=============================================================================
