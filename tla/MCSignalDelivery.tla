-------------------------- MODULE MCSignalDelivery --------------------------
(* Instances of SignalDelivery for TLC.  No action of one token reads or   *)
(* writes another token's state, except Restart and Shutdown, so that one  *)
(* token shows every interleaving that matters.                            *)
EXTENDS SignalDelivery

CONSTANT t1

OneToken == {t1}

NoFaults == {}
AllHonestFaults == FaultKinds \ {"late_5xx"}
Late5xx == {"late_5xx"}
=============================================================================
