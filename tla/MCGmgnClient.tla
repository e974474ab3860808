---------------------------- MODULE MCGmgnClient ----------------------------
(* Instances of GmgnClient for TLC. *)
EXTENDS GmgnClient, TLC

RequestSymmetry == Permutations(Requests)
ResetTimes == {3, 9}         \* acceptable at first and past later; absurd
WholeBodies == {"json", "text", "unread"}
StorageFaults == {"storage"}
=============================================================================
