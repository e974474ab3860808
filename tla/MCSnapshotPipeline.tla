------------------------- MODULE MCSnapshotPipeline -------------------------
(* Instances of SnapshotPipeline for TLC. *)
EXTENDS SnapshotPipeline

OneToken == {"t1"}
TwoPayloads == {"p", "q"}
TwoSources == <<"rank_1m", "trenches">>
OneRank == {"rank_1m"}
StorageFaults == {"storage"}
=============================================================================
