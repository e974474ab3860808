--------------------------- MODULE MCRateLimiter ---------------------------
(* An instance of RateLimiter for TLC. *)
EXTENDS RateLimiter

RestartsAndStorage == {"restart", "storage"}
=============================================================================
