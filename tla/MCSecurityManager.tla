------------------------- MODULE MCSecurityManager -------------------------
(* Instances of SecurityManager for TLC. *)
EXTENDS SecurityManager

CONSTANTS a, b, c

ThreeTokens == {a, b, c}
OneToken == {a}
=============================================================================
