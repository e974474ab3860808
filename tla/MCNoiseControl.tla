---------------------------- MODULE MCNoiseControl ----------------------------
(* An instance of NoiseControl for TLC: three tokens, two of one creator.  *)
EXTENDS NoiseControl, TLC

CONSTANTS a, b, c

ThreeTokens == {a, b, c}
Creators == (a :> "k") @@ (b :> "k") @@ (c :> NoCreator)
Twins == Permutations({a, b})
=============================================================================
