-------------------------- MODULE MCBridgeBurnMint --------------------------
(* Model values and bounds for checking BridgeBurnMint with TLC.            *)
EXTENDS BridgeBurnMint, TLC

CONSTANTS s1, s2, s3, arc, other, h1, h2, h3

MCSignerVectors == {<<s1>>, <<s2>>, <<s1, s2>>, <<s2, s1>>}
MCSymmetry == Permutations(Hashes) \cup Permutations(Accounts) \cup Permutations(Chains)
=============================================================================
