---------------------------- MODULE MCArcBridge ----------------------------
(* Model values and bounds for checking ArcBridge with TLC.                 *)
EXTENDS ArcBridge, TLC

CONSTANTS v1, v2, v3, alice, bob, stellar, other, h1, h2

MCTwoValidators == {<<v1, v2>>, <<v2, v1>>}
MCLists == UNION {[1..n -> Accounts] : n \in 0..2}
MCSymmetry == Permutations(Accounts) \cup Permutations(Users) \cup Permutations(Chains)
=============================================================================
