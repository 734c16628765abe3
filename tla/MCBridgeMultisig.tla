-------------------------- MODULE MCBridgeMultisig --------------------------
(* Model values and bounds for checking BridgeMultisig with TLC.            *)
EXTENDS BridgeMultisig, TLC

CONSTANTS s1, s2, s3, adm, d1, d2

MCAccounts == {s1, s2, s3}
MCTwoAccounts == {s1, s2}
MCAdmins == {adm}
MCDeposits == {d1, d2}
MCDistinctNonces == [d \in MCDeposits |-> d]
\* d1 and d2 begin with the same eight bytes.
MCCollidingNonces == [d \in MCDeposits |-> 0]
MCTwoSigners == {<<s1, s2>>}
\* Every signer vector without repetitions.
MCInjectiveVectors ==
  {v \in UNION {[1..n -> MCAccounts] : n \in 1..3} : IsInjective(v)}
MCSymmetry == Permutations(MCAccounts)
=============================================================================
