SPECIFICATION Spec
CONSTANTS
  s1 = s1
  s2 = s2
  s3 = s3
  adm = adm
  d1 = d1
  d2 = d2
  Accounts <- MCAccounts
  Admins <- MCAdmins
  Deposits <- MCDeposits
  NonceOf <- MCCollidingNonces
  InitialSigners <- MCInjectiveVectors
  Amounts = {0, 2}
  Caps = {0, 2}
  Windows = {1}
  Ages = {1}
  VaultFunds = 2
  MaxProposals = 2
  MaxLedger = 2
SYMMETRY MCSymmetry
INVARIANTS
  TypeOK
  QuorumReachable
  ExecutedByDistinctVoters
  NonceGuardsNewProposals
  TotalsMatchExecuted
