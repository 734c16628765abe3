SPECIFICATION Spec
CONSTANTS
  s1 = s1
  s2 = s2
  s3 = s3
  adm = adm
  d1 = d1
  d2 = d2
  Accounts <- MCTwoAccounts
  Admins <- MCAdmins
  Deposits <- MCDeposits
  NonceOf <- MCDistinctNonces
  InitialSigners <- MCTwoSigners
  Amounts = {1, 2}
  Caps = {0}
  Windows = {1}
  Ages = {2}
  VaultFunds = 2
  MaxProposals = 2
  MaxLedger = 3
INVARIANT DepositExecutedOnce
