SPECIFICATION Spec
CONSTANTS
  v1 = v1
  v2 = v2
  v3 = v3
  alice = alice
  bob = bob
  stellar = stellar
  other = other
  h1 = h1
  h2 = h2
  Accounts = {v1, v2}
  Users = {alice}
  Chains = {stellar}
  Hashes = {h1}
  Nonces = {0}
  Amounts = {1}
  InitialValidators <- MCTwoValidators
  SignatureLists <- MCLists
  Caps = {0}
  Windows = {1}
  MintCaps = {0}
  MaxSupply = 2
  MaxMints = 1
  MaxBurns = 0
  MaxTime = 0
PROPERTIES
  MintsSignedByThreshold
