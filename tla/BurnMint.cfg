SPECIFICATION Spec
CONSTANTS
  s1 = s1
  s2 = s2
  s3 = s3
  arc = arc
  other = other
  h1 = h1
  h2 = h2
  h3 = h3
  Accounts = {s1, s2}
  Chains = {arc, other}
  Hashes = {h1, h2}
  Amounts = {0, 2}
  InitialSigners <- MCSignerVectors
  Caps = {0, 3}
  Windows = {1, 2}
  MintCaps = {0, 2}
  Funds = 4
  MaxBurns = 2
  MaxMints = 2
  MaxLedger = 2
SYMMETRY MCSymmetry
INVARIANTS
  BurnMintInv
  BooksBalance
PROPERTIES
  MintsBackedAndCapped
