--------------------------- MODULE ArcBridgeProofs ---------------------------
(* Proofs about the Arc bridge and its token, for all validators, holders,  *)
(* amounts, caps and hashes, and any number of mints, burns and transfers.  *)
EXTENDS ArcBridge, SumTheorems, FiniteSetTheorems, TLAPS

-----------------------------------------------------------------------------
(* The validators array.                                                    *)

\* The loop of removeValidator finds the first occurrence.
LEMMA FirstIndexIsFirst ==
  ASSUME NEW seq \in Seq(Accounts), NEW v \in Range(seq)
  PROVE  FirstIndex(seq, v) \in DOMAIN seq /\ seq[FirstIndex(seq, v)] = v
<1> DEFINE at == {i \in DOMAIN seq : seq[i] = v}
           n == Len(seq)
           prefixes == {1..i : i \in at}
<1>1. at \subseteq 1..n /\ at # {} /\ n \in Nat
  BY DEF Range
<1>2. PICK i \in at : \A j \in at : i <= j
  <2>1. PICK S : S = 1..n
    OBVIOUS
  <2>2. IsFiniteSet(S) /\ prefixes \in SUBSET (SUBSET S) /\ prefixes # {}
    <3>1. IsFiniteSet(1..n)
      BY <1>1, FS_Interval
    <3> QED
      BY <1>1, <2>1, <3>1
  <2> HIDE DEF prefixes
  <2>3. PICK T \in prefixes : \A U \in SUBSET T : U \in prefixes => U = T
    BY <2>2, MinimalSubset
  <2>4. PICK i \in at : T = 1..i
    BY <2>3 DEF prefixes
  <2>5. ASSUME NEW j \in at, j < i PROVE FALSE
    <3>1. i \in Nat /\ j \in Nat
      BY <1>1
    <3>2. 1..j \in SUBSET T /\ 1..j \in prefixes
      BY <2>4, <2>5, <3>1 DEF prefixes
    <3>3. 1..j = 1..i
      BY <2>3, <2>4, <3>2
    <3>4. i \in 1..i /\ i \notin 1..j
      BY <1>1, <2>5, <3>1
    <3> QED
      BY <3>3, <3>4
  <2>6. \A j \in at : j \in Nat
    BY <1>1
  <2> QED
    BY <2>4, <2>5, <2>6
<1>3. i \in DOMAIN seq /\ seq[i] = v /\ \A j \in 1..(i - 1) : seq[j] # v
  <2>1. i \in DOMAIN seq /\ seq[i] = v /\ DOMAIN seq = 1..Len(seq) /\ Len(seq) \in Nat
    OBVIOUS
  <2>2. ASSUME NEW j \in 1..(i - 1) PROVE seq[j] # v
    BY <1>2, <2>1, <2>2
  <2> QED
    BY <2>1, <2>2
<1> QED
  BY <1>3 DEF FirstIndex

\* Swap and pop keeps every validator but the one removed.
LEMMA SwapAndPopKeeps ==
  ASSUME NEW seq \in Seq(Accounts), NEW v \in Range(seq)
  PROVE  /\ SwapAndPop(seq, v) \in Seq(Accounts)
         /\ Len(SwapAndPop(seq, v)) = Len(seq) - 1
         /\ Range(seq) \ {v} \subseteq Range(SwapAndPop(seq, v))
         /\ IsInjective(seq) => /\ IsInjective(SwapAndPop(seq, v))
                                /\ Range(SwapAndPop(seq, v)) = Range(seq) \ {v}
<1> DEFINE n == Len(seq)
           i == FirstIndex(seq, v)
           r == SwapAndPop(seq, v)
           swapped == [seq EXCEPT ![i] = seq[n]]
<1>1. DOMAIN seq = 1..n /\ n \in Nat /\ i \in 1..n /\ seq[i] = v
  BY FirstIndexIsFirst
<1>2. \A k \in 1..n : seq[k] \in Accounts
  OBVIOUS
<1>3. swapped \in Seq(Accounts) /\ Len(swapped) = n
  <2>1. swapped \in [1..n -> Accounts]
    BY <1>1, <1>2
  <2> QED
    BY <1>1, <2>1
<1>4. r = SubSeq(swapped, 1, n - 1)
  BY <1>1, <1>3 DEF SwapAndPop, Front, Last
<1>5. /\ r \in Seq(Accounts) /\ Len(r) = n - 1 /\ DOMAIN r = 1..(n - 1)
      /\ \A k \in 1..(n - 1) : r[k] = IF k = i THEN seq[n] ELSE seq[k]
  <2>1. n - 1 \in 0..n
    BY <1>1
  <2> HIDE DEF n, i, swapped
  <2>2. r \in Seq(Accounts) /\ Len(r) = n - 1 /\ \A k \in 1..(n - 1) : r[k] = swapped[k]
    BY <1>1, <1>3, <1>4, <2>1
  <2>3. \A k \in 1..(n - 1) : swapped[k] = IF k = i THEN seq[n] ELSE seq[k]
    BY <1>1 DEF swapped
  <2> QED
    BY <1>1, <2>2, <2>3
<1> HIDE DEF n, i, r, swapped
<1>6. Range(seq) \ {v} \subseteq Range(r)
  <2>1. Range(seq) = {seq[j] : j \in 1..n} /\ Range(r) = {r[k] : k \in 1..(n - 1)}
    BY <1>1, <1>5 DEF Range
  <2>2. ASSUME NEW j \in 1..n, seq[j] # v PROVE seq[j] \in {r[k] : k \in 1..(n - 1)}
    <3>1. CASE j = n
      BY <1>1, <1>5, <2>2, <3>1
    <3>2. CASE j # n
      BY <1>1, <1>5, <2>2, <3>2
    <3> QED
      BY <3>1, <3>2
  <2> QED
    BY <2>1, <2>2
<1>7. ASSUME IsInjective(seq)
      PROVE  IsInjective(r) /\ Range(r) = Range(seq) \ {v}
  <2>1. \A j, k \in 1..n : seq[j] = seq[k] => j = k
    BY <1>1, <1>7 DEF IsInjective
  <2>2. IsInjective(r)
    BY <1>1, <1>5, <2>1 DEF IsInjective
  <2>3. ASSUME NEW k \in 1..(n - 1) PROVE r[k] \in Range(seq) /\ r[k] # v
    <3>1. n \in 1..n
      BY <1>1
    <3>3. CASE k = i
      BY <1>1, <1>5, <2>1, <3>1, <3>3 DEF Range
    <3>4. CASE k # i
      BY <1>1, <1>5, <2>1, <3>4 DEF Range
    <3> QED
      BY <3>3, <3>4
  <2> QED
    BY <1>5, <1>6, <2>2, <2>3 DEF Range
<1> QED
  BY <1>5, <1>6, <1>7 DEF n, r

-----------------------------------------------------------------------------
(* Type correctness.  removeValidator finds the account it is given because *)
(* an account with the flag is in the array.                                *)

FlaggedListed == isValidator \subseteq Range(validators)

StateInv == TypeOK /\ FlaggedListed

LEMMA InitState == Init => StateInv
<1> SUFFICES ASSUME Init PROVE StateInv
  OBVIOUS
<1>1. /\ validators \in Seq(Accounts) /\ Len(validators) \in Nat
      /\ isValidator = Range(validators)
      /\ threshold \in 0..Len(validators) /\ ValidThreshold(Len(validators), threshold)
  BY ArcAssumption DEF Init
<1>2. isValidator \subseteq Accounts /\ threshold \in Nat \ {0}
  BY <1>1 DEF Range, ValidThreshold
<1>3. /\ mintCap \in [Chains -> MintCaps \cup {0}]
      /\ totalMinted \in [Chains -> Nat] /\ totalBurned \in [Chains -> Nat]
      /\ nonces \in [Chains -> [Users -> Nat]]
      /\ balance \in [Users -> Nat]
  BY DEF Init
<1>4. mints \in Seq(Mint) /\ burns \in Seq(Burn)
  BY DEF Init
<1> QED
  BY <1>1, <1>2, <1>3, <1>4 DEF Init, StateInv, TypeOK, FlaggedListed

LEMMA HashType ==
  ASSUME NEW hash \in BridgeHashes
  PROVE  hash \in BridgeHash /\ hash.amount \in Nat /\ hash.chain \in Chains /\ hash.to \in Users
  BY ArcAssumption DEF BridgeHashes, BridgeHash

LEMMA MintTypeOK ==
  ASSUME TypeOK, NEW hash \in BridgeHashes, NEW signatures \in SignatureLists,
         MintPusd(hash, signatures)
  PROVE  TypeOK'
<1>1. hash \in BridgeHash /\ hash.amount \in Nat /\ hash.chain \in Chains /\ hash.to \in Users
  BY HashType
<1>2. windowStart' \in Nat /\ windowVolume' \in Nat
  BY SMTT(30), <1>1 DEF MintPusd, CountVolume, OpenVolume, TypeOK
<1>3. signatures \in Seq(Accounts)
  BY ArcAssumption
<1>4. mints' \in Seq(Mint)
  BY <1>1, <1>2, <1>3 DEF MintPusd, TypeOK, Mint
<1>5. totalMinted' \in [Chains -> Nat]
  BY <1>1 DEF MintPusd, Credited, TypeOK
<1>6. balance' \in [Users -> Nat]
  BY <1>1 DEF MintPusd, TokenMint, TypeOK
<1>7. processedHashes' \subseteq BridgeHash
  BY <1>1 DEF MintPusd, TypeOK
<1> QED
  BY <1>2, <1>4, <1>5, <1>6, <1>7 DEF MintPusd, TypeOK, config, token, burnState

LEMMA BurnTypeOK ==
  ASSUME TypeOK, NEW user \in Users, NEW chain \in Chains, NEW amount \in Amounts,
         BurnPusd(user, chain, amount)
  PROVE  TypeOK'
<1>1. amount \in Nat \ {0}
  BY ArcAssumption DEF BurnPusd
<1>2. nonces[chain][user] \in Nat
  BY DEF TypeOK
<1>3. burns' \in Seq(Burn)
  BY <1>1, <1>2 DEF BurnPusd, TypeOK, Burn
<1>4. totalBurned' \in [Chains -> Nat]
  BY <1>1 DEF BurnPusd, Credited, TypeOK
<1>5. nonces' \in [Chains -> [Users -> Nat]]
  BY <1>2 DEF BurnPusd, NonceTaken, TypeOK
<1>6. balance' \in [Users -> Nat]
  BY <1>1 DEF BurnPusd, TokenBurn, TypeOK
<1> QED
  BY <1>3, <1>4, <1>5, <1>6 DEF BurnPusd, TypeOK, config, token, mintState, breaker

LEMMA TransferTypeOK ==
  ASSUME TypeOK, NEW from \in Users, NEW to \in Users, NEW amount \in Amounts,
         Transfer(from, to, amount)
  PROVE  TypeOK'
<1>1. amount \in Nat
  BY ArcAssumption
<1>2. balance' \in [Users -> Nat]
  BY <1>1 DEF Transfer, TypeOK
<1> QED
  BY <1>2 DEF Transfer, TypeOK, config, token, mintState, breaker, burnState

\* The configuration after a call of the admin, and what it leaves alone.
LEMMA BridgeAdminTypeOK ==
  ASSUME StateInv, BridgeAdmin
  PROVE  TypeOK'
<1>1. /\ validators' \in Seq(Accounts)
      /\ isValidator' \subseteq Accounts
      /\ threshold' \in Nat \ {0}
      /\ volumeCap' \in Caps /\ volumeWindow' \in Windows
      /\ mintCap' \in [Chains -> MintCaps \cup {0}]
      /\ paused' \in BOOLEAN
  <2> USE DEF StateInv, TypeOK
  <2>1. CASE \E v \in Accounts : AddValidator(v)
    BY <2>1 DEF AddValidator
  <2>2. CASE \E v \in Accounts : RemoveValidator(v)
    <3>1. PICK v \in Accounts : RemoveValidator(v)
      BY <2>2
    <3>2. v \in Range(validators)
      BY <3>1 DEF RemoveValidator, FlaggedListed
    <3>3. SwapAndPop(validators, v) \in Seq(Accounts)
      BY <3>2, SwapAndPopKeeps
    <3> QED
      BY <3>1, <3>3 DEF RemoveValidator
  <2>3. CASE \E t \in 0..(Cardinality(Accounts) + 1) : SetThreshold(t)
    BY <2>3 DEF SetThreshold, ValidThreshold
  <2>4. CASE \E cap \in Caps, window \in Windows : SetVolumeCap(cap, window)
    BY <2>4 DEF SetVolumeCap
  <2>5. CASE \E chain \in Chains, cap \in MintCaps : SetChainMintCap(chain, cap)
    BY <2>5 DEF SetChainMintCap
  <2>6. CASE \E p \in BOOLEAN : SetPaused(p)
    BY <2>6 DEF SetPaused
  <2> QED
    BY <2>1, <2>2, <2>3, <2>4, <2>5, <2>6 DEF BridgeAdmin
<1> QED
  BY <1>1 DEF StateInv, TypeOK, BridgeAdmin, token, mintState, breaker, burnState

LEMMA NextTypeOK == StateInv /\ [Next]_vars => TypeOK'
<1> SUFFICES ASSUME StateInv, [Next]_vars PROVE TypeOK'
  OBVIOUS
<1>0. TypeOK
  BY DEF StateInv
<1>1. CASE \E hash \in BridgeHashes, signatures \in SignatureLists : MintPusd(hash, signatures)
  BY <1>0, <1>1, MintTypeOK
<1>2. CASE \E user \in Users, chain \in Chains, amount \in Amounts : BurnPusd(user, chain, amount)
  BY <1>0, <1>2, BurnTypeOK
<1>3. CASE \E from, to \in Users, amount \in Amounts : Transfer(from, to, amount)
  BY <1>0, <1>3, TransferTypeOK
<1>4. CASE BridgeAdmin
  BY <1>4, BridgeAdminTypeOK
<1>5. CASE TokenAdmin
  BY <1>0, <1>5 DEF TokenAdmin, TypeOK, config, mintState, breaker, burnState
<1>6. CASE NextBlock
  BY <1>0, <1>6 DEF NextBlock, TypeOK, config, token, mintState, breaker, burnState
<1>7. CASE UNCHANGED vars
  BY <1>0, <1>7 DEF vars, TypeOK, config, token, mintState, breaker, burnState
<1> QED
  BY <1>1, <1>2, <1>3, <1>4, <1>5, <1>6, <1>7 DEF Next

\* Only addValidator and removeValidator touch the validators.
LEMMA ValidatorsStay ==
  ASSUME [Next]_vars, \A v \in Accounts : ~AddValidator(v) /\ ~RemoveValidator(v)
  PROVE  UNCHANGED <<validators, isValidator>>
  BY DEF Next, vars, config, MintPusd, BurnPusd, Transfer, BridgeAdmin, TokenAdmin, NextBlock,
         SetThreshold, SetVolumeCap, SetChainMintCap, SetPaused

\* Appending a validator adds it to those listed.
LEMMA ListedAfterAppend ==
  ASSUME NEW seq \in Seq(Accounts), NEW v \in Accounts
  PROVE  Range(Append(seq, v)) = Range(seq) \cup {v}
<1>1. /\ DOMAIN Append(seq, v) = DOMAIN seq \cup {Len(seq) + 1}
      /\ \A i \in DOMAIN seq : Append(seq, v)[i] = seq[i]
      /\ Append(seq, v)[Len(seq) + 1] = v
  BY AppendEntry
<1> QED
  BY <1>1 DEF Range

LEMMA NextFlagged == StateInv /\ [Next]_vars => FlaggedListed'
<1> SUFFICES ASSUME StateInv, [Next]_vars PROVE FlaggedListed'
  OBVIOUS
<1>0. validators \in Seq(Accounts) /\ isValidator \subseteq Range(validators)
  BY DEF StateInv, TypeOK, FlaggedListed
<1>1. CASE \E v \in Accounts : AddValidator(v)
  BY <1>0, <1>1, ListedAfterAppend DEF AddValidator, FlaggedListed
<1>2. CASE \E v \in Accounts : RemoveValidator(v)
  <2>1. PICK v \in Accounts : RemoveValidator(v)
    BY <1>2
  <2>2. v \in Range(validators)
    BY <1>0, <2>1 DEF RemoveValidator
  <2>3. Range(validators) \ {v} \subseteq Range(SwapAndPop(validators, v))
    BY <1>0, <2>2, SwapAndPopKeeps
  <2> QED
    BY <1>0, <2>1, <2>3 DEF RemoveValidator, FlaggedListed
<1>3. CASE \A v \in Accounts : ~AddValidator(v) /\ ~RemoveValidator(v)
  BY <1>0, <1>3, ValidatorsStay DEF FlaggedListed
<1> QED
  BY <1>1, <1>2, <1>3

\* Every record of the bridge and the token keeps its type, and an account whose
\* flag is set is in the array, even when the constructor was given one twice.
THEOREM TypeCorrect == Spec => []StateInv
<1>1. StateInv /\ [Next]_vars => StateInv'
  BY NextTypeOK, NextFlagged DEF StateInv
<1> QED
  BY <1>1, InitState, PTL DEF Spec

-----------------------------------------------------------------------------
(* The validators and the threshold.                                        *)

\* The constructor is given no address twice.
DistinctArrays == \A array \in InitialValidators : IsInjective(array)

\* The array lists each account with the flag once, and enough of them.
ListedOnce ==
  /\ IsInjective(validators)
  /\ Range(validators) = isValidator
  /\ threshold \in 1..Len(validators)

LEMMA InitListed ==
  ASSUME DistinctArrays
  PROVE  Init => ListedOnce
  BY ArcAssumption DEF Init, DistinctArrays, ListedOnce, ValidThreshold

LEMMA NextListed == StateInv /\ ListedOnce /\ [Next]_vars => ListedOnce'
<1> SUFFICES ASSUME StateInv, ListedOnce, [Next]_vars PROVE ListedOnce'
  OBVIOUS
<1>0. /\ validators \in Seq(Accounts) /\ Len(validators) \in Nat
      /\ IsInjective(validators) /\ Range(validators) = isValidator
      /\ threshold \in 1..Len(validators)
  BY DEF StateInv, TypeOK, ListedOnce
<1>1. CASE \E v \in Accounts : AddValidator(v)
  <2>1. PICK v \in Accounts : AddValidator(v)
    BY <1>1
  <2>2. \A k \in 1..Len(validators) : validators[k] # v
    BY <1>0, <2>1 DEF AddValidator, Range
  <2>3. IsInjective(Append(validators, v)) /\ Range(Append(validators, v)) = isValidator \cup {v}
    BY <1>0, <2>2, AppendDistinct, ListedAfterAppend
  <2> QED
    BY <1>0, <2>1, <2>3 DEF AddValidator, ListedOnce
<1>2. CASE \E v \in Accounts : RemoveValidator(v)
  <2>1. PICK v \in Accounts : RemoveValidator(v)
    BY <1>2
  <2>2. v \in Range(validators) /\ Len(validators) - 1 >= threshold
    BY <1>0, <2>1 DEF RemoveValidator, EnoughLeft
  <2>3. /\ IsInjective(SwapAndPop(validators, v))
        /\ Range(SwapAndPop(validators, v)) = isValidator \ {v}
        /\ Len(SwapAndPop(validators, v)) = Len(validators) - 1
    BY <1>0, <2>2, SwapAndPopKeeps
  <2> QED
    BY <1>0, <2>1, <2>2, <2>3 DEF RemoveValidator, ListedOnce
<1>3. CASE \E t \in 0..(Cardinality(Accounts) + 1) : SetThreshold(t)
  BY <1>0, <1>3 DEF SetThreshold, ValidThreshold, ListedOnce
<1>4. CASE UNCHANGED <<validators, isValidator, threshold>>
  BY <1>0, <1>4 DEF ListedOnce
<1> QED
  BY <1>1, <1>2, <1>3, <1>4
     DEF Next, vars, config, MintPusd, BurnPusd, Transfer, BridgeAdmin, TokenAdmin, NextBlock,
         SetVolumeCap, SetChainMintCap, SetPaused

LEMMA ListedAgree == StateInv /\ ListedOnce => ValidatorsAgree
<1> SUFFICES ASSUME StateInv, ListedOnce PROVE ValidatorsAgree
  OBVIOUS
<1>1. Cardinality(Range(validators)) = Len(validators)
  BY DistinctCount DEF StateInv, TypeOK, ListedOnce
<1> QED
  BY <1>1 DEF ValidatorsAgree, ListedOnce

-----------------------------------------------------------------------------
(* The numbers of the burns.                                                *)

LEMMA BurnsBeforeFinite ==
  ASSUME NEW k \in Nat, NEW c, NEW u
  PROVE  IsFiniteSet(BurnsBefore(k, c, u)) /\ Cardinality(BurnsBefore(k, c, u)) \in Nat
<1>1. IsFiniteSet(1..(k - 1))
  BY FS_Interval
<1>2. BurnsBefore(k, c, u) \subseteq 1..(k - 1)
  BY DEF BurnsBefore
<1> QED
  BY <1>1, <1>2, FS_Subset, FS_CardinalityType

LEMMA InitDense == Init => BurnNoncesDense
<1> SUFFICES ASSUME Init PROVE BurnNoncesDense
  OBVIOUS
<1>1. DOMAIN burns = {} /\ Len(burns) = 0
  BY DEF Init
<1>2. \A c \in Chains, u \in Users : nonces[c][u] = 0
  BY DEF Init
<1>3. \A c \in Chains, u \in Users : BurnsBefore(Len(burns) + 1, c, u) = {}
  BY <1>1 DEF BurnsBefore
<1>4. Cardinality({}) = 0
  BY FS_EmptySet
<1> QED
  BY <1>1, <1>2, <1>3, <1>4 DEF BurnNoncesDense

LEMMA BurnDense ==
  ASSUME TypeOK, BurnNoncesDense, NEW user \in Users, NEW chain \in Chains, NEW amount \in Amounts,
         BurnPusd(user, chain, amount)
  PROVE  BurnNoncesDense'
<1> DEFINE b == [chain |-> chain, from |-> user, amount |-> amount, nonce |-> nonces[chain][user]]
<1>1. burns' = Append(burns, b)
  BY DEF BurnPusd
<1>2. b.chain = chain /\ b.from = user /\ b.nonce = nonces[chain][user]
  OBVIOUS
<1> HIDE DEF b
<1>n. PICK n : n = Len(burns) + 1
  OBVIOUS
<1>3. /\ n \in Nat \ {0} /\ DOMAIN burns = 1..(n - 1)
      /\ DOMAIN burns' = 1..n /\ Len(burns') = n
      /\ \A i \in 1..(n - 1) : burns'[i] = burns[i]
      /\ burns'[n] = b
  BY <1>1, <1>n DEF TypeOK
<1>4. ASSUME NEW k \in 1..n, NEW c, NEW u
      PROVE  BurnsBefore(k, c, u)' = BurnsBefore(k, c, u)
  BY <1>3 DEF BurnsBefore
<1>5. ASSUME NEW c \in Chains, NEW u \in Users
      PROVE  nonces'[c][u] = Cardinality(BurnsBefore(n + 1, c, u)')
  <2>1. nonces[c][u] = Cardinality(BurnsBefore(n, c, u))
    BY <1>n DEF BurnNoncesDense
  <2>2. nonces' = [nonces EXCEPT ![chain][user] = @ + 1] /\ nonces \in [Chains -> [Users -> Nat]]
    BY DEF BurnPusd, NonceTaken, TypeOK
  <2>3. CASE c = chain /\ u = user
    <3>1. BurnsBefore(n + 1, c, u)' = BurnsBefore(n, c, u) \cup {n}
      <4>1. 1..(n + 1 - 1) = (1..(n - 1)) \cup {n}
        BY <1>3
      <4>2. burns'[n].chain = c /\ burns'[n].from = u
        BY <1>2, <1>3, <2>3
      <4> QED
        BY <1>3, <4>1, <4>2 DEF BurnsBefore
    <3>2. n \notin BurnsBefore(n, c, u)
      BY <1>3 DEF BurnsBefore
    <3>3. Cardinality(BurnsBefore(n, c, u) \cup {n}) = Cardinality(BurnsBefore(n, c, u)) + 1
      BY <1>3, <3>2, BurnsBeforeFinite, FS_AddElement
    <3>4. nonces'[c][u] = nonces[c][u] + 1
      BY <2>2, <2>3
    <3> QED
      BY <2>1, <3>1, <3>3, <3>4
  <2>4. CASE ~(c = chain /\ u = user)
    <3>1. BurnsBefore(n + 1, c, u)' = BurnsBefore(n, c, u)
      BY <1>2, <1>3, <2>4 DEF BurnsBefore
    <3>2. nonces'[c][u] = nonces[c][u]
      BY <2>2, <2>4
    <3> QED
      BY <2>1, <3>1, <3>2
  <2> QED
    BY <2>3, <2>4
<1>6. ASSUME NEW k \in 1..n
      PROVE  burns'[k].nonce = Cardinality(BurnsBefore(k, burns[k].chain, burns[k].from))'
  <2> DEFINE c == burns'[k].chain
             u == burns'[k].from
  <2>0. BurnsBefore(k, burns[k].chain, burns[k].from)' = BurnsBefore(k, c, u)
    BY <1>4
  <2> HIDE DEF c, u
  <2>1. CASE k = n
    <3>1. c = chain /\ u = user /\ burns'[k].nonce = nonces[chain][user]
      BY <1>2, <1>3, <2>1 DEF c, u
    <3> QED
      BY <1>n, <2>0, <2>1, <3>1 DEF BurnNoncesDense
  <2>2. CASE k # n
    <3>1. k \in DOMAIN burns /\ c = burns[k].chain /\ u = burns[k].from
      BY <1>3, <2>2 DEF c, u
    <3>2. burns'[k].nonce = burns[k].nonce
      BY <1>3, <3>1
    <3> QED
      BY <2>0, <3>1, <3>2 DEF BurnNoncesDense
  <2> QED
    BY <2>1, <2>2
<1> QED
  BY <1>3, <1>5, <1>6 DEF BurnNoncesDense

LEMMA NextDense == StateInv /\ BurnNoncesDense /\ [Next]_vars => BurnNoncesDense'
<1> SUFFICES ASSUME StateInv, BurnNoncesDense, [Next]_vars PROVE BurnNoncesDense'
  OBVIOUS
<1>1. CASE \E user \in Users, chain \in Chains, amount \in Amounts : BurnPusd(user, chain, amount)
  BY <1>1, BurnDense DEF StateInv
<1>2. CASE UNCHANGED burnState
  BY <1>2 DEF burnState, BurnNoncesDense, BurnsBefore
<1> QED
  BY <1>1, <1>2
     DEF Next, vars, MintPusd, Transfer, BridgeAdmin, TokenAdmin, NextBlock, burnState

\* The burns of a holder to a chain are numbered 0, 1, 2 and so on, whatever is
\* paused, minted or transferred between them.
THEOREM BurnsAlwaysNumbered == Spec => []BurnNoncesDense
  BY InitDense, NextDense, TypeCorrect, PTL DEF Spec

\* The bridge's records stay coherent through any order of addValidator,
\* removeValidator, setThreshold and burnPusd.
THEOREM RecordsStayCoherent ==
  ASSUME DistinctArrays
  PROVE  Spec => []ArcInv
<1>1. StateInv /\ ListedOnce /\ BurnNoncesDense => ArcInv
  BY ListedAgree DEF StateInv, ArcInv
<1> QED
  BY <1>1, InitListed, NextListed, TypeCorrect, BurnsAlwaysNumbered, PTL DEF Spec

-----------------------------------------------------------------------------
(* The books.                                                               *)

LEMMA EventAmounts ==
  ASSUME TypeOK
  PROVE  /\ \A i \in DOMAIN mints : AmountMinted[i] \in Int
         /\ \A i \in DOMAIN burns : AmountBurned[i] \in Int
<1>1. \A i \in DOMAIN mints : mints[i] \in Mint
  BY DEF TypeOK
<1>2. \A i \in DOMAIN burns : burns[i] \in Burn
  BY DEF TypeOK
<1> QED
  BY <1>1, <1>2 DEF AmountMinted, AmountBurned, Mint, Burn, BridgeHash

\* A mint is recorded with its bridge hash and the window it counts in.
LEMMA MintEntry ==
  ASSUME TypeOK, NEW hash \in BridgeHashes, NEW signatures \in SignatureLists,
         MintPusd(hash, signatures)
  PROVE  \E m \in Mint : /\ mints' = Append(mints, m)
                         /\ m.hash = hash /\ m.signatures = signatures
                         /\ m.window = windowStart'
<1> DEFINE m == [hash |-> hash, signatures |-> signatures, window |-> windowStart']
<1>1. hash \in BridgeHash /\ signatures \in Seq(Accounts) /\ windowStart' \in Nat
  BY HashType, MintTypeOK, ArcAssumption DEF TypeOK
<1>2. m \in Mint
  BY <1>1 DEF Mint
<1>3. mints' = Append(mints, m)
  BY DEF MintPusd
<1>4. m.hash = hash /\ m.signatures = signatures /\ m.window = windowStart'
  OBVIOUS
<1> HIDE DEF m
<1> QED
  BY <1>2, <1>3, <1>4

\* The sums over the mints that take the new one in grow by its amount.
LEMMA MintSums ==
  ASSUME TypeOK, NEW m \in Mint, mints' = Append(mints, m), NEW n, n = Len(mints) + 1
  PROVE  /\ DOMAIN mints' = DOMAIN mints \cup {n} /\ n \notin DOMAIN mints
         /\ Len(mints') = n /\ Len(mints) \in Nat
         /\ \A i \in DOMAIN mints : mints'[i] = mints[i]
         /\ mints'[n] = m
         /\ \A S \in SUBSET DOMAIN mints :
              /\ SumOver(AmountMinted, S) \in Int
              /\ SumOver(AmountMinted', S) = SumOver(AmountMinted, S)
              /\ SumOver(AmountMinted', S \cup {n}) = SumOver(AmountMinted, S) + m.hash.amount
<1>1. PICK f, g : f = AmountMinted /\ g = AmountMinted'
  OBVIOUS
<1>2. mints \in Seq(Mint) /\ m.hash.amount \in Int
  BY DEF TypeOK, Mint, BridgeHash
<1>3. /\ DOMAIN mints' = DOMAIN mints \cup {n} /\ n \notin DOMAIN mints
      /\ Len(mints') = n /\ Len(mints) \in Nat
      /\ \A i \in DOMAIN mints : mints'[i] = mints[i]
      /\ mints'[n] = m
  BY <1>2, AppendEntry
<1>4. /\ \A i \in DOMAIN mints : f[i] \in Int /\ g[i] = f[i]
      /\ g[n] = m.hash.amount
  BY <1>1, <1>3, EventAmounts DEF AmountMinted
<1>5. ASSUME NEW S \in SUBSET DOMAIN mints
      PROVE  /\ SumOver(f, S) \in Int
             /\ SumOver(g, S) = SumOver(f, S)
             /\ SumOver(g, S \cup {n}) = SumOver(f, S) + m.hash.amount
  <2>1. mints \in Seq(Mint) /\ g[Len(mints) + 1] \in Int
    BY <1>2, <1>4
  <2>2. \A i \in DOMAIN mints : f[i] \in Int /\ g[i] = f[i]
    BY <1>4
  <2>3. SumOver(g, S \cup {Len(mints) + 1}) = SumOver(f, S) + g[Len(mints) + 1]
    BY <2>1, <2>2, SumAppend
  <2>4. IsFiniteSet(S) /\ \A i \in S : f[i] \in Int /\ g[i] = f[i]
    BY <1>2, <1>4, AppendEntry, FS_Subset
  <2>5. SumOver(f, S) \in Int
    BY <2>4, SumType
  <2>6. SumOver(g, S) = SumOver(f, S)
    BY <2>4, SumSame
  <2> QED
    BY <1>4, <2>3, <2>5, <2>6
<1> QED
  BY <1>1, <1>3, <1>5

\* A burn is recorded with its chain and its amount.
LEMMA BurnEntry ==
  ASSUME TypeOK, NEW user \in Users, NEW chain \in Chains, NEW amount \in Amounts,
         BurnPusd(user, chain, amount)
  PROVE  \E b \in Burn : burns' = Append(burns, b) /\ b.chain = chain /\ b.amount = amount
<1> DEFINE b == [chain |-> chain, from |-> user, amount |-> amount, nonce |-> nonces[chain][user]]
<1>1. amount \in Nat \ {0} /\ nonces[chain][user] \in Nat
  BY ArcAssumption DEF BurnPusd, TypeOK
<1>2. b \in Burn
  BY <1>1 DEF Burn
<1>3. burns' = Append(burns, b)
  BY DEF BurnPusd
<1>4. b.chain = chain /\ b.amount = amount
  OBVIOUS
<1> HIDE DEF b
<1> QED
  BY <1>2, <1>3, <1>4

\* The sums over the burns that take the new one in grow by its amount.
LEMMA BurnSums ==
  ASSUME TypeOK, NEW b \in Burn, burns' = Append(burns, b), NEW n, n = Len(burns) + 1
  PROVE  /\ DOMAIN burns' = DOMAIN burns \cup {n} /\ n \notin DOMAIN burns
         /\ \A i \in DOMAIN burns : burns'[i] = burns[i]
         /\ burns'[n] = b
         /\ \A S \in SUBSET DOMAIN burns :
              /\ SumOver(AmountBurned, S) \in Int
              /\ SumOver(AmountBurned', S) = SumOver(AmountBurned, S)
              /\ SumOver(AmountBurned', S \cup {n}) = SumOver(AmountBurned, S) + b.amount
<1> DEFINE amount == b.amount
<1>0. PICK f, g : f = AmountBurned /\ g = AmountBurned'
  OBVIOUS
<1>1. amount \in Int
  BY DEF Burn
<1>2. burns \in Seq(Burn)
  BY DEF TypeOK
<1>4. /\ DOMAIN burns' = DOMAIN burns \cup {n} /\ n \notin DOMAIN burns
      /\ \A i \in DOMAIN burns : burns'[i] = burns[i]
      /\ burns'[n] = b
  BY <1>2, AppendEntry
<1>5. /\ \A i \in DOMAIN burns : f[i] \in Int /\ g[i] = f[i]
      /\ g[n] = amount
  BY <1>0, <1>1, <1>4, EventAmounts DEF AmountBurned
<1>6. ASSUME NEW S \in SUBSET DOMAIN burns
      PROVE  /\ SumOver(f, S) \in Int
             /\ SumOver(g, S) = SumOver(f, S)
             /\ SumOver(g, S \cup {n}) = SumOver(f, S) + amount
  <2>1. burns \in Seq(Burn) /\ g[Len(burns) + 1] \in Int
    BY <1>1, <1>2, <1>5
  <2>2. \A i \in DOMAIN burns : f[i] \in Int /\ g[i] = f[i]
    BY <1>5
  <2>3. SumOver(g, S \cup {Len(burns) + 1}) = SumOver(f, S) + g[Len(burns) + 1]
    BY <2>1, <2>2, SumAppend
  <2>4. IsFiniteSet(S) /\ \A i \in S : f[i] \in Int /\ g[i] = f[i]
    BY <1>2, <1>5, AppendEntry, FS_Subset
  <2>5. SumOver(f, S) \in Int
    BY <2>4, SumType
  <2>6. SumOver(g, S) = SumOver(f, S)
    BY <2>4, SumSame
  <2> QED
    BY <1>5, <2>3, <2>5, <2>6
<1> QED
  BY <1>0, <1>1, <1>4, <1>6

\* Crediting or debiting one holder moves the supply by the amount.
LEMMA SupplyMoves ==
  ASSUME NEW before \in [Users -> Nat], NEW u \in Users, NEW amount \in Int,
         NEW after, after = [before EXCEPT ![u] = @ + amount]
  PROVE  Total(before) \in Int /\ Total(after) = Total(before) + amount
<1>1. DOMAIN before = Users /\ DOMAIN after = Users
  OBVIOUS
<1>2. /\ \A x \in Users : before[x] \in Int /\ after[x] \in Int
      /\ \A x \in Users \ {u} : after[x] = before[x]
      /\ after[u] = before[u] + amount
  OBVIOUS
<1>3. IsFiniteSet(Users)
  BY ArcAssumption
<1>4. SumOver(before, Users) \in Int
  BY <1>2, <1>3, SumType
<1>5. SumOver(after, Users) = SumOver(before, Users) + after[u] - before[u]
  <2>1. PICK f, g, S : f = before /\ g = after /\ S = Users
    OBVIOUS
  <2>2. IsFiniteSet(S) /\ u \in S /\ \A x \in S : f[x] \in Int /\ g[x] \in Int
    BY <1>2, <1>3, <2>1
  <2>3. \A x \in S \ {u} : g[x] = f[x]
    BY <1>2, <2>1
  <2>4. SumOver(g, S) = SumOver(f, S) + g[u] - f[u]
    BY ONLY <2>2, <2>3, SumChange
  <2> QED
    BY <2>1, <2>4
<1>6. before[u] \in Int
  BY <1>2
<1> QED
  BY <1>1, <1>2, <1>4, <1>5, <1>6 DEF Total

MintsOf(c) == {i \in DOMAIN mints : mints[i].hash.chain = c}
BurnsOf(c) == {i \in DOMAIN burns : burns[i].chain = c}

LEMMA InitBooks == Init => BooksBalance
<1> SUFFICES ASSUME Init PROVE BooksBalance
  OBVIOUS
<1>1. /\ DOMAIN mints = {} /\ DOMAIN burns = {} /\ Len(mints) = 0
      /\ DOMAIN AmountMinted = {} /\ DOMAIN AmountBurned = {}
  BY DEF Init, AmountMinted, AmountBurned
<1>2. SumOver(AmountMinted, {}) = 0
  BY SumEmpty
<1>3. SumOver(AmountBurned, {}) = 0
  BY SumEmpty
<1>4. totalSupply = 0 /\ MaxSupply \in Nat
  <2>1. DOMAIN balance = Users /\ \A u \in Users : balance[u] = 0
    BY DEF Init
  <2>2. SumOver(balance, Users) = 0
    BY <2>1, ArcAssumption, SumZero
  <2> QED
    BY <2>1, <2>2, ArcAssumption DEF totalSupply, Total
<1>5. Cardinality(processedHashes) = 0
  BY FS_EmptySet DEF Init
<1>6. \A c \in Chains : MintsOf(c) = {} /\ BurnsOf(c) = {}
  BY <1>1 DEF MintsOf, BurnsOf
<1>7. \A c \in Chains : totalMinted[c] = 0 /\ totalBurned[c] = 0
  BY DEF Init
<1>8. Total(AmountMinted) = 0 /\ Total(AmountBurned) = 0
  BY <1>1, <1>2, <1>3 DEF Total
<1>9. processedHashes = {mints[i].hash : i \in DOMAIN mints}
  BY <1>1 DEF Init
<1> QED
  BY <1>1, <1>2, <1>3, <1>4, <1>5, <1>6, <1>7, <1>8, <1>9 DEF BooksBalance, MintsOf, BurnsOf
LEMMA MintBooks ==
  ASSUME TypeOK, BooksBalance, NEW hash \in BridgeHashes, NEW signatures \in SignatureLists,
         MintPusd(hash, signatures)
  PROVE  BooksBalance'
<1>m. PICK m \in Mint : mints' = Append(mints, m) /\ m.hash = hash
  BY MintEntry
<1>n. PICK n : n = Len(mints) + 1
  OBVIOUS
<1> DEFINE amount == hash.amount
<1>1. /\ DOMAIN mints' = DOMAIN mints \cup {n} /\ n \notin DOMAIN mints
      /\ Len(mints') = n /\ Len(mints) \in Nat
      /\ \A i \in DOMAIN mints : mints'[i] = mints[i]
      /\ mints'[n].hash = hash
  BY <1>m, <1>n, MintSums
<1>2. \A S \in SUBSET DOMAIN mints :
        /\ SumOver(AmountMinted, S) \in Int
        /\ SumOver(AmountMinted', S) = SumOver(AmountMinted, S)
        /\ SumOver(AmountMinted', S \cup {n}) = SumOver(AmountMinted, S) + amount
  BY <1>m, <1>n, MintSums
<1>3. amount \in Int /\ hash.chain \in Chains /\ hash.to \in Users
  BY HashType
<1>4. AmountBurned' = AmountBurned /\ UNCHANGED burnState
  BY DEF AmountBurned, MintPusd, burnState
<1>5. /\ processedHashes = {mints[i].hash : i \in DOMAIN mints}
      /\ processedHashes' = processedHashes \cup {hash} /\ hash \notin processedHashes
      /\ Cardinality(processedHashes) = Len(mints)
  BY DEF BooksBalance, MintPusd, NotProcessed
<1>6. processedHashes' = {mints'[i].hash : i \in DOMAIN mints'}
  BY <1>1, <1>5
<1>7. Cardinality(processedHashes') = Len(mints')
  <2>1. IsFiniteSet(DOMAIN mints)
    BY <1>m, AppendEntry DEF TypeOK
  <2>2. IsFiniteSet(processedHashes)
    <3> DEFINE f == [i \in DOMAIN mints |-> mints[i].hash]
    <3>1. f \in Surjection(DOMAIN mints, processedHashes)
      BY <1>5 DEF Surjection
    <3> QED
      BY <2>1, <3>1, FS_Surjection
  <2>3. Cardinality(processedHashes \cup {hash}) = Cardinality(processedHashes) + 1
    BY <1>5, <2>2, FS_AddElement
  <2> QED
    BY <1>n, <1>1, <1>5, <2>3
<1> HIDE DEF amount
<1>8. ASSUME NEW c \in Chains
      PROVE  totalMinted'[c] = SumOver(AmountMinted', MintsOf(c)')
  <2>1. MintsOf(c) \in SUBSET DOMAIN mints /\ totalMinted[c] = SumOver(AmountMinted, MintsOf(c))
    BY DEF MintsOf, BooksBalance
  <2>2. totalMinted' = [totalMinted EXCEPT ![hash.chain] = @ + amount] /\ DOMAIN totalMinted = Chains
    BY DEF MintPusd, Credited, TypeOK, amount
  <2>3. CASE c = hash.chain
    <3>1. MintsOf(c)' = MintsOf(c) \cup {n}
      BY <1>1, <2>3 DEF MintsOf
    <3> QED
      BY <1>2, <2>1, <2>2, <2>3, <3>1
  <2>4. CASE c # hash.chain
    <3>1. MintsOf(c)' = MintsOf(c)
      BY <1>1, <2>4 DEF MintsOf
    <3> QED
      BY <1>2, <2>1, <2>2, <2>4, <3>1
  <2> QED
    BY <2>3, <2>4
<1>9. totalSupply \in Int /\ totalSupply' = totalSupply + amount
  <2>1. balance' = [balance EXCEPT ![hash.to] = @ + amount] /\ balance \in [Users -> Nat]
    BY DEF MintPusd, TokenMint, TypeOK, amount
  <2> QED
    BY <1>3, <2>1, SupplyMoves DEF totalSupply
<1>10. Total(AmountMinted)' = Total(AmountMinted) + amount /\ Total(AmountMinted) \in Int
  <2>1. Total(AmountMinted) = SumOver(AmountMinted, DOMAIN mints)
    BY DEF Total, AmountMinted
  <2>2. Total(AmountMinted)' = SumOver(AmountMinted', DOMAIN mints \cup {n})
    BY <1>1 DEF Total, AmountMinted
  <2> QED
    BY <1>2, <2>1, <2>2
<1>11. Total(AmountBurned)' = Total(AmountBurned) /\ Total(AmountBurned) \in Int
  <2>1. IsFiniteSet(DOMAIN burns) /\ DOMAIN AmountBurned = DOMAIN burns
    <3>1. DOMAIN burns = 1..Len(burns) /\ Len(burns) \in Nat
      BY DEF TypeOK
    <3>2. IsFiniteSet(1..Len(burns))
      BY <3>1, FS_Interval
    <3> QED
      BY <3>1, <3>2 DEF AmountBurned
  <2>2. \A i \in DOMAIN burns : AmountBurned[i] \in Int
    BY EventAmounts
  <2>3. SumOver(AmountBurned, DOMAIN burns) \in Int
    BY <2>1, <2>2, SumType
  <2> QED
    BY <1>4, <2>1, <2>3 DEF Total
<1>12. totalSupply' = Total(AmountMinted)' - Total(AmountBurned)'
  <2>1. totalSupply = Total(AmountMinted) - Total(AmountBurned)
    BY DEF BooksBalance
  <2> QED
    BY <1>3, <1>9, <1>10, <1>11, <2>1
<1>13. totalSupply' <= MaxSupply
  <2>1. totalSupply + amount <= MaxSupply
    BY DEF MintPusd, TokenMint, UnderCap, amount
  <2> QED
    BY <1>9, <2>1
<1>14. \A c \in Chains : totalBurned'[c] = SumOver(AmountBurned', BurnsOf(c)')
  BY <1>4 DEF BooksBalance, BurnsOf, burnState
<1> QED
  BY <1>6, <1>7, <1>8, <1>12, <1>13, <1>14 DEF BooksBalance, MintsOf, BurnsOf

LEMMA BurnBooks ==
  ASSUME TypeOK, BooksBalance, NEW user \in Users, NEW chain \in Chains, NEW amount \in Amounts,
         BurnPusd(user, chain, amount)
  PROVE  BooksBalance'
<1>b. PICK b \in Burn : burns' = Append(burns, b) /\ b.chain = chain /\ b.amount = amount
  BY BurnEntry
<1>n. PICK n : n = Len(burns) + 1
  OBVIOUS
<1>1. /\ DOMAIN burns' = DOMAIN burns \cup {n} /\ n \notin DOMAIN burns
      /\ \A i \in DOMAIN burns : burns'[i] = burns[i]
      /\ burns'[n].chain = chain
  BY <1>b, <1>n, BurnSums
<1>2. \A S \in SUBSET DOMAIN burns :
        /\ SumOver(AmountBurned, S) \in Int
        /\ SumOver(AmountBurned', S) = SumOver(AmountBurned, S)
        /\ SumOver(AmountBurned', S \cup {n}) = SumOver(AmountBurned, S) + amount
  BY <1>b, <1>n, BurnSums
<1>3. amount \in Nat
  BY ArcAssumption
<1>4. AmountMinted' = AmountMinted /\ UNCHANGED mintState
  BY DEF AmountMinted, BurnPusd, mintState
<1>5. ASSUME NEW c \in Chains
      PROVE  totalBurned'[c] = SumOver(AmountBurned', BurnsOf(c)')
  <2>1. BurnsOf(c) \in SUBSET DOMAIN burns /\ totalBurned[c] = SumOver(AmountBurned, BurnsOf(c))
    BY DEF BurnsOf, BooksBalance
  <2>2. totalBurned' = [totalBurned EXCEPT ![chain] = @ + amount] /\ DOMAIN totalBurned = Chains
    BY DEF BurnPusd, Credited, TypeOK
  <2>3. CASE c = chain
    <3>1. BurnsOf(c)' = BurnsOf(c) \cup {n}
      BY <1>1, <2>3 DEF BurnsOf
    <3> QED
      BY <1>2, <2>1, <2>2, <2>3, <3>1
  <2>4. CASE c # chain
    <3>1. BurnsOf(c)' = BurnsOf(c)
      BY <1>1, <2>4 DEF BurnsOf
    <3> QED
      BY <1>2, <2>1, <2>2, <2>4, <3>1
  <2> QED
    BY <2>3, <2>4
<1>6. totalSupply \in Int /\ totalSupply' = totalSupply - amount
  <2> DEFINE minus == -amount
  <2>0. balance[user] - amount = balance[user] + minus /\ minus \in Int
    BY <1>3 DEF TypeOK
  <2> HIDE DEF minus
  <2>1. balance' = [balance EXCEPT ![user] = @ + minus] /\ balance \in [Users -> Nat]
    BY <2>0 DEF BurnPusd, TokenBurn, TypeOK
  <2>2. totalSupply \in Int /\ totalSupply' = totalSupply + minus
    BY <2>0, <2>1, SupplyMoves DEF totalSupply
  <2> QED
    BY <1>3, <2>2 DEF minus
<1>7. Total(AmountBurned)' = Total(AmountBurned) + amount /\ Total(AmountBurned) \in Int
  <2>1. Total(AmountBurned) = SumOver(AmountBurned, DOMAIN burns)
    BY DEF Total, AmountBurned
  <2>2. Total(AmountBurned)' = SumOver(AmountBurned', DOMAIN burns \cup {n})
    BY <1>1 DEF Total, AmountBurned
  <2> QED
    BY <1>2, <2>1, <2>2
<1>8. Total(AmountMinted)' = Total(AmountMinted) /\ Total(AmountMinted) \in Int
  <2>1. IsFiniteSet(DOMAIN mints) /\ DOMAIN AmountMinted = DOMAIN mints
    <3>1. DOMAIN mints = 1..Len(mints) /\ Len(mints) \in Nat
      BY DEF TypeOK
    <3>2. IsFiniteSet(1..Len(mints))
      BY <3>1, FS_Interval
    <3> QED
      BY <3>1, <3>2 DEF AmountMinted
  <2>2. \A i \in DOMAIN mints : AmountMinted[i] \in Int
    BY EventAmounts
  <2>3. SumOver(AmountMinted, DOMAIN mints) \in Int
    BY <2>1, <2>2, SumType
  <2> QED
    BY <1>4, <2>1, <2>3 DEF Total
<1>9. totalSupply' = Total(AmountMinted)' - Total(AmountBurned)' /\ totalSupply' <= MaxSupply
  <2>1. totalSupply = Total(AmountMinted) - Total(AmountBurned) /\ totalSupply <= MaxSupply
    BY DEF BooksBalance
  <2>2. MaxSupply \in Nat
    BY ArcAssumption
  <2> QED
    BY <1>3, <1>6, <1>7, <1>8, <2>1, <2>2
<1>10. /\ processedHashes' = {mints'[i].hash : i \in DOMAIN mints'}
       /\ Cardinality(processedHashes') = Len(mints')
       /\ \A c \in Chains : totalMinted'[c] = SumOver(AmountMinted', MintsOf(c)')
  BY <1>4 DEF BooksBalance, MintsOf, mintState
<1> QED
  BY <1>5, <1>9, <1>10 DEF BooksBalance, MintsOf, BurnsOf

\* What one holder pays another receives, so the supply stays.
LEMMA TransferSupply ==
  ASSUME TypeOK, NEW from \in Users, NEW to \in Users, NEW amount \in Amounts,
         Transfer(from, to, amount)
  PROVE  totalSupply' = totalSupply
<1>1. amount \in Int /\ amount <= balance[from] /\ from # to /\ balance \in [Users -> Nat]
  BY ArcAssumption DEF Transfer, TypeOK
<1> DEFINE minus == -amount
           paid == [balance EXCEPT ![from] = @ + minus]
<1>2. minus \in Int /\ paid \in [Users -> Nat]
  BY <1>1, ArcAssumption
<1>3. balance' = [paid EXCEPT ![to] = @ + amount]
  BY <1>1 DEF Transfer, TypeOK
<1>4. Total(balance) \in Int /\ Total(paid) = Total(balance) + minus
  <2>1. PICK p, q : p = minus /\ q = paid
    OBVIOUS
  <2>2. p \in Int /\ q = [balance EXCEPT ![from] = @ + p]
    BY <1>2, <2>1
  <2>3. Total(balance) \in Int /\ Total(q) = Total(balance) + p
    BY <1>1, <2>2, SupplyMoves
  <2> QED
    BY <2>1, <2>3
<1> HIDE DEF paid
<1>5. Total(balance') = Total(paid) + amount
  <2>1. PICK p, q : p = paid /\ q = balance'
    OBVIOUS
  <2>2. p \in [Users -> Nat] /\ q = [p EXCEPT ![to] = @ + amount]
    BY <1>2, <1>3, <2>1
  <2>3. Total(q) = Total(p) + amount
    BY <1>1, <2>2, SupplyMoves
  <2> QED
    BY <2>1, <2>3
<1> QED
  BY <1>1, <1>4, <1>5 DEF totalSupply

LEMMA NextBooks == StateInv /\ BooksBalance /\ [Next]_vars => BooksBalance'
<1> SUFFICES ASSUME StateInv, BooksBalance, [Next]_vars PROVE BooksBalance'
  OBVIOUS
<1>0. TypeOK
  BY DEF StateInv
<1>1. CASE \E hash \in BridgeHashes, signatures \in SignatureLists : MintPusd(hash, signatures)
  BY <1>0, <1>1, MintBooks
<1>2. CASE \E user \in Users, chain \in Chains, amount \in Amounts : BurnPusd(user, chain, amount)
  BY <1>0, <1>2, BurnBooks
<1>3. CASE UNCHANGED <<mintState, burnState>> /\ totalSupply' = totalSupply
  BY <1>3 DEF BooksBalance, AmountMinted, AmountBurned, Total, mintState, burnState
<1>4. CASE \E from, to \in Users, amount \in Amounts : Transfer(from, to, amount)
  BY <1>0, <1>3, <1>4, TransferSupply DEF Transfer
<1>5. CASE UNCHANGED <<mintState, burnState, balance>>
  BY <1>3, <1>5 DEF totalSupply
<1> QED
  BY <1>1, <1>2, <1>4, <1>5 DEF Next, BridgeAdmin, TokenAdmin, NextBlock, vars

\* Each bridge hash is minted once, the totals per chain are those of the events,
\* and the token's supply is what was minted and not burned and within MAX_SUPPLY.
THEOREM BooksAlwaysBalance == Spec => []BooksBalance
  BY InitBooks, NextBooks, TypeCorrect, PTL DEF Spec

-----------------------------------------------------------------------------
(* What a mint may do.                                                      *)

\* setVolumeCap is given a window of some length.
WindowsHaveLength == 0 \notin Windows

InWindow(start) == {i \in DOMAIN mints : mints[i].window = start}

\* The breaker's counter is what was minted in the window that is open, and no
\* mint was made in a later one.
VolumeInv ==
  /\ windowStart <= now
  /\ \A i \in DOMAIN mints : mints[i].window <= windowStart
  /\ windowVolume = SumOver(AmountMinted, InWindow(windowStart))

LEMMA InitVolume == Init => VolumeInv
<1> SUFFICES ASSUME Init PROVE VolumeInv
  OBVIOUS
<1>1. DOMAIN mints = {} /\ windowStart = 0 /\ now = 0 /\ windowVolume = 0
  BY DEF Init
<1>2. SumOver(AmountMinted, {}) = 0
  BY SumEmpty
<1>3. InWindow(windowStart) = {}
  BY <1>1 DEF InWindow
<1>4. \A i \in DOMAIN mints : mints[i].window <= windowStart
  BY <1>1
<1>5. windowVolume = SumOver(AmountMinted, InWindow(windowStart))
  BY <1>1, <1>2, <1>3
<1> QED
  BY <1>1, <1>4, <1>5 DEF VolumeInv

LEMMA MintVolume ==
  ASSUME WindowsHaveLength, TypeOK, VolumeInv,
         NEW hash \in BridgeHashes, NEW signatures \in SignatureLists, MintPusd(hash, signatures)
  PROVE  VolumeInv'
<1>m. PICK m \in Mint : mints' = Append(mints, m) /\ m.hash = hash /\ m.window = windowStart'
  BY MintEntry
<1>n. PICK n : n = Len(mints) + 1
  OBVIOUS
<1> DEFINE amount == hash.amount
<1>1. /\ DOMAIN mints' = DOMAIN mints \cup {n} /\ n \notin DOMAIN mints
      /\ \A i \in DOMAIN mints : mints'[i] = mints[i]
      /\ mints'[n] = m
  BY <1>m, <1>n, MintSums
<1>2. \A S \in SUBSET DOMAIN mints :
        /\ SumOver(AmountMinted, S) \in Int
        /\ SumOver(AmountMinted', S \cup {n}) = SumOver(AmountMinted, S) + amount
  BY <1>m, <1>n, MintSums
<1>3. /\ windowVolume \in Nat /\ windowStart \in Nat /\ now \in Nat /\ amount \in Int
      /\ volumeWindow \in Nat \ {0} /\ now' = now
  BY ArcAssumption, HashType DEF TypeOK, WindowsHaveLength, MintPusd
<1>4. \A i \in DOMAIN mints : mints[i].window \in Nat
  <2>1. \A i \in DOMAIN mints : mints[i] \in Mint
    BY DEF TypeOK
  <2> QED
    BY <2>1 DEF Mint
<1> DEFINE open == InWindow(windowStart)
<1>5. open \in SUBSET DOMAIN mints
  BY DEF InWindow
<1>6. CountVolume(amount)
  BY DEF MintPusd
<1> HIDE DEF amount
<1>7. CASE ~WindowOver
  <2>1. windowStart' = windowStart /\ windowVolume' = windowVolume + amount
    BY <1>3, <1>6, <1>7 DEF CountVolume, OpenVolume
  <2>2. InWindow(windowStart)' = open \cup {n}
    BY <1>m, <1>1, <2>1 DEF InWindow
  <2>3. \A i \in DOMAIN mints' : mints'[i].window <= windowStart'
    BY <1>m, <1>1, <1>3, <2>1 DEF VolumeInv
  <2> HIDE DEF open
  <2>4. SumOver(AmountMinted', InWindow(windowStart)') = SumOver(AmountMinted, open) + amount
    BY <1>2, <1>5, <2>2
  <2> QED
    BY <1>3, <2>1, <2>3, <2>4 DEF VolumeInv, open
<1>8. CASE WindowOver
  <2>1. windowStart' = now /\ windowVolume' = amount
    BY <1>3, <1>6, <1>8 DEF CountVolume, OpenVolume
  <2>2. windowStart < now
    BY <1>3, <1>8 DEF WindowOver
  <2>3. \A i \in DOMAIN mints : mints[i].window < now
    BY <1>3, <1>4, <2>2 DEF VolumeInv
  <2> DEFINE none == {}
  <2>4. InWindow(windowStart)' = none \cup {n}
    BY <1>m, <1>1, <1>3, <1>4, <2>1, <2>3 DEF InWindow
  <2>5. none \in SUBSET DOMAIN mints
    OBVIOUS
  <2>6. SumOver(AmountMinted, none) = 0
    BY SumEmpty
  <2> HIDE DEF none
  <2>7. SumOver(AmountMinted', InWindow(windowStart)') = SumOver(AmountMinted, none) + amount
    BY <1>2, <2>4, <2>5
  <2>8. \A i \in DOMAIN mints' : mints'[i].window <= windowStart'
    BY <1>m, <1>1, <1>3, <1>4, <2>1, <2>3
  <2> QED
    BY <1>3, <2>1, <2>6, <2>7, <2>8 DEF VolumeInv
<1> QED
  BY <1>7, <1>8

LEMMA NextVolume ==
  ASSUME WindowsHaveLength
  PROVE  StateInv /\ VolumeInv /\ [Next]_vars => VolumeInv'
<1> SUFFICES ASSUME StateInv, VolumeInv, [Next]_vars PROVE VolumeInv'
  OBVIOUS
<1>0. TypeOK
  BY DEF StateInv
<1>1. CASE \E hash \in BridgeHashes, signatures \in SignatureLists : MintPusd(hash, signatures)
  BY <1>0, <1>1, MintVolume
<1>2. CASE UNCHANGED mintState /\ now' \in {now, now + 1}
  BY <1>0, <1>2 DEF VolumeInv, AmountMinted, InWindow, breaker, mintState, TypeOK
<1> QED
  BY <1>1, <1>2 DEF Next, BurnPusd, Transfer, BridgeAdmin, TokenAdmin, NextBlock, vars

\* What a mintPusd that succeeds has checked and keeps true.
MintSignedAndCapped ==
  LET signatures == Last(mints').signatures IN
  /\ Len(signatures) >= threshold
  /\ \A i \in DOMAIN signatures : \E j \in DOMAIN validators : validators[j] = signatures[i]
  /\ volumeCap > 0 => MintedIn(windowStart)' <= volumeCap

LEMMA MintStep ==
  ASSUME StateInv, VolumeInv', NEW hash \in BridgeHashes, NEW signatures \in SignatureLists,
         MintPusd(hash, signatures)
  PROVE  MintSignedAndCapped
<1>0. TypeOK /\ FlaggedListed
  BY DEF StateInv
<1>1. PICK m \in Mint : mints' = Append(mints, m) /\ m.signatures = signatures
  BY <1>0, MintEntry
<1>2. Last(mints').signatures = signatures
  <2>1. mints \in Seq(Mint)
    BY <1>0 DEF TypeOK
  <2> QED
    BY <1>1, <2>1 DEF Last
<1>3. Len(signatures) >= threshold /\ Range(signatures) \subseteq Range(validators)
  BY <1>0 DEF MintPusd, Signed, FlaggedListed
<1>4. \A i \in DOMAIN signatures : \E j \in DOMAIN validators : validators[j] = signatures[i]
  BY <1>3 DEF Range
<1>5. volumeCap > 0 => windowVolume' <= volumeCap
  BY DEF MintPusd, WithinVolumeCap, CountVolume
<1>6. windowVolume' = MintedIn(windowStart)'
  BY DEF VolumeInv, MintedIn, InWindow
<1> QED
  BY <1>2, <1>3, <1>4, <1>5, <1>6 DEF MintSignedAndCapped

LEMMA NextMint ==
  StateInv /\ VolumeInv' /\ [Next]_vars => [mints' # mints => MintSignedAndCapped]_vars
<1> SUFFICES ASSUME StateInv, VolumeInv', Next, mints' # mints PROVE MintSignedAndCapped
  OBVIOUS
<1>1. PICK hash \in BridgeHashes, signatures \in SignatureLists : MintPusd(hash, signatures)
  BY DEF Next, BurnPusd, Transfer, BridgeAdmin, TokenAdmin, NextBlock, mintState
<1> QED
  BY <1>1, MintStep

\* No mintPusd ever succeeds on the signature of an account that is not in the
\* validators array at that moment, even an array given an address twice, with too
\* few signatures, or over the volume cap of the window it is counted in.
THEOREM MintsAlwaysSignedAndCapped ==
  ASSUME WindowsHaveLength
  PROVE  Spec => MintsSignedAndCapped
<1>1. [mints' # mints => MintSignedAndCapped]_vars
        => [mints' # mints =>
             LET signatures == Last(mints').signatures IN
             /\ Len(signatures) >= threshold
             /\ \A i \in DOMAIN signatures :
                  \E j \in DOMAIN validators : validators[j] = signatures[i]
             /\ volumeCap > 0 => MintedIn(windowStart)' <= volumeCap]_vars
  BY DEF MintSignedAndCapped
<1> QED
  BY <1>1, InitVolume, NextVolume, NextMint, TypeCorrect, PTL DEF Spec, MintsSignedAndCapped
=============================================================================
