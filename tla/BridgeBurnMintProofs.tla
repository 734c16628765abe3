------------------------ MODULE BridgeBurnMintProofs ------------------------
(* Proofs about the bridge-burn-mint contract, for all signers, amounts,    *)
(* caps and hashes, and any number of burns and mints.                      *)
EXTENDS BridgeBurnMint, SumTheorems, FiniteSetTheorems, TLAPS

-----------------------------------------------------------------------------
(* Type correctness.                                                        *)

LEMMA InitTypeOK == Init => TypeOK
<1> SUFFICES ASSUME Init PROVE TypeOK
  OBVIOUS
<1>1. PICK vector \in InitialSigners :
        /\ signers = Range(vector)
        /\ signerCount = Len(vector)
        /\ threshold \in {t \in 0..(Len(vector) + 1) : ValidThreshold(Len(vector), t)}
  BY DEF Init
<1>2. vector \in Seq(Accounts)
  BY BurnMintAssumption
<1>3. signers \subseteq Accounts
  BY <1>1, <1>2 DEF Range
<1>4. signerCount \in Nat /\ threshold \in Nat \ {0}
  BY <1>1, <1>2 DEF ValidThreshold
<1>5. mintCap \in [Chains -> MintCaps \cup {0}]
  BY DEF Init
<1>6. chainMinted \in [Chains -> Nat] /\ chainBurned \in [Chains -> Nat]
  BY DEF Init
<1>7. burnEvents \in Seq(BurnEvent) /\ mints \in Seq(Mint)
  BY DEF Init
<1> QED
  BY <1>3, <1>4, <1>5, <1>6, <1>7, BurnMintAssumption DEF Init, TypeOK

\* A burn's event is a BurnEvent.
LEMMA BurnTypeOK ==
  ASSUME TypeOK, NEW amount \in Amounts, NEW dest \in Chains, NEW tx \in BurnTransactions,
         BurnPusd(amount, dest, tx)
  PROVE  TypeOK'
<1>1. amount \in Nat \ {0}
  BY BurnMintAssumption DEF BurnPusd, ValidAmount
<1>2. tx \in Nat
  <2>1. burnEvents \in Seq(BurnEvent) /\ Len(burnEvents) + 1 \in Nat
    BY DEF TypeOK
  <2>2. \A i \in DOMAIN burnEvents : burnEvents[i].tx \in Nat
    <3>1. \A i \in DOMAIN burnEvents : burnEvents[i] \in BurnEvent
      BY <2>1
    <3> QED
      BY <3>1 DEF BurnEvent
  <2> QED
    BY <2>1, <2>2 DEF BurnTransactions
<1>3. burnEvents' \in Seq(BurnEvent)
  BY <1>1, <1>2 DEF BurnPusd, TypeOK, BurnEvent
<1>4. chainBurned' \in [Chains -> Nat]
  BY <1>1 DEF BurnPusd, Credited, TypeOK
<1>5. nextNonce' \in Nat /\ circulating' \in Nat /\ locked' \in Nat
  BY <1>1 DEF BurnPusd, NonceAfterBurn, TypeOK
<1> QED
  BY <1>3, <1>4, <1>5 DEF BurnPusd, TypeOK, config, breaker, mintState

\* The breaker counts in natural numbers.
LEMMA BreakerType ==
  ASSUME TypeOK, NEW amount \in Nat, CheckVolumeCircuitBreaker(amount)
  PROVE  windowStart' \in Nat /\ volume' \in Nat
  BY DEF CheckVolumeCircuitBreaker, breaker, OpenVolume, TypeOK

\* The lists callers pass are lists of accounts.
LEMMA SignerListsType == SignerLists \subseteq Seq(Accounts)
<1>1. Cardinality(Accounts) \in Nat
  BY BurnMintAssumption, FS_CardinalityType
<1> QED
  BY <1>1 DEF SignerLists

LEMMA MintTypeOK ==
  ASSUME TypeOK, NEW amount \in Amounts, NEW chain \in Chains, NEW hash \in Hashes,
         NEW by \in SignerLists, MintPusd(amount, chain, hash, by)
  PROVE  TypeOK'
<1>1. amount \in Nat \ {0}
  BY BurnMintAssumption DEF MintPusd, ValidAmount
<1>2. by \in Seq(Accounts)
  BY SignerListsType
<1>3. windowStart' \in Nat /\ volume' \in Nat
  BY <1>1, BreakerType DEF MintPusd
<1>4. (volumeCap > 0) \in BOOLEAN
  OBVIOUS
<1>5. mints' \in Seq(Mint)
  BY <1>1, <1>2, <1>3, <1>4 DEF MintPusd, TypeOK, Mint
<1>6. chainMinted' \in [Chains -> Nat]
  BY <1>1 DEF MintPusd, Credited, TypeOK
<1>7. circulating' \in Nat /\ processed' \subseteq Hashes
  BY <1>1 DEF MintPusd, TypeOK
<1> QED
  BY <1>3, <1>5, <1>6, <1>7 DEF MintPusd, TypeOK, config, burnState

LEMMA AdminTypeOK ==
  ASSUME TypeOK, AdminCall
  PROVE  TypeOK'
<1>1. /\ signers' \subseteq Accounts
      /\ signerCount' \in Nat
      /\ threshold' \in Nat \ {0}
      /\ volumeCap' \in Caps
      /\ windowLedgers' \in Windows
      /\ mintCap' \in [Chains -> MintCaps \cup {0}]
      /\ paused' \in BOOLEAN
  <2> USE DEF TypeOK
  <2>1. CASE \E a \in Accounts : AddSigner(a)
    BY <2>1 DEF AddSigner
  <2>2. CASE \E a \in Accounts : RemoveSigner(a)
    BY <2>2 DEF RemoveSigner
  <2>3. CASE \E t \in 1..Cardinality(Accounts) : SetThreshold(t)
    BY <2>3 DEF SetThreshold, ValidThreshold
  <2>4. CASE \E cap \in Caps, window \in Windows : SetVolumeCap(cap, window)
    BY <2>4 DEF SetVolumeCap
  <2>5. CASE \E chain \in Chains, cap \in MintCaps : SetChainMintCap(chain, cap)
    BY <2>5 DEF SetChainMintCap
  <2>6. CASE Pause
    BY <2>6 DEF Pause
  <2>7. CASE Unpause
    BY <2>7 DEF Unpause
  <2> QED
    BY <2>1, <2>2, <2>3, <2>4, <2>5, <2>6, <2>7 DEF AdminCall
<1> QED
  BY <1>1 DEF TypeOK, AdminCall, breaker, burnState, mintState

LEMMA NextTypeOK == TypeOK /\ [Next]_vars => TypeOK'
<1> SUFFICES ASSUME TypeOK, [Next]_vars PROVE TypeOK'
  OBVIOUS
<1>1. CASE \E amount \in Amounts, dest \in Chains, tx \in BurnTransactions :
             BurnPusd(amount, dest, tx)
  BY <1>1, BurnTypeOK
<1>2. CASE \E amount \in Amounts, chain \in Chains, hash \in Hashes, by \in SignerLists :
             MintPusd(amount, chain, hash, by)
  BY <1>2, MintTypeOK
<1>3. CASE AdminCall
  BY <1>3, AdminTypeOK
<1>4. CASE CloseLedger
  BY <1>4 DEF CloseLedger, TypeOK, config, breaker, burnState, mintState
<1>5. CASE UNCHANGED vars
  BY <1>5 DEF vars, TypeOK, config, breaker, burnState, mintState
<1> QED
  BY <1>1, <1>2, <1>3, <1>4, <1>5 DEF Next

\* Every storage entry keeps its type through any sequence of calls.
THEOREM TypeCorrect == Spec => []TypeOK
  BY InitTypeOK, NextTypeOK, PTL DEF Spec

-----------------------------------------------------------------------------
(* The quorum.                                                              *)

\* initialize is given no address twice.
DistinctVectors == \A vector \in InitialSigners : IsInjective(vector)

\* The count is that of the set of signers, which stays finite.
LEMMA SignersFinite ==
  ASSUME TypeOK
  PROVE  IsFiniteSet(signers)
  BY BurnMintAssumption, FS_Subset DEF TypeOK

LEMMA InitQuorum ==
  ASSUME DistinctVectors
  PROVE  Init => QuorumReachable
<1> SUFFICES ASSUME Init PROVE QuorumReachable
  OBVIOUS
<1>1. PICK vector \in InitialSigners :
        /\ signers = Range(vector)
        /\ signerCount = Len(vector)
        /\ threshold \in {t \in 0..(Len(vector) + 1) : ValidThreshold(Len(vector), t)}
  BY DEF Init
<1>2. vector \in Seq(Accounts) /\ IsInjective(vector)
  BY BurnMintAssumption DEF DistinctVectors
<1>3. Cardinality(Range(vector)) = Len(vector)
  BY <1>2, DistinctCount
<1> QED
  BY <1>1, <1>2, <1>3 DEF QuorumReachable, ValidThreshold

LEMMA NextQuorum == TypeOK /\ QuorumReachable /\ [Next]_vars => QuorumReachable'
<1> SUFFICES ASSUME TypeOK, QuorumReachable, [Next]_vars PROVE QuorumReachable'
  OBVIOUS
<1>0. /\ IsFiniteSet(signers) /\ Cardinality(signers) = signerCount
      /\ signerCount \in Nat /\ threshold \in 1..signerCount
  BY SignersFinite DEF QuorumReachable, TypeOK
<1>1. CASE \E a \in Accounts : AddSigner(a)
  <2>1. PICK a \in Accounts : AddSigner(a)
    BY <1>1
  <2>2. Cardinality(signers \cup {a}) = Cardinality(signers) + 1
    BY <1>0, <2>1, FS_AddElement DEF AddSigner
  <2> QED
    BY <1>0, <2>1, <2>2 DEF AddSigner, QuorumReachable
<1>2. CASE \E a \in Accounts : RemoveSigner(a)
  <2>1. PICK a \in Accounts : RemoveSigner(a)
    BY <1>2
  <2>2. Cardinality(signers \ {a}) = Cardinality(signers) - 1
    BY <1>0, <2>1, FS_RemoveElement DEF RemoveSigner
  <2> QED
    BY <1>0, <2>1, <2>2 DEF RemoveSigner, QuorumReachable
<1>3. CASE \E t \in 1..Cardinality(Accounts) : SetThreshold(t)
  BY <1>0, <1>3 DEF SetThreshold, ValidThreshold, QuorumReachable
<1>4. CASE UNCHANGED <<signers, signerCount, threshold>>
  BY <1>4 DEF QuorumReachable
<1> QED
  BY <1>1, <1>2, <1>3, <1>4
     DEF Next, BurnPusd, MintPusd, AdminCall, SetVolumeCap, SetChainMintCap, Pause, Unpause,
         CloseLedger, config, vars

-----------------------------------------------------------------------------
(* Burns.                                                                   *)

\* burn_pusd numbers its events from 0, so a nonce is an event's position.
BurnsNumbered ==
  /\ nextNonce = Len(burnEvents)
  /\ \A i \in DOMAIN burnEvents : burnEvents[i].nonce = i - 1

LEMMA InitNumbered == Init => BurnsNumbered
  BY DEF Init, BurnsNumbered

LEMMA NextNumbered == TypeOK /\ BurnsNumbered /\ [Next]_vars => BurnsNumbered'
<1> SUFFICES ASSUME TypeOK, BurnsNumbered, [Next]_vars PROVE BurnsNumbered'
  OBVIOUS
<1>1. CASE \E amount \in Amounts, dest \in Chains, tx \in BurnTransactions :
             BurnPusd(amount, dest, tx)
  <2>1. PICK amount \in Amounts, dest \in Chains, tx \in BurnTransactions :
          BurnPusd(amount, dest, tx)
    BY <1>1
  <2>2. /\ burnEvents \in Seq(BurnEvent) /\ burnEvents' \in Seq(BurnEvent)
        /\ nextNonce' = nextNonce + 1 /\ nextNonce = Len(burnEvents)
    BY <1>1, <2>1, BurnTypeOK DEF TypeOK, BurnPusd, NonceAfterBurn, BurnsNumbered
  <2> DEFINE e == [dest |-> dest, amount |-> amount, nonce |-> nextNonce, tx |-> tx,
                   ledger |-> ledger]
  <2>3. burnEvents' = Append(burnEvents, e) /\ e.nonce = nextNonce
    BY <2>1 DEF BurnPusd
  <2> HIDE DEF e
  <2>4. /\ Len(burnEvents') = Len(burnEvents) + 1
        /\ DOMAIN burnEvents' = DOMAIN burnEvents \cup {Len(burnEvents) + 1}
        /\ \A i \in DOMAIN burnEvents : burnEvents'[i] = burnEvents[i]
        /\ burnEvents'[Len(burnEvents) + 1] = e
    BY <2>2, <2>3
  <2> QED
    BY <2>2, <2>3, <2>4 DEF BurnsNumbered
<1>2. CASE UNCHANGED burnState
  BY <1>2 DEF burnState, BurnsNumbered
<1> QED
  BY <1>1, <1>2 DEF Next, MintPusd, AdminCall, CloseLedger, vars, burnState

LEMMA NumberedIdentify == TypeOK /\ BurnsNumbered => BurnsIdentified
<1> SUFFICES ASSUME TypeOK, BurnsNumbered,
                    NEW i \in DOMAIN burnEvents, NEW j \in DOMAIN burnEvents,
                    burnEvents[i].nonce = burnEvents[j].nonce
             PROVE  i = j
  BY DEF BurnsIdentified
<1>1. i \in Int /\ j \in Int
  BY DEF TypeOK
<1>2. i - 1 = j - 1
  BY DEF BurnsNumbered
<1> QED
  BY <1>1, <1>2

\* Every burn can be told from the others by its transaction and nonce, however
\* many burns one transaction makes and whatever else is called between them.
THEOREM BurnsAlwaysIdentified == Spec => []BurnsIdentified
  BY InitTypeOK, NextTypeOK, InitNumbered, NextNumbered, NumberedIdentify, PTL DEF Spec

\* The contract's records stay usable: typed, with a quorum that can be reached
\* through any order of add_signer, remove_signer and set_threshold, and with
\* burns that can be told apart.
THEOREM RecordsStayUsable ==
  ASSUME DistinctVectors
  PROVE  Spec => []BurnMintInv
<1>1. TypeOK /\ QuorumReachable /\ BurnsIdentified => BurnMintInv
  BY DEF BurnMintInv
<1> QED
  BY <1>1, InitTypeOK, NextTypeOK, InitQuorum, NextQuorum, BurnsAlwaysIdentified, PTL DEF Spec

-----------------------------------------------------------------------------
(* The books.                                                               *)

LEMMA MintAmounts ==
  ASSUME TypeOK
  PROVE  /\ DOMAIN AmountMinted = DOMAIN mints /\ DOMAIN AmountBurned = DOMAIN burnEvents
         /\ \A i \in DOMAIN mints : AmountMinted[i] \in Int
         /\ \A i \in DOMAIN burnEvents : AmountBurned[i] \in Int
<1>1. \A i \in DOMAIN mints : mints[i] \in Mint
  BY DEF TypeOK
<1>2. \A i \in DOMAIN burnEvents : burnEvents[i] \in BurnEvent
  BY DEF TypeOK
<1> QED
  BY <1>1, <1>2 DEF AmountMinted, AmountBurned, Mint, BurnEvent

\* A mint is recorded with what was asked, the window it counts in and whether
\* the breaker is on.
LEMMA MintEntry ==
  ASSUME TypeOK, NEW amount \in Amounts, NEW chain \in Chains, NEW hash \in Hashes,
         NEW by \in SignerLists, MintPusd(amount, chain, hash, by)
  PROVE  \E m \in Mint :
           /\ mints' = Append(mints, m)
           /\ m.chain = chain /\ m.hash = hash /\ m.amount = amount /\ m.by = by
           /\ m.window = windowStart'
           /\ (m.counted <=> volumeCap > 0)
<1> DEFINE m == [chain |-> chain, hash |-> hash, amount |-> amount, by |-> by,
                 window |-> windowStart', counted |-> volumeCap > 0]
<1>1. amount \in Nat \ {0} /\ by \in Seq(Accounts) /\ windowStart' \in Nat
  BY BurnMintAssumption, SignerListsType, BreakerType DEF MintPusd, ValidAmount
<1>2. (volumeCap > 0) \in BOOLEAN
  OBVIOUS
<1>3. m \in Mint
  BY <1>1, <1>2 DEF Mint
<1>4. mints' = Append(mints, m)
  BY DEF MintPusd
<1>5. /\ m.chain = chain /\ m.hash = hash /\ m.amount = amount /\ m.by = by
      /\ m.window = windowStart'
      /\ (m.counted <=> volumeCap > 0)
  OBVIOUS
<1> HIDE DEF m
<1> QED
  BY <1>3, <1>4, <1>5

\* The sums over the history that take the new entry in grow by its amount.
LEMMA MintSums ==
  ASSUME TypeOK, NEW m \in Mint, mints' = Append(mints, m), NEW n, n = Len(mints) + 1
  PROVE  /\ DOMAIN mints' = DOMAIN mints \cup {n} /\ n \notin DOMAIN mints
         /\ \A i \in DOMAIN mints : mints'[i] = mints[i]
         /\ mints'[n] = m
         /\ \A S \in SUBSET DOMAIN mints :
              /\ SumOver(AmountMinted, S) \in Int
              /\ SumOver(AmountMinted', S) = SumOver(AmountMinted, S)
              /\ SumOver(AmountMinted', S \cup {n}) = SumOver(AmountMinted, S) + m.amount
<1>1. PICK f, g : f = AmountMinted /\ g = AmountMinted'
  OBVIOUS
<1>2. mints \in Seq(Mint) /\ m.amount \in Int
  BY DEF TypeOK, Mint
<1>3. /\ DOMAIN mints' = DOMAIN mints \cup {n} /\ n \notin DOMAIN mints
      /\ \A i \in DOMAIN mints : mints'[i] = mints[i]
      /\ mints'[n] = m
  BY <1>2, AppendEntry
<1>4. /\ \A i \in DOMAIN mints : f[i] \in Int /\ g[i] = f[i]
      /\ g[n] = m.amount
  BY <1>1, <1>3, MintAmounts DEF AmountMinted
<1>5. ASSUME NEW S \in SUBSET DOMAIN mints
      PROVE  /\ SumOver(f, S) \in Int
             /\ SumOver(g, S) = SumOver(f, S)
             /\ SumOver(g, S \cup {n}) = SumOver(f, S) + m.amount
  <2>1. mints \in Seq(Mint) /\ g[Len(mints) + 1] \in Int
    BY <1>2, <1>4
  <2>2. \A i \in DOMAIN mints : f[i] \in Int /\ g[i] = f[i]
    BY <1>4
  <2>3. SumOver(g, S \cup {Len(mints) + 1}) = SumOver(f, S) + g[Len(mints) + 1]
    BY <2>1, <2>2, SumAppend
  <2>4. IsFiniteSet(S) /\ \A i \in S : f[i] \in Int /\ g[i] = f[i]
    BY <1>2, <1>4, AppendEntry, FS_Subset
  <2>5. SumOver(f, S) \in Int
    BY <2>4, SumType
  <2>6. SumOver(g, S) = SumOver(f, S)
    BY <2>4, SumSame
  <2> QED
    BY <1>4, <2>3, <2>5, <2>6
<1> QED
  BY <1>1, <1>3, <1>5

\* A burn's event says where the PUSD goes and how much of it.
LEMMA BurnEntry ==
  ASSUME TypeOK, NEW amount \in Amounts, NEW dest \in Chains, NEW tx \in BurnTransactions,
         BurnPusd(amount, dest, tx)
  PROVE  \E e \in BurnEvent : burnEvents' = Append(burnEvents, e)
                              /\ e.dest = dest /\ e.amount = amount
<1> DEFINE e == [dest |-> dest, amount |-> amount, nonce |-> nextNonce, tx |-> tx,
                 ledger |-> ledger]
<1>1. e.dest = dest /\ e.amount = amount
  OBVIOUS
<1>2. /\ burnEvents \in Seq(BurnEvent) /\ burnEvents' \in Seq(BurnEvent)
      /\ burnEvents' = Append(burnEvents, e)
  BY BurnTypeOK DEF TypeOK, BurnPusd
<1> HIDE DEF e
<1>3. e \in BurnEvent
  BY <1>2
<1> QED
  BY <1>1, <1>2, <1>3

\* The sums over the events that take the new one in grow by its amount.
LEMMA BurnSums ==
  ASSUME TypeOK, NEW e \in BurnEvent, burnEvents' = Append(burnEvents, e),
         NEW n, n = Len(burnEvents) + 1
  PROVE  /\ DOMAIN burnEvents' = DOMAIN burnEvents \cup {n} /\ n \notin DOMAIN burnEvents
         /\ \A i \in DOMAIN burnEvents : burnEvents'[i] = burnEvents[i]
         /\ burnEvents'[n] = e
         /\ \A S \in SUBSET DOMAIN burnEvents :
              /\ SumOver(AmountBurned, S) \in Int
              /\ SumOver(AmountBurned', S) = SumOver(AmountBurned, S)
              /\ SumOver(AmountBurned', S \cup {n}) = SumOver(AmountBurned, S) + e.amount
<1>1. PICK f, g : f = AmountBurned /\ g = AmountBurned'
  OBVIOUS
<1>2. burnEvents \in Seq(BurnEvent) /\ e.amount \in Int
  BY DEF TypeOK, BurnEvent
<1>3. /\ DOMAIN burnEvents' = DOMAIN burnEvents \cup {n} /\ n \notin DOMAIN burnEvents
      /\ \A i \in DOMAIN burnEvents : burnEvents'[i] = burnEvents[i]
      /\ burnEvents'[n] = e
  BY <1>2, AppendEntry
<1>4. /\ \A i \in DOMAIN burnEvents : f[i] \in Int /\ g[i] = f[i]
      /\ g[n] = e.amount
  BY <1>1, <1>3, MintAmounts DEF AmountBurned
<1>5. ASSUME NEW S \in SUBSET DOMAIN burnEvents
      PROVE  /\ SumOver(f, S) \in Int
             /\ SumOver(g, S) = SumOver(f, S)
             /\ SumOver(g, S \cup {n}) = SumOver(f, S) + e.amount
  <2>1. burnEvents \in Seq(BurnEvent) /\ g[Len(burnEvents) + 1] \in Int
    BY <1>2, <1>4
  <2>2. \A i \in DOMAIN burnEvents : f[i] \in Int /\ g[i] = f[i]
    BY <1>4
  <2>3. SumOver(g, S \cup {Len(burnEvents) + 1}) = SumOver(f, S) + g[Len(burnEvents) + 1]
    BY <2>1, <2>2, SumAppend
  <2>4. IsFiniteSet(S) /\ \A i \in S : f[i] \in Int /\ g[i] = f[i]
    BY <1>2, <1>4, AppendEntry, FS_Subset
  <2>5. SumOver(f, S) \in Int
    BY <2>4, SumType
  <2>6. SumOver(g, S) = SumOver(f, S)
    BY <2>4, SumSame
  <2> QED
    BY <1>4, <2>3, <2>5, <2>6
<1> QED
  BY <1>1, <1>3, <1>5

\* The mints from and the burns to a chain.
MintsOf(c) == {i \in DOMAIN mints : mints[i].chain = c}
BurnsOf(c) == {i \in DOMAIN burnEvents : burnEvents[i].dest = c}

LEMMA InitBooks == Init => BooksBalance
<1> SUFFICES ASSUME Init PROVE BooksBalance
  OBVIOUS
<1>1. /\ DOMAIN mints = {} /\ DOMAIN burnEvents = {}
      /\ DOMAIN AmountMinted = {} /\ DOMAIN AmountBurned = {}
  BY DEF Init, AmountMinted, AmountBurned
<1>2. SumOver(AmountMinted, {}) = 0
  BY SumEmpty
<1>3. SumOver(AmountBurned, {}) = 0
  BY SumEmpty
<1>4. Funds \in Nat
  BY BurnMintAssumption
<1> QED
  BY <1>1, <1>2, <1>3, <1>4 DEF Init, BooksBalance, Total

LEMMA MintBooks ==
  ASSUME TypeOK, BooksBalance, NEW amount \in Amounts, NEW chain \in Chains, NEW hash \in Hashes,
         NEW by \in SignerLists, MintPusd(amount, chain, hash, by)
  PROVE  BooksBalance'
<1>m. PICK m \in Mint :
        /\ mints' = Append(mints, m)
        /\ m.chain = chain /\ m.hash = hash /\ m.amount = amount
  BY MintEntry
<1>0. PICK n : n = Len(mints) + 1
  OBVIOUS
<1>1. /\ DOMAIN mints' = DOMAIN mints \cup {n} /\ n \notin DOMAIN mints
      /\ \A i \in DOMAIN mints : mints'[i] = mints[i]
      /\ mints'[n].chain = chain /\ mints'[n].hash = hash
  BY <1>m, <1>0, MintSums
<1>2. \A S \in SUBSET DOMAIN mints :
        /\ SumOver(AmountMinted, S) \in Int
        /\ SumOver(AmountMinted', S) = SumOver(AmountMinted, S)
        /\ SumOver(AmountMinted', S \cup {n}) = SumOver(AmountMinted, S) + amount
  BY <1>m, <1>0, MintSums
<1>a. amount \in Int
  BY BurnMintAssumption
<1>3. AmountBurned' = AmountBurned /\ UNCHANGED burnState
  BY DEF AmountBurned, MintPusd, burnState
<1>4. /\ \A i, j \in DOMAIN mints : mints[i].hash = mints[j].hash => i = j
      /\ processed = {mints[i].hash : i \in DOMAIN mints}
      /\ hash \notin processed /\ processed' = processed \cup {hash}
  BY DEF BooksBalance, MintPusd, NotReplayed
<1>5. \A i \in DOMAIN mints : mints[i].hash # hash
  BY <1>4
<1>6. /\ \A i, j \in DOMAIN mints' : mints'[i].hash = mints'[j].hash => i = j
      /\ processed' = {mints'[i].hash : i \in DOMAIN mints'}
  BY <1>1, <1>4, <1>5
<1>7. ASSUME NEW c \in Chains
      PROVE  chainMinted'[c] = SumOver(AmountMinted', MintsOf(c)')
  <2>1. MintsOf(c) \in SUBSET DOMAIN mints /\ chainMinted[c] = SumOver(AmountMinted, MintsOf(c))
    BY DEF MintsOf, BooksBalance
  <2>2. chainMinted' = [chainMinted EXCEPT ![chain] = @ + amount] /\ DOMAIN chainMinted = Chains
    BY DEF MintPusd, Credited, TypeOK
  <2>3. CASE c = chain
    <3>1. MintsOf(c)' = MintsOf(c) \cup {n}
      BY <1>1, <2>3 DEF MintsOf
    <3> QED
      BY <1>2, <2>1, <2>2, <2>3, <3>1
  <2>4. CASE c # chain
    <3>1. MintsOf(c)' = MintsOf(c)
      BY <1>1, <2>4 DEF MintsOf
    <3> QED
      BY <1>2, <2>1, <2>2, <2>4, <3>1
  <2> QED
    BY <2>3, <2>4
<1>8. circulating' + locked' = Funds + Total(AmountMinted)'
  <2>1. Total(AmountMinted) = SumOver(AmountMinted, DOMAIN mints)
    BY DEF Total, AmountMinted
  <2>2. Total(AmountMinted)' = SumOver(AmountMinted', DOMAIN mints \cup {n})
    BY <1>1 DEF Total, AmountMinted
  <2>3. /\ SumOver(AmountMinted, DOMAIN mints) \in Int
        /\ Total(AmountMinted)' = Total(AmountMinted) + amount
    BY <1>2, <2>1, <2>2
  <2>4. circulating' = circulating + amount /\ locked' = locked
    BY <1>3 DEF MintPusd, burnState
  <2>5. circulating + locked = Funds + Total(AmountMinted)
    BY DEF BooksBalance
  <2>6. circulating \in Int /\ locked \in Int /\ Funds \in Int
    BY BurnMintAssumption DEF TypeOK
  <2> QED
    BY <1>a, <2>1, <2>3, <2>4, <2>5, <2>6
<1>9. /\ locked' = Total(AmountBurned)'
      /\ \A c \in Chains : chainBurned'[c] = SumOver(AmountBurned', BurnsOf(c)')
  BY <1>3 DEF BooksBalance, BurnsOf, burnState, Total
<1> QED
  BY <1>6, <1>7, <1>8, <1>9 DEF BooksBalance, MintsOf, BurnsOf

LEMMA BurnBooks ==
  ASSUME TypeOK, BooksBalance, NEW amount \in Amounts, NEW dest \in Chains,
         NEW tx \in BurnTransactions, BurnPusd(amount, dest, tx)
  PROVE  BooksBalance'
<1>e. PICK e \in BurnEvent :
        burnEvents' = Append(burnEvents, e) /\ e.dest = dest /\ e.amount = amount
  BY BurnEntry
<1>0. PICK n : n = Len(burnEvents) + 1
  OBVIOUS
<1>a. amount \in Int
  BY BurnMintAssumption
<1>1. /\ DOMAIN burnEvents' = DOMAIN burnEvents \cup {n} /\ n \notin DOMAIN burnEvents
      /\ \A i \in DOMAIN burnEvents : burnEvents'[i] = burnEvents[i]
      /\ burnEvents'[n].dest = dest
  BY <1>e, <1>0, BurnSums
<1>2. \A S \in SUBSET DOMAIN burnEvents :
        /\ SumOver(AmountBurned, S) \in Int
        /\ SumOver(AmountBurned', S) = SumOver(AmountBurned, S)
        /\ SumOver(AmountBurned', S \cup {n}) = SumOver(AmountBurned, S) + amount
  BY <1>e, <1>0, BurnSums
<1>3. AmountMinted' = AmountMinted /\ UNCHANGED mintState
  BY DEF AmountMinted, BurnPusd, mintState
<1>4. ASSUME NEW c \in Chains
      PROVE  chainBurned'[c] = SumOver(AmountBurned', BurnsOf(c)')
  <2>1. BurnsOf(c) \in SUBSET DOMAIN burnEvents /\ chainBurned[c] = SumOver(AmountBurned, BurnsOf(c))
    BY DEF BurnsOf, BooksBalance
  <2>2. chainBurned' = [chainBurned EXCEPT ![dest] = @ + amount] /\ DOMAIN chainBurned = Chains
    BY DEF BurnPusd, Credited, TypeOK
  <2>3. CASE c = dest
    <3>1. BurnsOf(c)' = BurnsOf(c) \cup {n}
      BY <1>1, <2>3 DEF BurnsOf
    <3> QED
      BY <1>2, <2>1, <2>2, <2>3, <3>1
  <2>4. CASE c # dest
    <3>1. BurnsOf(c)' = BurnsOf(c)
      BY <1>1, <2>4 DEF BurnsOf
    <3> QED
      BY <1>2, <2>1, <2>2, <2>4, <3>1
  <2> QED
    BY <2>3, <2>4
<1>5. /\ locked' = Total(AmountBurned)'
      /\ circulating' + locked' = Funds + Total(AmountMinted)'
  <2>1. Total(AmountBurned) = SumOver(AmountBurned, DOMAIN burnEvents)
    BY DEF Total, AmountBurned
  <2>2. Total(AmountBurned)' = SumOver(AmountBurned', DOMAIN burnEvents \cup {n})
    BY <1>1 DEF Total, AmountBurned
  <2>3. Total(AmountBurned)' = Total(AmountBurned) + amount
    BY <1>2, <2>1, <2>2
  <2>4. circulating' = circulating - amount /\ locked' = locked + amount
    BY DEF BurnPusd
  <2>5. locked = Total(AmountBurned) /\ circulating + locked = Funds + Total(AmountMinted)
    BY DEF BooksBalance
  <2>6. circulating \in Int /\ locked \in Int
    BY DEF TypeOK
  <2>7. circulating' + locked' = circulating + locked
    BY <1>a, <2>4, <2>6
  <2> QED
    BY <1>3, <2>3, <2>4, <2>5, <2>7 DEF Total
<1>6. /\ \A i, j \in DOMAIN mints' : mints'[i].hash = mints'[j].hash => i = j
      /\ processed' = {mints'[i].hash : i \in DOMAIN mints'}
      /\ \A c \in Chains : chainMinted'[c] = SumOver(AmountMinted', MintsOf(c)')
  BY ZenonT(30), <1>3 DEF BooksBalance, MintsOf, mintState
<1> QED
  BY <1>4, <1>5, <1>6 DEF BooksBalance, MintsOf, BurnsOf

LEMMA NextBooks == TypeOK /\ BooksBalance /\ [Next]_vars => BooksBalance'
<1> SUFFICES ASSUME TypeOK, BooksBalance, [Next]_vars PROVE BooksBalance'
  OBVIOUS
<1>1. CASE \E amount \in Amounts, dest \in Chains, tx \in BurnTransactions :
             BurnPusd(amount, dest, tx)
  BY <1>1, BurnBooks
<1>2. CASE \E amount \in Amounts, chain \in Chains, hash \in Hashes, by \in SignerLists :
             MintPusd(amount, chain, hash, by)
  BY <1>2, MintBooks
<1>3. CASE UNCHANGED <<burnState, mintState, circulating>>
  BY ZenonT(30), <1>3 DEF BooksBalance, AmountMinted, AmountBurned, Total, burnState, mintState
<1> QED
  BY <1>1, <1>2, <1>3 DEF Next, AdminCall, CloseLedger, vars

\* Each source transaction is paid once and every running total, the contract's
\* PUSD and the PUSD in circulation are what the burns and mints made add up to.
THEOREM BooksAlwaysBalance == Spec => []BooksBalance
  BY InitTypeOK, NextTypeOK, InitBooks, NextBooks, PTL DEF Spec

-----------------------------------------------------------------------------
(* What a mint may do.                                                      *)

\* set_volume_cap is given a window of some length.
WindowsHaveLength == 0 \notin Windows

\* The breaker's counter is what was counted in the window that is open, and no
\* mint was made in a later one.
VolumeInv ==
  /\ windowStart <= ledger
  /\ \A i \in DOMAIN mints : mints[i].window <= windowStart
  /\ volume = SumOver(AmountMinted, CountedIn(windowStart))

LEMMA InitVolume == Init => VolumeInv
<1> SUFFICES ASSUME Init PROVE VolumeInv
  OBVIOUS
<1>1. DOMAIN mints = {} /\ windowStart = 0 /\ ledger = 0 /\ volume = 0
  BY DEF Init
<1>2. SumOver(AmountMinted, {}) = 0
  BY SumEmpty
<1>3. CountedIn(windowStart) = {}
  BY <1>1 DEF CountedIn
<1>4. \A i \in DOMAIN mints : mints[i].window <= windowStart
  BY <1>1
<1>5. volume = SumOver(AmountMinted, CountedIn(windowStart))
  BY <1>1, <1>2, <1>3
<1> QED
  BY <1>1, <1>4, <1>5 DEF VolumeInv

LEMMA MintVolume ==
  ASSUME WindowsHaveLength, TypeOK, VolumeInv,
         NEW amount \in Amounts, NEW chain \in Chains, NEW hash \in Hashes,
         NEW by \in SignerLists, MintPusd(amount, chain, hash, by)
  PROVE  VolumeInv'
<1>m. PICK m \in Mint :
        /\ mints' = Append(mints, m)
        /\ m.amount = amount /\ m.window = windowStart' /\ (m.counted <=> volumeCap > 0)
  BY MintEntry
<1>n. PICK n : n = Len(mints) + 1
  OBVIOUS
<1>1. /\ DOMAIN mints' = DOMAIN mints \cup {n} /\ n \notin DOMAIN mints
      /\ \A i \in DOMAIN mints : mints'[i] = mints[i]
      /\ mints'[n] = m
  BY <1>m, <1>n, MintSums
<1>2. \A S \in SUBSET DOMAIN mints :
        /\ SumOver(AmountMinted, S) \in Int
        /\ SumOver(AmountMinted', S) = SumOver(AmountMinted, S)
        /\ SumOver(AmountMinted', S \cup {n}) = SumOver(AmountMinted, S) + amount
  BY <1>m, <1>n, MintSums
<1>3. /\ volume \in Nat /\ windowStart \in Nat /\ ledger \in Nat /\ amount \in Int
      /\ windowLedgers \in Nat \ {0} /\ ledger' = ledger /\ volumeCap \in Nat
  BY BurnMintAssumption DEF TypeOK, WindowsHaveLength, MintPusd
<1>4. \A i \in DOMAIN mints : mints[i].window \in Nat
  <2>1. \A i \in DOMAIN mints : mints[i] \in Mint
    BY DEF TypeOK
  <2> QED
    BY <2>1 DEF Mint
<1> DEFINE counted == CountedIn(windowStart)
<1>5. counted \in SUBSET DOMAIN mints
  BY DEF CountedIn
<1>6. CheckVolumeCircuitBreaker(amount)
  BY DEF MintPusd
<1>7. CASE volumeCap = 0
  <2>1. windowStart' = windowStart /\ volume' = volume /\ ~m.counted
    BY <1>m, <1>3, <1>6, <1>7 DEF CheckVolumeCircuitBreaker, breaker
  <2>2. CountedIn(windowStart)' = counted
    BY <1>1, <2>1 DEF CountedIn
  <2>3. \A i \in DOMAIN mints' : mints'[i].window <= windowStart'
    BY <1>m, <1>1, <1>3, <2>1 DEF VolumeInv
  <2> HIDE DEF counted
  <2>4. SumOver(AmountMinted', CountedIn(windowStart)') = SumOver(AmountMinted, counted)
    BY <1>2, <1>5, <2>2
  <2> QED
    BY <1>3, <2>1, <2>3, <2>4 DEF VolumeInv, counted
<1>8. CASE volumeCap # 0 /\ ~WindowOver
  <2>1. windowStart' = windowStart /\ volume' = volume + amount /\ m.counted
    BY <1>m, <1>3, <1>6, <1>8 DEF CheckVolumeCircuitBreaker, OpenVolume
  <2>2. CountedIn(windowStart)' = counted \cup {n}
    BY <1>m, <1>1, <2>1 DEF CountedIn
  <2>3. \A i \in DOMAIN mints' : mints'[i].window <= windowStart'
    BY <1>m, <1>1, <1>3, <2>1 DEF VolumeInv
  <2> HIDE DEF counted
  <2>4. SumOver(AmountMinted', CountedIn(windowStart)') = SumOver(AmountMinted, counted) + amount
    BY <1>2, <1>5, <2>2
  <2> QED
    BY <1>3, <2>1, <2>3, <2>4 DEF VolumeInv, counted
<1>9. CASE volumeCap # 0 /\ WindowOver
  <2>1. windowStart' = ledger /\ volume' = amount /\ m.counted
    BY <1>m, <1>3, <1>6, <1>9 DEF CheckVolumeCircuitBreaker, OpenVolume
  <2>2. windowStart < ledger
    BY <1>3, <1>9 DEF WindowOver
  <2>3. \A i \in DOMAIN mints : mints[i].window < ledger
    BY <1>3, <1>4, <2>2 DEF VolumeInv
  <2> DEFINE none == {}
  <2>4. CountedIn(windowStart)' = none \cup {n}
    BY <1>m, <1>1, <1>3, <1>4, <2>1, <2>3 DEF CountedIn
  <2>5. none \in SUBSET DOMAIN mints
    OBVIOUS
  <2>6. SumOver(AmountMinted, none) = 0
    BY SumEmpty
  <2> HIDE DEF none
  <2>7. SumOver(AmountMinted', CountedIn(windowStart)') = SumOver(AmountMinted, none) + amount
    BY <1>2, <2>4, <2>5
  <2>8. \A i \in DOMAIN mints' : mints'[i].window <= windowStart'
    BY <1>m, <1>1, <1>3, <1>4, <2>1, <2>3
  <2> QED
    BY <1>3, <2>1, <2>6, <2>7, <2>8 DEF VolumeInv
<1> QED
  BY <1>7, <1>8, <1>9

LEMMA NextVolume ==
  ASSUME WindowsHaveLength
  PROVE  TypeOK /\ VolumeInv /\ [Next]_vars => VolumeInv'
<1> SUFFICES ASSUME TypeOK, VolumeInv, [Next]_vars PROVE VolumeInv'
  OBVIOUS
<1>1. CASE \E amount \in Amounts, chain \in Chains, hash \in Hashes, by \in SignerLists :
             MintPusd(amount, chain, hash, by)
  BY <1>1, MintVolume
<1>2. CASE UNCHANGED <<breaker, mintState>> /\ ledger' \in {ledger, ledger + 1}
  BY <1>2 DEF VolumeInv, AmountMinted, CountedIn, breaker, mintState, TypeOK
<1> QED
  BY <1>1, <1>2 DEF Next, BurnPusd, AdminCall, CloseLedger, vars

\* A quorum names as many signers as the threshold asks for.
LEMMA QuorumCounts ==
  ASSUME TypeOK, NEW by \in SignerLists, Quorum(by)
  PROVE  Cardinality(Range(by) \cap signers) >= threshold
<1>1. by \in Seq(Accounts) /\ Len(by) >= threshold
  BY SignerListsType DEF Quorum
<1>2. \A i, j \in 1..Len(by) : j < i => by[j] # by[i]
  BY <1>1 DEF Quorum
<1>3. IsInjective(by)
  BY <1>1, <1>2 DEF IsInjective
<1>4. Range(by) \cap signers = Range(by)
  BY <1>1 DEF Quorum, Range
<1>5. Cardinality(Range(by)) = Len(by)
  BY <1>1, <1>3, DistinctCount
<1> QED
  BY <1>1, <1>4, <1>5

\* What a mint_pusd that succeeds has checked and keeps true.
MintBackedAndCapped ==
  LET m == Last(mints') IN
  /\ Cardinality(Range(m.by) \cap signers) >= threshold
  /\ mintCap[m.chain] > 0 => chainMinted'[m.chain] <= mintCap[m.chain]
  /\ volumeCap > 0 => SumOver(AmountMinted, CountedIn(windowStart))' <= volumeCap

LEMMA MintStep ==
  ASSUME TypeOK, VolumeInv', NEW amount \in Amounts, NEW chain \in Chains, NEW hash \in Hashes,
         NEW by \in SignerLists, MintPusd(amount, chain, hash, by)
  PROVE  MintBackedAndCapped
<1>1. PICK m \in Mint :
        /\ mints' = Append(mints, m)
        /\ m.chain = chain /\ m.amount = amount /\ m.by = by
  BY MintEntry
<1>2. Last(mints') = m
  <2>1. mints \in Seq(Mint)
    BY DEF TypeOK
  <2> QED
    BY <1>1, <2>1 DEF Last
<1>3. Cardinality(Range(m.by) \cap signers) >= threshold
  BY <1>1, QuorumCounts DEF MintPusd
<1>4. mintCap[m.chain] > 0 => chainMinted'[m.chain] <= mintCap[m.chain]
  BY <1>1 DEF MintPusd, WithinMintCap, Credited, TypeOK
<1>5. volumeCap > 0 => volume' <= volumeCap
  BY DEF MintPusd, CheckVolumeCircuitBreaker
<1>6. volume' = SumOver(AmountMinted, CountedIn(windowStart))'
  BY DEF VolumeInv
<1> QED
  BY <1>2, <1>3, <1>4, <1>5, <1>6 DEF MintBackedAndCapped

LEMMA NextMint ==
  TypeOK /\ VolumeInv' /\ [Next]_vars => [mints' # mints => MintBackedAndCapped]_vars
<1> SUFFICES ASSUME TypeOK, VolumeInv', Next, mints' # mints PROVE MintBackedAndCapped
  OBVIOUS
<1>1. PICK amount \in Amounts, chain \in Chains, hash \in Hashes, by \in SignerLists :
        MintPusd(amount, chain, hash, by)
  BY DEF Next, BurnPusd, AdminCall, CloseLedger, mintState
<1> QED
  BY <1>1, MintStep

\* No mint_pusd ever succeeds without a quorum of different current signers, over
\* its chain's cap or over the volume cap of the window it is counted in.
THEOREM MintsAlwaysBackedAndCapped ==
  ASSUME WindowsHaveLength
  PROVE  Spec => MintsBackedAndCapped
<1>1. [mints' # mints => MintBackedAndCapped]_vars
        => [mints' # mints =>
             LET m == Last(mints') IN
             /\ Cardinality(Range(m.by) \cap signers) >= threshold
             /\ mintCap[m.chain] > 0 => chainMinted'[m.chain] <= mintCap[m.chain]
             /\ volumeCap > 0 => SumOver(AmountMinted, CountedIn(windowStart))' <= volumeCap]_vars
  BY DEF MintBackedAndCapped
<1> QED
  BY <1>1, InitTypeOK, NextTypeOK, InitVolume, NextVolume, NextMint, PTL
     DEF Spec, MintsBackedAndCapped
=============================================================================
