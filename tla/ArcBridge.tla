------------------------------ MODULE ArcBridge ------------------------------
(***************************************************************************)
(* The Arc end of the PUSD bridge: ArcBridge.sol with its PUSDToken.sol.   *)
(* The relayer mints PUSD for a burn on another chain with signatures of   *)
(* the validators; a holder burns PUSD to leave for another chain.  An     *)
(* action is one successful transaction; a reverted one leaves no trace.   *)
(* The bridge holds the token's MINTER_ROLE and BURNER_ROLE and the        *)
(* relayer the bridge's RELAYER_ROLE, as the deployment grants them.       *)
(***************************************************************************)
EXTENDS Integers, Sequences, SequencesExt, FiniteSets, FiniteSetsExt, Functions, Sums

CONSTANTS
  Accounts,           \* addresses that are, or may become, validators
  Users,              \* holders of PUSD
  Chains,             \* names of the other chains
  Hashes,             \* hashes of the burns on the other chains
  Nonces,             \* nonces of those burns
  Amounts,            \* amounts callers ask for
  InitialValidators,  \* validator arrays the constructor may be given
  SignatureLists,     \* signers of the signatures a relayer may submit, in order
  Caps,               \* volume caps; 0 switches the breaker off
  Windows,            \* volume window lengths
  MintCaps,           \* per-chain mint caps
  MaxSupply,          \* PUSDToken.MAX_SUPPLY
  MaxMints,           \* bound on the number of mints
  MaxBurns,           \* bound on the number of burns
  MaxTime             \* bound on the block timestamp

\* Addresses are of 20 bytes, so there are finitely many holders.
ASSUME ArcAssumption ==
  /\ IsFiniteSet(Users)
  /\ Amounts \subseteq Nat /\ Nonces \subseteq Nat
  /\ InitialValidators \subseteq Seq(Accounts)
  /\ SignatureLists \subseteq Seq(Accounts)
  /\ Caps \subseteq Nat /\ Windows \subseteq Nat /\ MintCaps \subseteq Nat
  /\ MaxSupply \in Nat /\ MaxMints \in Nat /\ MaxBurns \in Nat /\ MaxTime \in Nat

VARIABLES
  validators,    \* the validators array
  isValidator,   \* addresses whose isValidator flag is true
  threshold,     \* signatures a mint needs
  volumeCap, volumeWindow,  \* the breaker's configuration
  mintCap,       \* chainStates[chain].mintCap
  paused,        \* the bridge is paused
  windowStart, windowVolume,  \* the breaker's window
  processedHashes,  \* bridge hashes that were minted
  totalMinted, totalBurned,   \* chainStates[chain]
  nonces,        \* nonces[chain][user]
  tokenPaused,   \* PUSDToken is paused
  tokenBridge,   \* PUSDToken.bridge is this contract
  balance,       \* PUSDToken balances
  now,           \* block.timestamp
  mints, burns   \* history: the PusdMinted and PusdBurned events, in order

config == <<validators, isValidator, threshold, volumeCap, volumeWindow, mintCap, paused>>
token == <<tokenPaused, tokenBridge>>
breaker == <<windowStart, windowVolume>>
mintState == <<breaker, processedHashes, totalMinted, mints>>
burnState == <<totalBurned, nonces, burns>>
vars == <<config, token, mintState, burnState, balance, now>>

BridgeHash == [chain : Chains, hash : Hashes, nonce : Nonces, amount : Nat, to : Users]
Mint == [hash : BridgeHash, signatures : Seq(Accounts), window : Nat]
Burn == [chain : Chains, from : Users, amount : Nat \ {0}, nonce : Nat]

totalSupply == Total(balance)

TypeOK ==
  /\ validators \in Seq(Accounts)
  /\ isValidator \subseteq Accounts
  /\ threshold \in Nat \ {0}
  /\ volumeCap \in Caps /\ volumeWindow \in Windows
  /\ mintCap \in [Chains -> MintCaps \cup {0}]
  /\ paused \in BOOLEAN /\ tokenPaused \in BOOLEAN /\ tokenBridge \in BOOLEAN
  /\ windowStart \in Nat /\ windowVolume \in Nat
  /\ processedHashes \subseteq BridgeHash
  /\ totalMinted \in [Chains -> Nat] /\ totalBurned \in [Chains -> Nat]
  /\ nonces \in [Chains -> [Users -> Nat]]
  /\ balance \in [Users -> Nat]
  /\ now \in Nat
  /\ mints \in Seq(Mint) /\ burns \in Seq(Burn)

ValidThreshold(count, t) == t > 0 /\ t <= count

\* The constructor; the validators it is given may repeat an address.
Init ==
  /\ validators \in {v \in InitialValidators : Len(v) >= 2}
  /\ isValidator = Range(validators)
  /\ threshold \in {t \in 0..Len(validators) : ValidThreshold(Len(validators), t)}
  /\ volumeCap \in Caps /\ volumeWindow \in Windows
  /\ mintCap = [c \in Chains |-> 0]
  /\ paused = FALSE /\ tokenPaused = FALSE /\ tokenBridge = TRUE
  /\ windowStart = 0 /\ windowVolume = 0
  /\ processedHashes = {}
  /\ totalMinted = [c \in Chains |-> 0] /\ totalBurned = [c \in Chains |-> 0]
  /\ nonces = [c \in Chains |-> [u \in Users |-> 0]]
  /\ balance = [u \in Users |-> 0]
  /\ now = 0
  /\ mints = <<>> /\ burns = <<>>

-----------------------------------------------------------------------------
(* The token: mint and burn are for the bridge, and no balance moves while  *)
(* the token is paused.                                                     *)

TokenOpen == tokenBridge /\ ~tokenPaused

UnderCap(amount) == totalSupply + amount <= MaxSupply

TokenMint(to, amount) ==
  /\ TokenOpen
  /\ UnderCap(amount)
  /\ balance' = [balance EXCEPT ![to] = @ + amount]

TokenBurn(from, amount) ==
  /\ TokenOpen
  /\ amount <= balance[from]
  /\ balance' = [balance EXCEPT ![from] = @ - amount]

Transfer(from, to, amount) ==
  /\ ~tokenPaused
  /\ amount <= balance[from]
  /\ from # to
  /\ balance' = [balance EXCEPT ![from] = @ - amount, ![to] = @ + amount]
  /\ UNCHANGED <<config, token, mintState, burnState, now>>

-----------------------------------------------------------------------------
(* Minting: PUSD bridged from another chain.                                *)

WindowOver == now >= windowStart + volumeWindow
OpenVolume == IF WindowOver THEN 0 ELSE windowVolume

\* _checkCircuitBreaker
WithinVolumeCap(amount) == volumeCap = 0 \/ OpenVolume + amount <= volumeCap

\* Fault: an admitted mint does not open a new window.
CountInOldWindow(amount) ==
  /\ windowVolume' = OpenVolume + amount
  /\ UNCHANGED windowStart

\* The window restarts whether or not the breaker is on.
CountVolume(amount) ==
  /\ windowVolume' = OpenVolume + amount
  /\ windowStart' = IF WindowOver THEN now ELSE windowStart

\* Fault: any account may sign.
SignedByAnyone(signatures) == Len(signatures) >= threshold

\* Each signature recovers to a validator; the same one may recur.
Signed(signatures) ==
  /\ Len(signatures) >= threshold
  /\ Range(signatures) \subseteq isValidator

\* Fault: the replay check is forgotten.
NeverProcessed(hash) == TRUE

NotProcessed(hash) == hash \notin processedHashes

Credited(totals, chain, amount) == [totals EXCEPT ![chain] = @ + amount]

MintPusd(hash, signatures) ==
  /\ Len(mints) < MaxMints
  /\ ~paused
  /\ hash.amount > 0
  /\ NotProcessed(hash)
  /\ Signed(signatures)
  /\ WithinVolumeCap(hash.amount)
  /\ processedHashes' = processedHashes \cup {hash}
  /\ totalMinted' = Credited(totalMinted, hash.chain, hash.amount)
  /\ CountVolume(hash.amount)
  /\ TokenMint(hash.to, hash.amount)
  /\ mints' = Append(mints, [hash |-> hash, signatures |-> signatures,
                             window |-> windowStart'])
  /\ UNCHANGED <<config, token, burnState, now>>

-----------------------------------------------------------------------------
(* Burning: PUSD that leaves for another chain.                             *)

NonceTaken(chain, user) == [nonces EXCEPT ![chain][user] = @ + 1]

BurnPusd(user, chain, amount) ==
  /\ Len(burns) < MaxBurns
  /\ ~paused
  /\ amount > 0
  /\ TokenBurn(user, amount)
  /\ totalBurned' = Credited(totalBurned, chain, amount)
  /\ nonces' = NonceTaken(chain, user)
  /\ burns' = Append(burns, [chain |-> chain, from |-> user, amount |-> amount,
                             nonce |-> nonces[chain][user]])
  /\ UNCHANGED <<config, token, mintState, now>>

-----------------------------------------------------------------------------
(* Administration.                                                          *)

AddValidator(v) ==
  /\ v \notin isValidator
  /\ isValidator' = isValidator \cup {v}
  /\ validators' = Append(validators, v)
  /\ UNCHANGED <<threshold, volumeCap, volumeWindow, mintCap, paused>>

FirstIndex(seq, v) == CHOOSE i \in DOMAIN seq : seq[i] = v /\ \A j \in 1..(i - 1) : seq[j] # v

\* Fault: the array's last element is dropped, whichever was removed.
Pop(seq, v) == Front(seq)

\* The last element takes the place of the first occurrence of v.
SwapAndPop(seq, v) == Front([seq EXCEPT ![FirstIndex(seq, v)] = Last(seq)])

EnoughLeft == Len(validators) - 1 >= threshold

RemoveValidator(v) ==
  /\ v \in isValidator
  /\ EnoughLeft
  /\ isValidator' = isValidator \ {v}
  /\ validators' = SwapAndPop(validators, v)
  /\ UNCHANGED <<threshold, volumeCap, volumeWindow, mintCap, paused>>

SetThreshold(t) ==
  /\ ValidThreshold(Len(validators), t)
  /\ threshold' = t
  /\ UNCHANGED <<validators, isValidator, volumeCap, volumeWindow, mintCap, paused>>

SetVolumeCap(cap, window) ==
  /\ volumeCap' = cap
  /\ volumeWindow' = window
  /\ UNCHANGED <<validators, isValidator, threshold, mintCap, paused>>

SetChainMintCap(chain, cap) ==
  /\ mintCap' = [mintCap EXCEPT ![chain] = cap]
  /\ UNCHANGED <<validators, isValidator, threshold, volumeCap, volumeWindow, paused>>

SetPaused(p) ==
  /\ paused = ~p
  /\ paused' = p
  /\ UNCHANGED <<validators, isValidator, threshold, volumeCap, volumeWindow, mintCap>>

BridgeAdmin ==
  /\ \/ \E v \in Accounts : AddValidator(v) \/ RemoveValidator(v)
     \/ \E t \in 0..(Cardinality(Accounts) + 1) : SetThreshold(t)
     \/ \E cap \in Caps, window \in Windows : SetVolumeCap(cap, window)
     \/ \E chain \in Chains, cap \in MintCaps : SetChainMintCap(chain, cap)
     \/ \E p \in BOOLEAN : SetPaused(p)
  /\ UNCHANGED <<token, mintState, burnState, balance, now>>

TokenAdmin ==
  /\ \/ \E p \in BOOLEAN : tokenPaused = ~p /\ tokenPaused' = p /\ UNCHANGED tokenBridge
     \/ \E mine \in BOOLEAN : tokenBridge' = mine /\ UNCHANGED tokenPaused
  /\ UNCHANGED <<config, mintState, burnState, balance, now>>

NextBlock ==
  /\ now < MaxTime
  /\ now' = now + 1
  /\ UNCHANGED <<config, token, mintState, burnState, balance>>

BridgeHashes == [chain : Chains, hash : Hashes, nonce : Nonces, amount : Amounts, to : Users]

Next ==
  \/ \E hash \in BridgeHashes, signatures \in SignatureLists : MintPusd(hash, signatures)
  \/ \E user \in Users, chain \in Chains, amount \in Amounts : BurnPusd(user, chain, amount)
  \/ \E from, to \in Users, amount \in Amounts : Transfer(from, to, amount)
  \/ BridgeAdmin
  \/ TokenAdmin
  \/ NextBlock

Spec == Init /\ [][Next]_vars

-----------------------------------------------------------------------------
(* Properties.                                                              *)

AmountMinted == [i \in DOMAIN mints |-> mints[i].hash.amount]
AmountBurned == [i \in DOMAIN burns |-> burns[i].amount]

\* The books agree through pauses, reordered submissions and changes of the
\* token: what was minted is exactly what was marked processed, each bridge
\* hash once; the totals per chain are those of the events; the token's supply
\* is what was minted and not burned, and stays within MAX_SUPPLY.
BooksBalance ==
  /\ processedHashes = {mints[i].hash : i \in DOMAIN mints}
  /\ Cardinality(processedHashes) = Len(mints)
  /\ \A c \in Chains :
       /\ totalMinted[c] = SumOver(AmountMinted, {i \in DOMAIN mints : mints[i].hash.chain = c})
       /\ totalBurned[c] = SumOver(AmountBurned, {i \in DOMAIN burns : burns[i].chain = c})
  /\ totalSupply = Total(AmountMinted) - Total(AmountBurned)
  /\ totalSupply <= MaxSupply

\* The array and the flags name the same validators through any sequence of
\* removals by swap and pop, and leave enough of them for the threshold, when
\* the constructor was given no address twice.
ValidatorsAgree ==
  /\ Range(validators) = isValidator
  /\ Len(validators) = Cardinality(isValidator)
  /\ threshold \in 1..Cardinality(isValidator)

\* The burns of user u to chain c before the k-th burn.
BurnsBefore(k, c, u) == {i \in 1..(k - 1) : burns[i].chain = c /\ burns[i].from = u}

\* The burns of a user to a chain carry the nonces 0, 1, 2... in order, so the
\* chain, the sender and the nonce of an event identify it.
BurnNoncesDense ==
  /\ \A c \in Chains, u \in Users :
       nonces[c][u] = Cardinality(BurnsBefore(Len(burns) + 1, c, u))
  /\ \A k \in DOMAIN burns :
       burns[k].nonce = Cardinality(BurnsBefore(k, burns[k].chain, burns[k].from))

\* The bridge's own records stay coherent through any sequence of calls: the
\* state keeps its types, the two records of the validators agree
\* (addValidator, removeValidator) and burns are numbered (burnPusd).
ArcInv == TypeOK /\ ValidatorsAgree /\ BurnNoncesDense

\* What was minted in the volume window that opened at time start.
MintedIn(start) == SumOver(AmountMinted, {i \in DOMAIN mints : mints[i].window = start})

\* A mint (mintPusd) carries as many signatures as the threshold in force asks
\* for and none of an account that has been removed or was never a validator; and
\* what was minted since the volume window opened, counted from the mints
\* themselves, stays within the cap in force.
MintsSignedAndCapped ==
  [][mints' # mints =>
       LET signatures == Last(mints').signatures IN
       /\ Len(signatures) >= threshold
       /\ \A i \in DOMAIN signatures : \E j \in DOMAIN validators : validators[j] = signatures[i]
       /\ volumeCap > 0 => MintedIn(windowStart)' <= volumeCap]_vars

\* "M-of-N signature verification for minting" (ArcBridge.sol:11): a mint has
\* the signatures of a threshold of validators.  _verifySignatures accepts the
\* same validator's signature several times.
MintsSignedByThreshold ==
  [][mints' # mints => Cardinality(Range(Last(mints').signatures)) >= threshold]_vars
=============================================================================
