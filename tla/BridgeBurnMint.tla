--------------------------- MODULE BridgeBurnMint ---------------------------
(***************************************************************************)
(* The bridge-burn-mint contract, the Stellar end of the PUSD bridge.      *)
(* burn_pusd locks a holder's PUSD in the contract and emits an event for  *)
(* the relayer; mint_pusd mints PUSD for a burn on the other chain, for a  *)
(* transaction that a quorum of the signers authorised.  An action is one  *)
(* successful call; a refused call is rolled back by the host, including   *)
(* the restart of the volume window that preceded the refusal.             *)
(***************************************************************************)
EXTENDS Integers, Sequences, SequencesExt, FiniteSets, FiniteSetsExt, Functions, Sums

CONSTANTS
  Accounts,        \* addresses that are, or may become, signers
  Chains,          \* destination and source chain symbols
  Hashes,          \* hashes of transactions on the other chain
  Amounts,         \* amounts callers ask for
  InitialSigners,  \* signer vectors initialize may be given
  Caps,            \* volume caps; 0 switches the breaker off
  Windows,         \* volume window lengths, in ledgers
  MintCaps,        \* per-chain mint caps; 0 means none
  Funds,           \* PUSD in circulation on Stellar at the start
  MaxBurns,        \* bound on the number of burns
  MaxMints,        \* bound on the number of mints
  MaxLedger        \* bound on the ledger sequence

\* Addresses are of a fixed length, so there are finitely many.
ASSUME BurnMintAssumption ==
  /\ IsFiniteSet(Accounts)
  /\ Amounts \subseteq Int
  /\ InitialSigners \subseteq Seq(Accounts)
  /\ Caps \subseteq Nat /\ MintCaps \subseteq Nat /\ Windows \subseteq Nat
  /\ Funds \in Nat /\ MaxBurns \in Nat /\ MaxMints \in Nat /\ MaxLedger \in Nat

VARIABLES
  signers,        \* accounts whose DataKey::Signer flag is true
  signerCount,    \* DataKey::SignerCount
  threshold,      \* DataKey::Threshold
  volumeCap,      \* DataKey::VolumeCap
  windowLedgers,  \* DataKey::VolumeWindowLedgers
  mintCap,        \* DataKey::ChainMintCap(chain)
  paused,         \* DataKey::Paused
  windowStart,    \* DataKey::VolumeWindowStart
  volume,         \* DataKey::VolumeInWindow
  nextNonce,      \* DataKey::NextNonce
  processed,      \* hashes whose DataKey::ProcessedHash is set
  chainMinted,    \* DataKey::ChainMinted(chain)
  chainBurned,    \* DataKey::ChainBurned(chain)
  ledger,         \* the host's ledger sequence
  burnEvents,     \* the burn events emitted, in order
  mints,          \* history: the mints made, in order, each with the volume window
                  \* it was made in and whether the breaker counted it
  circulating,    \* PUSD held by anyone but the contract
  locked          \* PUSD held by the contract

config == <<signers, signerCount, threshold, volumeCap, windowLedgers, mintCap, paused>>
breaker == <<windowStart, volume>>
burnState == <<nextNonce, chainBurned, burnEvents, locked>>
mintState == <<processed, chainMinted, mints>>
vars == <<config, breaker, burnState, mintState, ledger, circulating>>

BurnEvent == [dest : Chains, amount : Nat \ {0}, nonce : Nat, tx : Nat, ledger : Nat]
Mint == [chain : Chains, hash : Hashes, amount : Nat \ {0}, by : Seq(Accounts), window : Nat,
         counted : BOOLEAN]

TypeOK ==
  /\ signers \subseteq Accounts
  /\ signerCount \in Nat
  /\ threshold \in Nat \ {0}
  /\ volumeCap \in Caps
  /\ windowLedgers \in Windows
  /\ mintCap \in [Chains -> MintCaps \cup {0}]
  /\ paused \in BOOLEAN
  /\ windowStart \in Nat
  /\ volume \in Nat
  /\ nextNonce \in Nat
  /\ processed \subseteq Hashes
  /\ chainMinted \in [Chains -> Nat]
  /\ chainBurned \in [Chains -> Nat]
  /\ ledger \in Nat
  /\ burnEvents \in Seq(BurnEvent)
  /\ mints \in Seq(Mint)
  /\ circulating \in Nat
  /\ locked \in Nat

ValidThreshold(count, t) == t > 0 /\ t <= count

Init ==
  /\ \E vector \in InitialSigners :
       /\ signers = Range(vector)
       /\ signerCount = Len(vector)
       /\ threshold \in {t \in 0..(Len(vector) + 1) : ValidThreshold(Len(vector), t)}
  /\ volumeCap \in Caps
  /\ windowLedgers \in Windows
  /\ mintCap = [c \in Chains |-> 0]
  /\ paused = FALSE
  /\ windowStart = 0 /\ volume = 0
  /\ nextNonce = 0
  /\ processed = {}
  /\ chainMinted = [c \in Chains |-> 0]
  /\ chainBurned = [c \in Chains |-> 0]
  /\ ledger = 0
  /\ burnEvents = <<>> /\ mints = <<>>
  /\ circulating = Funds /\ locked = 0

-----------------------------------------------------------------------------
(* Burning: PUSD bridged to another chain.                                  *)

\* A transaction may burn more than once, through a contract that calls the
\* bridge twice; otherwise every burn has a transaction of its own.
BurnTransactions ==
  {Len(burnEvents) + 1}
    \cup {burnEvents[i].tx : i \in {j \in DOMAIN burnEvents :
                                      /\ j = Len(burnEvents)
                                      /\ burnEvents[j].ledger = ledger}}

ValidAmount(amount) == amount > 0

\* Fault: the nonce is read but not advanced.
NonceKept == nextNonce

NonceAfterBurn == nextNonce + 1

Credited(totals, chain, amount) == [totals EXCEPT ![chain] = @ + amount]

BurnPusd(amount, dest, tx) ==
  /\ Len(burnEvents) < MaxBurns
  /\ ~paused
  /\ ValidAmount(amount)
  /\ amount <= circulating
  /\ nextNonce' = NonceAfterBurn
  /\ chainBurned' = Credited(chainBurned, dest, amount)
  /\ circulating' = circulating - amount
  /\ locked' = locked + amount
  /\ burnEvents' = Append(burnEvents, [dest |-> dest, amount |-> amount,
                                       nonce |-> nextNonce, tx |-> tx, ledger |-> ledger])
  /\ UNCHANGED <<config, breaker, mintState, ledger>>

-----------------------------------------------------------------------------
(* Minting: PUSD bridged from another chain.                                *)

WindowOver == ledger >= windowStart + windowLedgers
OpenVolume == IF WindowOver THEN 0 ELSE volume

\* Fault: the volume restarts after the window but the window does not move.
CheckVolumeFixedWindow(amount) ==
  \/ /\ volumeCap = 0
     /\ UNCHANGED breaker
  \/ /\ volumeCap # 0
     /\ OpenVolume + amount <= volumeCap
     /\ volume' = OpenVolume + amount
     /\ UNCHANGED windowStart

\* check_volume_circuit_breaker; with a cap of zero it leaves the window alone.
CheckVolumeCircuitBreaker(amount) ==
  \/ /\ volumeCap = 0
     /\ UNCHANGED breaker
  \/ /\ volumeCap # 0
     /\ OpenVolume + amount <= volumeCap
     /\ windowStart' = IF WindowOver THEN ledger ELSE windowStart
     /\ volume' = OpenVolume + amount

\* Fault: repeated addresses count several times.
QuorumOfVotes(by) == Len(by) >= threshold /\ Range(by) \subseteq signers

\* Every address listed authorised the call, is a signer and appears once.
Quorum(by) ==
  /\ Len(by) >= threshold
  /\ \A i \in 1..Len(by) : by[i] \in signers /\ \A j \in 1..(i - 1) : by[j] # by[i]

WithinMintCap(chain, amount) ==
  mintCap[chain] > 0 => chainMinted[chain] + amount <= mintCap[chain]

\* Fault: the replay check is forgotten.
NotReplayedEver(hash) == TRUE

NotReplayed(hash) == hash \notin processed

MintPusd(amount, chain, hash, by) ==
  /\ Len(mints) < MaxMints
  /\ ~paused
  /\ ValidAmount(amount)
  /\ CheckVolumeCircuitBreaker(amount)
  /\ NotReplayed(hash)
  /\ Quorum(by)
  /\ WithinMintCap(chain, amount)
  /\ processed' = processed \cup {hash}
  /\ chainMinted' = Credited(chainMinted, chain, amount)
  /\ circulating' = circulating + amount
  /\ mints' = Append(mints, [chain |-> chain, hash |-> hash, amount |-> amount,
                             by |-> by, window |-> windowStart',
                             counted |-> volumeCap > 0])
  /\ UNCHANGED <<config, burnState, ledger>>

-----------------------------------------------------------------------------
(* Administration, each call with the admin's authorisation.                *)

AddSigner(a) ==
  /\ a \notin signers
  /\ signers' = signers \cup {a}
  /\ signerCount' = signerCount + 1
  /\ UNCHANGED <<threshold, volumeCap, windowLedgers, mintCap, paused>>

RemoveSigner(a) ==
  /\ a \in signers
  /\ signerCount - 1 >= threshold
  /\ signers' = signers \ {a}
  /\ signerCount' = signerCount - 1
  /\ UNCHANGED <<threshold, volumeCap, windowLedgers, mintCap, paused>>

SetThreshold(t) ==
  /\ ValidThreshold(signerCount, t)
  /\ threshold' = t
  /\ UNCHANGED <<signers, signerCount, volumeCap, windowLedgers, mintCap, paused>>

SetVolumeCap(cap, window) ==
  /\ volumeCap' = cap
  /\ windowLedgers' = window
  /\ UNCHANGED <<signers, signerCount, threshold, mintCap, paused>>

SetChainMintCap(chain, cap) ==
  /\ mintCap' = [mintCap EXCEPT ![chain] = cap]
  /\ UNCHANGED <<signers, signerCount, threshold, volumeCap, windowLedgers, paused>>

Pause ==
  /\ ~paused
  /\ paused' = TRUE
  /\ UNCHANGED <<signers, signerCount, threshold, volumeCap, windowLedgers, mintCap>>

Unpause ==
  /\ paused
  /\ paused' = FALSE
  /\ UNCHANGED <<signers, signerCount, threshold, volumeCap, windowLedgers, mintCap>>

AdminCall ==
  /\ \/ \E a \in Accounts : AddSigner(a) \/ RemoveSigner(a)
     \/ \E t \in 1..Cardinality(Accounts) : SetThreshold(t)
     \/ \E cap \in Caps, window \in Windows : SetVolumeCap(cap, window)
     \/ \E chain \in Chains, cap \in MintCaps : SetChainMintCap(chain, cap)
     \/ Pause
     \/ Unpause
  /\ UNCHANGED <<breaker, burnState, mintState, ledger, circulating>>

CloseLedger ==
  /\ ledger < MaxLedger
  /\ ledger' = ledger + 1
  /\ UNCHANGED <<config, breaker, burnState, mintState, circulating>>

\* Signer lists a caller may pass, repetitions included.
SignerLists == UNION {[1..n -> Accounts] : n \in 0..Cardinality(Accounts)}

Next ==
  \/ \E amount \in Amounts, dest \in Chains, tx \in BurnTransactions :
       BurnPusd(amount, dest, tx)
  \/ \E amount \in Amounts, chain \in Chains, hash \in Hashes, by \in SignerLists :
       MintPusd(amount, chain, hash, by)
  \/ AdminCall
  \/ CloseLedger

Spec == Init /\ [][Next]_vars

-----------------------------------------------------------------------------
(* Properties.                                                              *)

\* The mints the breaker counted in the window that opened at ledger start.
CountedIn(start) == {i \in DOMAIN mints : mints[i].counted /\ mints[i].window = start}
AmountMinted == [i \in DOMAIN mints |-> mints[i].amount]
AmountBurned == [i \in DOMAIN burnEvents |-> burnEvents[i].amount]

\* Each source transaction is paid at most once and the processed hashes are
\* those of the mints made, however calls, refusals and configuration changes
\* interleave; the running totals per chain are those of the burns and mints
\* made, what was burned is what the contract holds, and PUSD is created by
\* mints only.
BooksBalance ==
  /\ \A i, j \in DOMAIN mints : mints[i].hash = mints[j].hash => i = j
  /\ processed = {mints[i].hash : i \in DOMAIN mints}
  /\ \A c \in Chains :
       /\ chainMinted[c] = SumOver(AmountMinted, {i \in DOMAIN mints : mints[i].chain = c})
       /\ chainBurned[c] =
            SumOver(AmountBurned, {i \in DOMAIN burnEvents : burnEvents[i].dest = c})
  /\ locked = Total(AmountBurned)
  /\ circulating + locked = Funds + Total(AmountMinted)

\* What identifies a burn to the relayer, its transaction and its nonce, is
\* unique even when one transaction burns several times.
BurnsIdentified ==
  \A i, j \in DOMAIN burnEvents :
    /\ burnEvents[i].tx = burnEvents[j].tx
    /\ burnEvents[i].nonce = burnEvents[j].nonce
    => i = j

\* The quorum can be reached through any sequence of signer and threshold
\* changes, when initialize was given no address twice.
QuorumReachable ==
  /\ Cardinality(signers) = signerCount
  /\ threshold \in 1..signerCount

\* The contract's own records stay usable through any sequence of calls: the
\* state keeps its types, a quorum can be reached (add_signer, remove_signer,
\* set_threshold) and every burn can be told from the others (burn_pusd).
BurnMintInv == TypeOK /\ QuorumReachable /\ BurnsIdentified

\* A mint (mint_pusd) is backed by a threshold of different current signers; it
\* keeps the total minted for its chain, not just the amount, within the chain's
\* cap; and, by the volume breaker, whatever was minted since the window opened
\* while a cap was set, counted from the mints themselves, within the cap in force.
MintsBackedAndCapped ==
  [][mints' # mints =>
       LET m == Last(mints') IN
       /\ Cardinality(Range(m.by) \cap signers) >= threshold
       /\ mintCap[m.chain] > 0 => chainMinted'[m.chain] <= mintCap[m.chain]
       /\ volumeCap > 0 => SumOver(AmountMinted, CountedIn(windowStart))' <= volumeCap]_vars
=============================================================================
