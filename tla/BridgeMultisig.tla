--------------------------- MODULE BridgeMultisig ---------------------------
(***************************************************************************)
(* The bridge-multisig contract: signers propose a mint of wPi or a        *)
(* release of USDC, others approve it, and the approval that completes the *)
(* quorum executes it.  A contract call is atomic and a call that returns  *)
(* an error changes nothing (the host rolls its writes back), so an action *)
(* is one successful call; the ledger advances between calls.              *)
(***************************************************************************)
EXTENDS Integers, Sequences, FiniteSets, FiniteSetsExt, Functions, Sums

CONSTANTS
  Accounts,        \* addresses that are, or may become, signers
  Admins,          \* addresses that are, or may become, the admin
  Deposits,        \* 32-byte deposit ids
  NonceOf,         \* NonceOf[d] is the u64 kept of deposit id d
  Amounts,         \* amounts callers ask for, negative or zero ones included
  InitialSigners,  \* signer vectors initialize may be given
  Caps,            \* volume caps; 0 switches the breaker off
  Windows,         \* volume window lengths, in ledgers
  Ages,            \* maximum proposal ages, in ledgers
  VaultFunds,      \* USDC held by the contract when it starts
  MaxProposals,    \* bound on the number of proposals
  MaxLedger        \* bound on the ledger sequence

ASSUME BridgeAssumption ==
  /\ Amounts \subseteq Int
  /\ InitialSigners \subseteq Seq(Accounts)
  /\ Caps \subseteq Int
  /\ Windows \subseteq Nat
  /\ Ages \subseteq Nat
  /\ VaultFunds \in Nat
  /\ MaxProposals \in Nat
  /\ MaxLedger \in Nat
  /\ DOMAIN NonceOf = Deposits

VARIABLES
  admin,          \* DataKey::Admin
  signers,        \* accounts whose DataKey::Signer flag is true
  signerCount,    \* DataKey::SignerCount
  threshold,      \* DataKey::Threshold
  volumeCap,      \* DataKey::VolumeCap
  windowLedgers,  \* DataKey::VolumeWindowLedgers
  windowStart,    \* DataKey::VolumeWindowStart
  volume,         \* DataKey::VolumeInWindow
  maxAge,         \* DataKey::MaxProposalAge
  paused,         \* DataKey::Paused
  proposals,      \* DataKey::Proposal(0 .. proposalCount - 1)
  proposalCount,  \* DataKey::ProposalCount
  nonces,         \* nonces whose DataKey::Nonce is set
  ledger,         \* the host's ledger sequence
  wpiMinted,      \* wPi minted by the contract so far
  usdcVault       \* USDC balance of the contract

config == <<admin, signers, signerCount, threshold, volumeCap, windowLedgers,
            maxAge, paused>>
breaker == <<windowStart, volume>>
ballots == <<proposals, proposalCount, nonces>>
custody == <<wpiMinted, usdcVault>>
vars == <<config, breaker, ballots, ledger, custody>>

Kinds == {"MintWpi", "ReleaseUsdc"}
Statuses == {"Pending", "Executed", "Rejected", "Expired"}
NoLedger == -1     \* executed_at = None
Proposal ==
  [kind : Kinds, amount : Nat \ {0}, deposit : Deposits, approvals : Seq(Accounts),
   status : Statuses, created_at : Nat, executed_at : Nat \cup {NoLedger}]

Ids == DOMAIN proposals
Executed(i) == proposals[i].status = "Executed"
Lapsed(i) == ledger > proposals[i].created_at + maxAge
Processed(d) == NonceOf[d] \in nonces      \* is_deposit_processed

TypeOK ==
  /\ admin \in Admins
  /\ signers \subseteq Accounts
  /\ signerCount \in Nat
  /\ threshold \in Nat \ {0}
  /\ volumeCap \in Caps
  /\ windowLedgers \in Windows
  /\ windowStart \in Nat
  /\ volume \in Nat
  /\ maxAge \in Ages
  /\ paused \in BOOLEAN
  /\ proposalCount \in Nat
  /\ proposals \in [0..(proposalCount - 1) -> Proposal]
  /\ nonces \subseteq {NonceOf[d] : d \in Deposits}
  /\ ledger \in Nat
  /\ wpiMinted \in Nat
  /\ usdcVault \in Nat

-----------------------------------------------------------------------------
(* Deployment: the state initialize leaves.  The signer vector is not       *)
(* checked for repeated addresses, and the count is its length.             *)

ValidThreshold(count, t) == t > 0 /\ t <= count

Init ==
  /\ admin \in Admins
  /\ \E vector \in InitialSigners :
       /\ signers = Range(vector)
       /\ signerCount = Len(vector)
       /\ threshold \in {t \in 0..(Len(vector) + 1) : ValidThreshold(Len(vector), t)}
  /\ volumeCap \in Caps
  /\ windowLedgers \in Windows
  /\ maxAge \in Ages
  /\ paused = FALSE
  /\ windowStart = 0
  /\ volume = 0
  /\ proposals = [i \in {} |-> 0]
  /\ proposalCount = 0
  /\ nonces = {}
  /\ ledger = 0
  /\ wpiMinted = 0
  /\ usdcVault = VaultFunds

-----------------------------------------------------------------------------
(* Proposing.                                                               *)

\* check_volume: against the stored volume, whether or not its window is over.
CheckVolume(amount) == volumeCap > 0 => volume + amount <= volumeCap

\* Fault: propose takes an amount that is not positive.
MayProposeNothing(a, amount, d) ==
  ~paused /\ a \in signers /\ ~Processed(d) /\ CheckVolume(amount)

\* Fault: propose forgets the replay check.
MayProposeAgain(a, amount, d) ==
  ~paused /\ a \in signers /\ amount > 0 /\ CheckVolume(amount)

MayPropose(a, amount, d) ==
  /\ ~paused
  /\ a \in signers
  /\ amount > 0
  /\ ~Processed(d)
  /\ CheckVolume(amount)

Propose(a, kind, amount, d) ==
  /\ proposalCount < MaxProposals
  /\ MayPropose(a, amount, d)
  /\ proposals' =
       [i \in 0..proposalCount |->
          IF i < proposalCount
          THEN proposals[i]
          ELSE [kind |-> kind, amount |-> amount, deposit |-> d,
                approvals |-> <<a>>, status |-> "Pending",
                created_at |-> ledger, executed_at |-> NoLedger]]
  /\ proposalCount' = proposalCount + 1
  /\ UNCHANGED <<config, breaker, nonces, ledger, custody>>

-----------------------------------------------------------------------------
(* Approving, and executing once the quorum is there.                       *)

\* Fault: an approval does not check whether the signer voted before.
MayApproveTwice(a, i) ==
  a \in signers /\ proposals[i].status = "Pending" /\ ~Lapsed(i)

\* Fault: an approval does not check the proposal's status.
MayApproveExecuted(a, i) ==
  /\ a \in signers
  /\ ~Lapsed(i)
  /\ \A k \in 1..Len(proposals[i].approvals) : proposals[i].approvals[k] # a

MayApprove(a, i) ==
  /\ a \in signers
  /\ proposals[i].status = "Pending"
  /\ ~Lapsed(i)
  /\ \A k \in 1..Len(proposals[i].approvals) : proposals[i].approvals[k] # a

\* Approve short of the quorum: only the vote is recorded.
Vote(a, i) ==
  /\ MayApprove(a, i)
  /\ Len(proposals[i].approvals) + 1 < threshold
  /\ proposals' = [proposals EXCEPT ![i].approvals = Append(@, a)]
  /\ UNCHANGED <<config, breaker, proposalCount, nonces, ledger, custody>>

WindowOver == ledger >= windowStart + windowLedgers

AddVolume(amount) ==
  /\ windowStart' = IF WindowOver THEN ledger ELSE windowStart
  /\ volume' = (IF WindowOver THEN 0 ELSE volume) + amount

\* The token call of execute_proposal; a release the vault cannot pay fails
\* the whole approval.
PayOut(p) ==
  \/ /\ p.kind = "MintWpi"
     /\ wpiMinted' = wpiMinted + p.amount
     /\ UNCHANGED usdcVault
  \/ /\ p.kind = "ReleaseUsdc"
     /\ p.amount <= usdcVault
     /\ usdcVault' = usdcVault - p.amount
     /\ UNCHANGED wpiMinted

\* Approve reaching the quorum: execute_proposal runs in the same call.
ApproveAndExecute(a, i) ==
  /\ MayApprove(a, i)
  /\ Len(proposals[i].approvals) + 1 >= threshold
  /\ nonces' = nonces \cup {NonceOf[proposals[i].deposit]}
  /\ AddVolume(proposals[i].amount)
  /\ PayOut(proposals[i])
  /\ proposals' = [proposals EXCEPT ![i].approvals = Append(@, a),
                                    ![i].status = "Executed",
                                    ![i].executed_at = ledger]
  /\ UNCHANGED <<config, proposalCount, ledger>>

-----------------------------------------------------------------------------
(* Administration.  Every call below is refused unless it comes from admin. *)

AddSigner(a) ==
  /\ a \notin signers
  /\ signers' = signers \cup {a}
  /\ signerCount' = signerCount + 1
  /\ UNCHANGED <<admin, threshold, volumeCap, windowLedgers, maxAge, paused>>

\* Fault: a removal may leave fewer signers than the threshold.
RemoveSignerBelowThreshold(a) ==
  /\ a \in signers
  /\ signerCount > 1
  /\ signers' = signers \ {a}
  /\ signerCount' = signerCount - 1
  /\ UNCHANGED <<admin, threshold, volumeCap, windowLedgers, maxAge, paused>>

RemoveSigner(a) ==
  /\ a \in signers
  /\ signerCount > 1
  /\ signerCount - 1 >= threshold
  /\ signers' = signers \ {a}
  /\ signerCount' = signerCount - 1
  /\ UNCHANGED <<admin, threshold, volumeCap, windowLedgers, maxAge, paused>>

SetThreshold(t) ==
  /\ ValidThreshold(signerCount, t)
  /\ threshold' = t
  /\ UNCHANGED <<admin, signers, signerCount, volumeCap, windowLedgers, maxAge, paused>>

SetVolumeCap(cap, window) ==
  /\ volumeCap' = cap
  /\ windowLedgers' = window
  /\ UNCHANGED <<admin, signers, signerCount, threshold, maxAge, paused>>

SetPaused(p) ==      \* pause and unpause, neither of which looks at the flag
  /\ paused' = p
  /\ UNCHANGED <<admin, signers, signerCount, threshold, volumeCap, windowLedgers, maxAge>>

SetAdmin(new) ==
  /\ admin' = new
  /\ UNCHANGED <<signers, signerCount, threshold, volumeCap, windowLedgers, maxAge, paused>>

SetMaxProposalAge(age) ==
  /\ maxAge' = age
  /\ UNCHANGED <<admin, signers, signerCount, threshold, volumeCap, windowLedgers, paused>>

Configure ==
  \/ \E a \in Accounts : AddSigner(a) \/ RemoveSigner(a)
  \/ \E t \in 0..(Cardinality(Accounts) + 1) : SetThreshold(t)
  \/ \E cap \in Caps, window \in Windows : SetVolumeCap(cap, window)
  \/ \E p \in BOOLEAN : SetPaused(p)
  \/ \E new \in Admins : SetAdmin(new)
  \/ \E age \in Ages : SetMaxProposalAge(age)

AdminCall(caller) ==
  /\ caller = admin
  /\ Configure
  /\ UNCHANGED <<breaker, ballots, ledger, custody>>

CloseLedger ==
  /\ ledger < MaxLedger
  /\ ledger' = ledger + 1
  /\ UNCHANGED <<config, breaker, ballots, custody>>

Next ==
  \/ \E a \in Accounts, kind \in Kinds, amount \in Amounts, d \in Deposits :
       Propose(a, kind, amount, d)
  \/ \E a \in Accounts, i \in Ids : Vote(a, i) \/ ApproveAndExecute(a, i)
  \/ \E caller \in Admins : AdminCall(caller)
  \/ CloseLedger

Spec == Init /\ [][Next]_vars

-----------------------------------------------------------------------------
(* Properties.                                                              *)

ExecutedIds == {i \in Ids : Executed(i)}
AmountOf == [i \in Ids |-> proposals[i].amount]

\* The configuration a quorum rests on stays coherent through every sequence of
\* add_signer, remove_signer and set_threshold: the stored count is the number
\* of signers, and the threshold can be reached.  It needs a signer vector
\* without repetitions at initialize, which the code does not check.
QuorumReachable ==
  /\ Cardinality(signers) = signerCount
  /\ threshold \in 1..signerCount

\* What executes was approved by distinct accounts and never by its proposer
\* alone, even with a threshold of one: propose counts the proposer's vote but
\* does not execute.
ExecutedByDistinctVoters ==
  \A i \in Ids :
    /\ IsInjective(proposals[i].approvals)
    /\ Executed(i) => Len(proposals[i].approvals) >= 2

\* Replay protection as the nonce check gives it: a deposit nonce is recorded
\* exactly when something executed under it, and no proposal is ever made under
\* a nonce after something executed under it.
NonceGuardsNewProposals ==
  /\ nonces = {NonceOf[proposals[i].deposit] : i \in ExecutedIds}
  /\ \A i \in ExecutedIds, j \in Ids :
       NonceOf[proposals[i].deposit] = NonceOf[proposals[j].deposit]
       => proposals[j].created_at <= proposals[i].executed_at

\* Custody: wPi minted and USDC released are exactly the amounts of the executed
\* proposals of each kind, each paid once.
CustodyMatchesExecuted ==
  /\ wpiMinted = SumOver(AmountOf, {i \in ExecutedIds : proposals[i].kind = "MintWpi"})
  /\ VaultFunds - usdcVault =
       SumOver(AmountOf, {i \in ExecutedIds : proposals[i].kind = "ReleaseUsdc"})

\* The breaker's counter is the volume executed since its window opened, as
\* long as the window's length is left alone.
VolumeIsWindowSum ==
  volume = SumOver(AmountOf, {i \in ExecutedIds : proposals[i].executed_at >= windowStart})

\* The running totals - the tokens minted and released, and the breaker's
\* counter - are those of the executed proposals (execute_proposal, add_volume).
TotalsMatchExecuted == CustodyMatchesExecuted /\ VolumeIsWindowSum

\* "Nonce tracking for replay protection per deposit/burn" (lib.rs:11): a
\* deposit is minted or released at most once.  Two proposals made for it
\* before either executes both execute: approve does not look at the nonce.
DepositExecutedOnce ==
  \A i, j \in ExecutedIds :
    proposals[i].deposit = proposals[j].deposit => i = j
=============================================================================
