------------------------ MODULE BridgeMultisigProofs ------------------------
(* Proofs about the bridge-multisig contract, for all signers, deposits,    *)
(* amounts, caps, windows and ages, and any number of calls.                *)
EXTENDS BridgeMultisig, SumTheorems, FiniteSetTheorems, TLAPS

-----------------------------------------------------------------------------
(* Type correctness.                                                        *)

LEMMA InitTypeOK == Init => TypeOK
<1> SUFFICES ASSUME Init PROVE TypeOK
  OBVIOUS
<1>1. PICK vector \in InitialSigners :
        /\ signers = Range(vector)
        /\ signerCount = Len(vector)
        /\ threshold \in {t \in 0..(Len(vector) + 1) : ValidThreshold(Len(vector), t)}
  BY DEF Init
<1>2. vector \in Seq(Accounts)
  BY BridgeAssumption
<1>3. signers \subseteq Accounts
  BY <1>1, <1>2 DEF Range
<1>4. signerCount \in Nat /\ threshold \in Nat \ {0}
  BY <1>1, <1>2 DEF ValidThreshold
<1>5. proposals \in [0..(proposalCount - 1) -> Proposal]
  BY DEF Init
<1> QED
  BY <1>3, <1>4, <1>5, BridgeAssumption DEF Init, TypeOK

\* A new proposal is a Proposal, so proposing keeps the table well typed.
LEMMA ProposeTypeOK ==
  ASSUME TypeOK, NEW a \in Accounts, NEW kind \in Kinds, NEW amount \in Amounts,
         NEW d \in Deposits, Propose(a, kind, amount, d)
  PROVE  TypeOK'
<1>1. proposalCount' = proposalCount + 1 /\ proposalCount' \in Nat
  BY DEF TypeOK, Propose
<1>2. \A i \in 0..proposalCount : proposals'[i] \in Proposal
  <2> TAKE i \in 0..proposalCount
  <2>1. CASE i < proposalCount
    BY <2>1 DEF TypeOK, Propose
  <2>2. CASE ~(i < proposalCount)
    <3>1. amount \in Nat \ {0}
      BY BridgeAssumption DEF Propose, MayPropose
    <3> QED
      BY <2>2, <3>1 DEF TypeOK, Propose, Proposal, Statuses, NoLedger
  <2> QED BY <2>1, <2>2
<1>3. proposals' \in [0..(proposalCount' - 1) -> Proposal]
  BY <1>1, <1>2 DEF TypeOK, Propose
<1> QED
  BY <1>1, <1>3 DEF TypeOK, Propose, config, breaker, custody

\* Approving changes the votes, and on execution the status, of one proposal.
LEMMA VoteTypeOK ==
  ASSUME TypeOK, NEW a \in Accounts, NEW i \in Ids, Vote(a, i)
  PROVE  TypeOK'
<1>1. proposals[i] \in Proposal
  BY DEF TypeOK, Ids
<1>0. Append(proposals[i].approvals, a) \in Seq(Accounts)
  BY <1>1 DEF Proposal
<1>2. [proposals[i] EXCEPT !.approvals = Append(proposals[i].approvals, a)] \in Proposal
  BY <1>1, <1>0 DEF Proposal
<1>3. proposals' \in [0..(proposalCount' - 1) -> Proposal]
  BY <1>2 DEF TypeOK, Vote, Ids
<1> QED
  BY <1>3 DEF TypeOK, Vote, config, breaker, custody

LEMMA ExecuteTypeOK ==
  ASSUME TypeOK, NEW a \in Accounts, NEW i \in Ids, ApproveAndExecute(a, i)
  PROVE  TypeOK'
<1>1. proposals[i] \in Proposal /\ proposals[i].amount \in Nat \ {0} /\ proposals[i].deposit \in Deposits
  BY DEF TypeOK, Ids, Proposal
<1>0. Append(proposals[i].approvals, a) \in Seq(Accounts)
  BY <1>1 DEF Proposal
<1>2. [proposals[i] EXCEPT !.approvals = Append(proposals[i].approvals, a),
                           !.status = "Executed", !.executed_at = ledger] \in Proposal
  BY <1>1, <1>0 DEF Proposal, Statuses, TypeOK
<1>3. proposals' \in [0..(proposalCount' - 1) -> Proposal]
  BY <1>2 DEF TypeOK, ApproveAndExecute, Ids
<1>4. windowStart' \in Nat /\ volume' \in Nat
  BY <1>1 DEF TypeOK, ApproveAndExecute, AddVolume
<1>5. wpiMinted' \in Nat /\ usdcVault' \in Nat
  <2>1. PayOut(proposals[i]) /\ wpiMinted \in Nat /\ usdcVault \in Nat
    BY DEF TypeOK, ApproveAndExecute
  <2> DEFINE amount == proposals[i].amount
  <2>2. amount \in Nat
    BY <1>1
  <2>3. \/ wpiMinted' = wpiMinted + amount /\ usdcVault' = usdcVault
        \/ amount <= usdcVault /\ usdcVault' = usdcVault - amount /\ wpiMinted' = wpiMinted
    BY <2>1 DEF PayOut
  <2> HIDE DEF amount
  <2> QED
    BY <2>1, <2>2, <2>3
<1>6. nonces' \subseteq {NonceOf[d] : d \in Deposits}
  BY <1>1 DEF TypeOK, ApproveAndExecute
<1> QED
  BY <1>3, <1>4, <1>5, <1>6 DEF TypeOK, ApproveAndExecute, config

LEMMA AdminTypeOK ==
  ASSUME TypeOK, NEW caller \in Admins, AdminCall(caller)
  PROVE  TypeOK'
<1>1. /\ admin' \in Admins
      /\ signers' \subseteq Accounts
      /\ signerCount' \in Nat
      /\ threshold' \in Nat \ {0}
      /\ volumeCap' \in Caps
      /\ windowLedgers' \in Windows
      /\ maxAge' \in Ages
      /\ paused' \in BOOLEAN
  <2> USE DEF TypeOK
  <2>1. CASE \E a \in Accounts : AddSigner(a)
    BY <2>1 DEF AddSigner
  <2>2. CASE \E a \in Accounts : RemoveSigner(a)
    BY <2>2 DEF RemoveSigner
  <2>3. CASE \E t \in 0..(Cardinality(Accounts) + 1) : SetThreshold(t)
    BY <2>3 DEF SetThreshold, ValidThreshold
  <2>4. CASE \E cap \in Caps, window \in Windows : SetVolumeCap(cap, window)
    BY <2>4 DEF SetVolumeCap
  <2>5. CASE \E p \in BOOLEAN : SetPaused(p)
    BY <2>5 DEF SetPaused
  <2>6. CASE \E new \in Admins : SetAdmin(new)
    BY <2>6 DEF SetAdmin
  <2>7. CASE \E age \in Ages : SetMaxProposalAge(age)
    BY <2>7 DEF SetMaxProposalAge
  <2> QED
    BY <2>1, <2>2, <2>3, <2>4, <2>5, <2>6, <2>7 DEF AdminCall, Configure
<1> QED
  BY <1>1 DEF TypeOK, AdminCall, breaker, ballots, custody

LEMMA NextTypeOK == TypeOK /\ [Next]_vars => TypeOK'
<1> SUFFICES ASSUME TypeOK, [Next]_vars PROVE TypeOK'
  OBVIOUS
<1>1. CASE \E a \in Accounts, kind \in Kinds, amount \in Amounts, d \in Deposits :
             Propose(a, kind, amount, d)
  BY <1>1, ProposeTypeOK
<1>2. CASE \E a \in Accounts, i \in Ids : Vote(a, i)
  BY <1>2, VoteTypeOK
<1>3. CASE \E a \in Accounts, i \in Ids : ApproveAndExecute(a, i)
  BY <1>3, ExecuteTypeOK
<1>4. CASE \E caller \in Admins : AdminCall(caller)
  BY <1>4, AdminTypeOK
<1>5. CASE CloseLedger
  BY <1>5 DEF CloseLedger, TypeOK, config, breaker, ballots, custody
<1>6. CASE UNCHANGED vars
  BY <1>6 DEF vars, TypeOK, config, breaker, ballots, custody
<1> QED
  BY <1>1, <1>2, <1>3, <1>4, <1>5, <1>6 DEF Next

\* Every storage entry keeps its type through any sequence of calls.
THEOREM TypeCorrect == Spec => []TypeOK
  BY InitTypeOK, NextTypeOK, PTL DEF Spec

-----------------------------------------------------------------------------
(* Votes and replay protection.                                             *)

\* Ledgers only advance, so what is recorded is never in the future.
RecordedInThePast ==
  \A i \in Ids :
    /\ proposals[i].created_at <= ledger
    /\ Executed(i) => proposals[i].executed_at \in Nat

\* The proposer's own vote is there from the start.
ProposerVoted == \A i \in Ids : Len(proposals[i].approvals) >= 1

\* The inductive invariant behind the two theorems below.
LedgerInv ==
  /\ TypeOK
  /\ RecordedInThePast
  /\ ProposerVoted
  /\ ExecutedByDistinctVoters
  /\ NonceGuardsNewProposals

LEMMA InitLedgerInv == Init => LedgerInv
<1> SUFFICES ASSUME Init PROVE LedgerInv
  OBVIOUS
<1>1. Ids = {} /\ nonces = {}
  BY DEF Init, Ids
<1> QED
  BY <1>1, InitTypeOK DEF LedgerInv, RecordedInThePast, ProposerVoted, ExecutedByDistinctVoters,
                          NonceGuardsNewProposals, ExecutedIds

\* A new proposal carries one vote and is made under an unused nonce.
LEMMA ProposeLedgerInv ==
  ASSUME LedgerInv, NEW a \in Accounts, NEW kind \in Kinds, NEW amount \in Amounts,
         NEW d \in Deposits, Propose(a, kind, amount, d)
  PROVE  LedgerInv'
<1>1. TypeOK /\ TypeOK'
  BY ProposeTypeOK DEF LedgerInv
<1>2. /\ Ids = 0..(proposalCount - 1)
      /\ Ids' = 0..proposalCount
      /\ proposalCount \in Nat
      /\ ledger' = ledger /\ ledger \in Nat
      /\ nonces' = nonces
  BY <1>1 DEF TypeOK, Ids, Propose
<1>3. /\ \A i \in Ids : proposals'[i] = proposals[i]
      /\ proposals'[proposalCount].approvals = <<a>>
      /\ proposals'[proposalCount].status = "Pending"
      /\ proposals'[proposalCount].deposit = d
      /\ proposals'[proposalCount].created_at = ledger
  BY <1>2 DEF Propose
<1>4. ExecutedIds' = ExecutedIds /\ ExecutedIds \subseteq Ids
  BY <1>2, <1>3 DEF ExecutedIds, Executed
<1>5. RecordedInThePast'
  BY <1>2, <1>3 DEF LedgerInv, RecordedInThePast, Executed
<1>6. ExecutedByDistinctVoters'
  BY <1>2, <1>3 DEF LedgerInv, ExecutedByDistinctVoters, Executed, IsInjective
<1>7. NonceGuardsNewProposals'
  <2>1. nonces' = {NonceOf[proposals'[i].deposit] : i \in ExecutedIds'}
    BY <1>2, <1>3, <1>4 DEF LedgerInv, NonceGuardsNewProposals
  <2>2. NonceOf[d] \notin nonces
    BY DEF Propose, MayPropose, Processed
  <2>3. ASSUME NEW i \in ExecutedIds', NEW j \in Ids',
               NonceOf[proposals'[i].deposit] = NonceOf[proposals'[j].deposit]
        PROVE  proposals'[j].created_at <= proposals'[i].executed_at
    <3>1. i \in Ids /\ i \in ExecutedIds /\ NonceOf[proposals[i].deposit] \in nonces
      BY <1>4 DEF LedgerInv, NonceGuardsNewProposals
    <3>2. j # proposalCount
      BY <2>2, <2>3, <3>1, <1>3
    <3> QED
      BY <1>2, <1>3, <2>3, <3>1, <3>2 DEF LedgerInv, NonceGuardsNewProposals
  <2> QED
    BY <2>1, <2>3 DEF NonceGuardsNewProposals
<1>8. ProposerVoted'
  <2>1. Len(proposals'[proposalCount].approvals) >= 1
    BY <1>3
  <2>2. \A i \in Ids : Len(proposals'[i].approvals) >= 1
    BY <1>3 DEF LedgerInv, ProposerVoted
  <2> QED
    BY <1>2, <2>1, <2>2 DEF ProposerVoted
<1> QED
  BY <1>1, <1>5, <1>6, <1>7, <1>8 DEF LedgerInv

LEMMA VoteLedgerInv ==
  ASSUME LedgerInv, NEW a \in Accounts, NEW i \in Ids, Vote(a, i)
  PROVE  LedgerInv'
<1>1. TypeOK /\ TypeOK'
  BY VoteTypeOK DEF LedgerInv
<1>2. Ids' = Ids /\ ledger' = ledger /\ nonces' = nonces
  BY <1>1 DEF Vote, Ids, TypeOK
<1>3. \A j \in Ids :
        /\ proposals'[j].status = proposals[j].status
        /\ proposals'[j].deposit = proposals[j].deposit
        /\ proposals'[j].created_at = proposals[j].created_at
        /\ proposals'[j].executed_at = proposals[j].executed_at
  BY <1>1 DEF Vote, Ids, TypeOK, Proposal
<1>4. ExecutedIds' = ExecutedIds /\ ExecutedIds \subseteq Ids
  BY <1>2, <1>3 DEF ExecutedIds, Executed
<1>5. RecordedInThePast'
  BY <1>2, <1>3 DEF LedgerInv, RecordedInThePast, Executed
<1>6. ExecutedByDistinctVoters'
  <2>1. \A j \in Ids : j # i => proposals'[j] = proposals[j]
    BY <1>1 DEF Vote, Ids, TypeOK
  <2>2. proposals[i].approvals \in Seq(Accounts) /\ ~Executed(i)
    BY <1>1 DEF Ids, TypeOK, Proposal, Vote, MayApprove, Executed
  <2>3. proposals'[i].approvals = Append(proposals[i].approvals, a)
    BY <1>1 DEF Vote, Ids, TypeOK, Proposal
  <2>4. IsInjective(proposals'[i].approvals)
    BY <2>2, <2>3, AppendDistinct
       DEF LedgerInv, ExecutedByDistinctVoters, Vote, MayApprove
  <2>5. ~Executed(i)'
    BY <2>2, <1>3 DEF Executed
  <2> QED
    BY <1>2, <2>1, <2>4, <2>5 DEF LedgerInv, ExecutedByDistinctVoters, Executed
<1>7. NonceGuardsNewProposals'
  BY <1>2, <1>3, <1>4 DEF LedgerInv, NonceGuardsNewProposals
<1>8. ProposerVoted'
  <2>1. \A j \in Ids : j # i => proposals'[j] = proposals[j]
    BY <1>1 DEF Vote, Ids, TypeOK
  <2>2. Len(proposals'[i].approvals) = Len(proposals[i].approvals) + 1
    <3>1. proposals[i].approvals \in Seq(Accounts)
      BY <1>1 DEF Ids, TypeOK, Proposal
    <3>2. proposals'[i].approvals = Append(proposals[i].approvals, a)
      BY <1>1 DEF Vote, Ids, TypeOK, Proposal
    <3> QED
      BY <3>1, <3>2
  <2> QED
    BY <1>2, <2>1, <2>2 DEF LedgerInv, ProposerVoted
<1> QED
  BY <1>1, <1>5, <1>6, <1>7, <1>8 DEF LedgerInv

\* Executing i records its nonce; every proposal under it already exists.
LEMMA ExecuteLedgerInv ==
  ASSUME LedgerInv, NEW a \in Accounts, NEW i \in Ids, ApproveAndExecute(a, i)
  PROVE  LedgerInv'
<1>1. TypeOK /\ TypeOK' /\ ledger \in Nat
  BY ExecuteTypeOK DEF LedgerInv, TypeOK
<1>2. /\ Ids' = Ids
      /\ ledger' = ledger
      /\ nonces' = nonces \cup {NonceOf[proposals[i].deposit]}
  BY <1>1 DEF ApproveAndExecute, Ids, TypeOK
<1>3. /\ \A j \in Ids : j # i => proposals'[j] = proposals[j]
      /\ \A j \in Ids : /\ proposals'[j].deposit = proposals[j].deposit
                        /\ proposals'[j].created_at = proposals[j].created_at
      /\ proposals'[i].approvals = Append(proposals[i].approvals, a)
      /\ proposals'[i].status = "Executed"
      /\ proposals'[i].executed_at = ledger
  BY <1>1 DEF ApproveAndExecute, Ids, TypeOK, Proposal
<1>4. ExecutedIds' = ExecutedIds \cup {i} /\ ExecutedIds \subseteq Ids
  BY <1>2, <1>3 DEF ExecutedIds, Executed
<1>5. RecordedInThePast'
  BY <1>1, <1>2, <1>3 DEF LedgerInv, RecordedInThePast, Executed
<1>6. ExecutedByDistinctVoters'
  <2>1. proposals[i].approvals \in Seq(Accounts)
    BY <1>1 DEF Ids, TypeOK, Proposal
  <2>2. IsInjective(proposals'[i].approvals)
    <3>1. /\ IsInjective(proposals[i].approvals)
          /\ \A k \in 1..Len(proposals[i].approvals) : proposals[i].approvals[k] # a
      BY DEF LedgerInv, ExecutedByDistinctVoters, ApproveAndExecute, MayApprove
    <3> QED
      BY <2>1, <3>1, <1>3, AppendDistinct
  <2>3. Len(proposals'[i].approvals) >= 2
    BY <2>1, <1>3 DEF LedgerInv, ProposerVoted
  <2> QED
    BY <1>2, <1>3, <2>2, <2>3 DEF LedgerInv, ExecutedByDistinctVoters, Executed
<1>7. NonceGuardsNewProposals'
  <2>1. nonces' = {NonceOf[proposals'[j].deposit] : j \in ExecutedIds'}
    BY <1>2, <1>3, <1>4 DEF LedgerInv, NonceGuardsNewProposals
  <2>2. ASSUME NEW e \in ExecutedIds', NEW j \in Ids',
               NonceOf[proposals'[e].deposit] = NonceOf[proposals'[j].deposit]
        PROVE  proposals'[j].created_at <= proposals'[e].executed_at
    <3>1. CASE e = i
      BY <3>1, <1>2, <1>3 DEF LedgerInv, RecordedInThePast
    <3>2. CASE e # i
      BY <3>2, <1>2, <1>3, <1>4, <2>2 DEF LedgerInv, NonceGuardsNewProposals
    <3> QED
      BY <3>1, <3>2
  <2> QED
    BY <2>1, <2>2 DEF NonceGuardsNewProposals
<1>8. ProposerVoted'
  <2>1. Len(proposals'[i].approvals) = Len(proposals[i].approvals) + 1
    BY <1>1, <1>3 DEF Ids, TypeOK, Proposal
  <2> QED
    BY <1>2, <1>3, <2>1 DEF LedgerInv, ProposerVoted
<1> QED
  BY <1>1, <1>5, <1>6, <1>7, <1>8 DEF LedgerInv

\* Every other step leaves the proposals alone and never turns the clock back.
LEMMA OtherLedgerInv ==
  ASSUME LedgerInv, TypeOK', UNCHANGED ballots, ledger' >= ledger
  PROVE  LedgerInv'
<1>1. proposals' = proposals /\ nonces' = nonces /\ Ids' = Ids /\ ExecutedIds' = ExecutedIds
  BY DEF ballots, Ids, ExecutedIds, Executed
<1>2. RecordedInThePast'
  <2>1. ledger \in Nat /\ ledger' \in Nat
    BY DEF LedgerInv, TypeOK
  <2>2. \A i \in Ids : proposals[i].created_at \in Nat
    BY DEF LedgerInv, TypeOK, Ids, Proposal
  <2>3. \A i \in Ids : proposals[i].created_at <= ledger'
    BY <2>1, <2>2 DEF LedgerInv, RecordedInThePast
  <2> QED
    BY <1>1, <2>3 DEF LedgerInv, RecordedInThePast, Executed
<1> QED
  BY <1>1, <1>2 DEF LedgerInv, ExecutedByDistinctVoters, NonceGuardsNewProposals,
                    ProposerVoted, Executed

LEMMA NextLedgerInv == LedgerInv /\ [Next]_vars => LedgerInv'
<1> SUFFICES ASSUME LedgerInv, [Next]_vars PROVE LedgerInv'
  OBVIOUS
<1>a. TypeOK /\ TypeOK' /\ ledger \in Nat
  BY NextTypeOK DEF LedgerInv, TypeOK
<1>1. CASE \E a \in Accounts, kind \in Kinds, amount \in Amounts, d \in Deposits :
             Propose(a, kind, amount, d)
  BY <1>1, ProposeLedgerInv
<1>2. CASE \E a \in Accounts, i \in Ids : Vote(a, i)
  BY <1>2, VoteLedgerInv
<1>3. CASE \E a \in Accounts, i \in Ids : ApproveAndExecute(a, i)
  BY <1>3, ExecuteLedgerInv
<1>4. CASE \E caller \in Admins : AdminCall(caller)
  <2>1. UNCHANGED ballots /\ ledger' >= ledger
    BY <1>a, <1>4 DEF AdminCall
  <2> QED
    BY <1>a, <2>1, OtherLedgerInv
<1>5. CASE CloseLedger
  <2>1. UNCHANGED ballots /\ ledger' >= ledger
    BY <1>a, <1>5 DEF CloseLedger
  <2> QED
    BY <1>a, <2>1, OtherLedgerInv
<1>6. CASE UNCHANGED vars
  <2>1. UNCHANGED ballots /\ ledger' >= ledger
    BY <1>a, <1>6 DEF vars
  <2> QED
    BY <1>a, <2>1, OtherLedgerInv
<1> QED
  BY <1>1, <1>2, <1>3, <1>4, <1>5, <1>6 DEF Next

LEMMA LedgerInvHolds == Spec => []LedgerInv
  BY InitLedgerInv, NextLedgerInv, PTL DEF Spec

\* Nothing is minted or released on one account's word: the votes of every
\* proposal are distinct and at least two stand behind whatever executed.
THEOREM DistinctVoters == Spec => []ExecutedByDistinctVoters
<1>1. LedgerInv => ExecutedByDistinctVoters
  BY DEF LedgerInv
<1> QED
  BY <1>1, LedgerInvHolds, PTL

\* Once something executed under a deposit nonce, no proposal is made under it,
\* whatever the deposit ids, their collisions and the order of the calls.
THEOREM NonceGuards == Spec => []NonceGuardsNewProposals
<1>1. LedgerInv => NonceGuardsNewProposals
  BY DEF LedgerInv
<1> QED
  BY <1>1, LedgerInvHolds, PTL

-----------------------------------------------------------------------------
(* The quorum can be reached.                                               *)

\* initialize counts the entries of the vector it is given; the count is that
\* of the signers when no address is repeated.
DistinctVectors == \A v \in InitialSigners : IsInjective(v)

QuorumInv ==
  /\ TypeOK
  /\ IsFiniteSet(signers)
  /\ QuorumReachable

LEMMA InitQuorumInv ==
  ASSUME DistinctVectors
  PROVE  Init => QuorumInv
<1> SUFFICES ASSUME Init PROVE QuorumInv
  OBVIOUS
<1>1. PICK vector \in InitialSigners :
        /\ signers = Range(vector)
        /\ signerCount = Len(vector)
        /\ threshold \in {t \in 0..(Len(vector) + 1) : ValidThreshold(Len(vector), t)}
  BY DEF Init
<1>2. vector \in Seq(Accounts) /\ IsInjective(vector)
  BY BridgeAssumption DEF DistinctVectors
<1>3. IsFiniteSet(signers) /\ Cardinality(signers) = Len(vector)
  BY <1>1, <1>2, DistinctCount
<1>4. threshold \in 1..signerCount
  BY <1>1, <1>2 DEF ValidThreshold
<1> QED
  BY <1>1, <1>3, <1>4, InitTypeOK DEF QuorumInv, QuorumReachable

LEMMA NextQuorumInv == QuorumInv /\ [Next]_vars => QuorumInv'
<1> SUFFICES ASSUME QuorumInv, [Next]_vars PROVE QuorumInv'
  OBVIOUS
<1>1. TypeOK' /\ signerCount \in Nat /\ threshold \in Nat
  BY NextTypeOK DEF QuorumInv, TypeOK
<1>2. CASE UNCHANGED <<signers, signerCount, threshold>>
  BY <1>1, <1>2 DEF QuorumInv, QuorumReachable
<1>3. CASE \E a \in Accounts : AddSigner(a)
  <2>1. PICK a \in Accounts : AddSigner(a)
    BY <1>3
  <2>2. IsFiniteSet(signers') /\ Cardinality(signers') = Cardinality(signers) + 1
    BY <2>1, FS_AddElement DEF AddSigner, QuorumInv
  <2> QED
    BY <1>1, <2>1, <2>2 DEF AddSigner, QuorumInv, QuorumReachable
<1>4. CASE \E a \in Accounts : RemoveSigner(a)
  <2>1. PICK a \in Accounts : RemoveSigner(a)
    BY <1>4
  <2>2. IsFiniteSet(signers') /\ Cardinality(signers') = Cardinality(signers) - 1
    BY <2>1, FS_RemoveElement DEF RemoveSigner, QuorumInv
  <2> QED
    BY <1>1, <2>1, <2>2 DEF RemoveSigner, QuorumInv, QuorumReachable
<1>5. CASE \E t \in 0..(Cardinality(Accounts) + 1) : SetThreshold(t)
  <2>1. PICK t \in 0..(Cardinality(Accounts) + 1) : SetThreshold(t)
    BY <1>5
  <2>2. threshold' \in 1..signerCount'
    BY <1>1, <2>1 DEF SetThreshold, ValidThreshold, TypeOK
  <2> QED
    BY <1>1, <2>1, <2>2 DEF SetThreshold, QuorumInv, QuorumReachable
<1>6. \/ UNCHANGED <<signers, signerCount, threshold>>
      \/ \E a \in Accounts : AddSigner(a) \/ RemoveSigner(a)
      \/ \E t \in 0..(Cardinality(Accounts) + 1) : SetThreshold(t)
  BY DEF Next, vars, config, Propose, Vote, ApproveAndExecute, CloseLedger, AdminCall,
         Configure, SetVolumeCap, SetPaused, SetAdmin, SetMaxProposalAge
<1> QED
  BY <1>2, <1>3, <1>4, <1>5, <1>6

\* However signers are added and removed and the threshold moved, the stored
\* count is the number of signers and they can reach the threshold.
THEOREM QuorumStaysReachable ==
  ASSUME DistinctVectors
  PROVE  Spec => []QuorumReachable
<1>1. QuorumInv => QuorumReachable
  BY DEF QuorumInv
<1> QED
  BY <1>1, InitQuorumInv, NextQuorumInv, PTL DEF Spec
-----------------------------------------------------------------------------
(* The running totals.                                                      *)

\* There are finitely many proposals and every amount is positive.
LEMMA AmountsType ==
  ASSUME TypeOK
  PROVE  /\ IsFiniteSet(Ids)
         /\ AmountOf \in [Ids -> Nat]
         /\ \A i \in Ids : AmountOf[i] = proposals[i].amount
<1>1. IsFiniteSet(Ids)
  BY FS_Interval DEF TypeOK, Ids
<1>2. AmountOf \in [Ids -> Nat]
  BY DEF TypeOK, Ids, Proposal, AmountOf
<1> QED
  BY <1>1, <1>2 DEF AmountOf

\* What an execution does to any sum over executed proposals.
LEMMA ExecuteSums ==
  ASSUME LedgerInv, NEW a \in Accounts, NEW i \in Ids, ApproveAndExecute(a, i)
  PROVE  /\ i \notin ExecutedIds /\ ExecutedIds' = ExecutedIds \cup {i}
         /\ proposals[i].amount \in Nat \ {0}
         /\ \A j \in ExecutedIds' :
              /\ proposals'[j].kind = proposals[j].kind
              /\ j # i => proposals'[j].executed_at = proposals[j].executed_at
         /\ proposals'[i].executed_at = ledger
         /\ \A S \in SUBSET ExecutedIds :
              /\ SumOver(AmountOf, S) \in Nat
              /\ SumOver(AmountOf', S) = SumOver(AmountOf, S)
              /\ SumOver(AmountOf', S \cup {i}) = SumOver(AmountOf, S) + proposals[i].amount
<1>1. TypeOK /\ TypeOK'
  BY ExecuteTypeOK DEF LedgerInv
<1>2. Ids' = Ids
  BY <1>1 DEF ApproveAndExecute, Ids, TypeOK
<1>3. /\ \A j \in Ids : j # i => proposals'[j] = proposals[j]
      /\ \A j \in Ids : /\ proposals'[j].amount = proposals[j].amount
                        /\ proposals'[j].kind = proposals[j].kind
      /\ proposals'[i].status = "Executed"
      /\ proposals'[i].executed_at = ledger
      /\ proposals[i].status = "Pending"
  BY <1>1 DEF ApproveAndExecute, MayApprove, Ids, TypeOK, Proposal
<1>4. i \notin ExecutedIds /\ ExecutedIds' = ExecutedIds \cup {i} /\ ExecutedIds \subseteq Ids
  BY <1>2, <1>3 DEF ExecutedIds, Executed
<1>5. proposals[i].amount \in Nat \ {0}
  BY <1>1 DEF TypeOK, Ids, Proposal
<1>6. \A j \in Ids : AmountOf'[j] = AmountOf[j] /\ AmountOf[j] \in Nat
  BY <1>1, <1>2, <1>3, AmountsType DEF AmountOf
<1>7. AmountOf'[i] = proposals[i].amount
  BY <1>1, <1>6, AmountsType
<1>8. ASSUME NEW S \in SUBSET ExecutedIds
      PROVE  /\ SumOver(AmountOf, S) \in Nat
             /\ SumOver(AmountOf', S) = SumOver(AmountOf, S)
             /\ SumOver(AmountOf', S \cup {i}) = SumOver(AmountOf, S) + proposals[i].amount
  <2>1. IsFiniteSet(S) /\ S \subseteq Ids /\ i \notin S
    BY <1>1, <1>4, AmountsType, FS_Subset
  <2>2. SumOver(AmountOf, S) \in Nat
    BY <1>6, <2>1, SumNat
  <2>3. SumOver(AmountOf', S) = SumOver(AmountOf, S)
    BY <1>6, <2>1, SumSame
  <2>4. \A j \in S \cup {i} : AmountOf'[j] \in Int
    BY <1>6, <2>1
  <2>5. SumOver(AmountOf', S \cup {i}) = AmountOf'[i] + SumOver(AmountOf', S)
    BY <2>1, <2>4, SumAdd
  <2> QED
    BY <1>5, <1>7, <2>2, <2>3, <2>5
<1> QED
  BY <1>2, <1>3, <1>4, <1>5, <1>8

\* No other call touches what the executed proposals add up to.
LEMMA QuietSums ==
  ASSUME LedgerInv, [Next]_vars, \A a \in Accounts, i \in Ids : ~ApproveAndExecute(a, i)
  PROVE  /\ ExecutedIds' = ExecutedIds
         /\ UNCHANGED <<breaker, custody>>
         /\ \A j \in ExecutedIds :
              /\ proposals'[j].kind = proposals[j].kind
              /\ proposals'[j].executed_at = proposals[j].executed_at
         /\ \A S \in SUBSET ExecutedIds : SumOver(AmountOf', S) = SumOver(AmountOf, S)
<1>1. TypeOK /\ TypeOK'
  BY NextTypeOK DEF LedgerInv
<1>2. /\ Ids \subseteq Ids'
      /\ \A j \in Ids : /\ proposals'[j].amount = proposals[j].amount
                        /\ proposals'[j].kind = proposals[j].kind
                        /\ proposals'[j].status = proposals[j].status
                        /\ proposals'[j].executed_at = proposals[j].executed_at
      /\ \A j \in Ids' \ Ids : proposals'[j].status = "Pending"
      /\ UNCHANGED <<breaker, custody>>
  <2>1. CASE \E a \in Accounts, kind \in Kinds, amount \in Amounts, d \in Deposits :
               Propose(a, kind, amount, d)
    <3>1. /\ Ids = 0..(proposalCount - 1)
          /\ Ids' = 0..proposalCount
          /\ proposalCount \in Nat
          /\ UNCHANGED <<breaker, custody>>
      BY <1>1, <2>1 DEF TypeOK, Ids, Propose
    <3>2. /\ \A i \in Ids : proposals'[i] = proposals[i]
          /\ proposals'[proposalCount].status = "Pending"
      BY <2>1, <3>1 DEF Propose
    <3>3. Ids' = Ids \cup {proposalCount}
      BY <3>1
    <3> QED
      BY <3>1, <3>2, <3>3
  <2>2. CASE \E a \in Accounts, i \in Ids : Vote(a, i)
    <3>0. PICK a \in Accounts, i \in Ids : Vote(a, i)
      BY <2>2
    <3>1. Ids' = Ids /\ UNCHANGED <<breaker, custody>>
      BY <1>1, <3>0 DEF Vote, Ids, TypeOK
    <3>2. \A j \in Ids :
            /\ proposals'[j].amount = proposals[j].amount
            /\ proposals'[j].kind = proposals[j].kind
            /\ proposals'[j].status = proposals[j].status
            /\ proposals'[j].executed_at = proposals[j].executed_at
      BY <1>1, <3>0 DEF Vote, Ids, TypeOK, Proposal
    <3> QED
      BY <3>1, <3>2
  <2>3. CASE UNCHANGED <<ballots, breaker, custody>>
    BY <2>3 DEF ballots, Ids
  <2>4. \/ \E a \in Accounts, kind \in Kinds, amount \in Amounts, d \in Deposits :
              Propose(a, kind, amount, d)
        \/ \E a \in Accounts, i \in Ids : Vote(a, i)
        \/ UNCHANGED <<ballots, breaker, custody>>
    BY DEF Next, vars, AdminCall, CloseLedger
  <2> QED
    BY <2>1, <2>2, <2>3, <2>4
<1>3. ExecutedIds' = ExecutedIds /\ ExecutedIds \subseteq Ids
  BY <1>2 DEF ExecutedIds, Executed
<1>4. \A j \in Ids : AmountOf'[j] = AmountOf[j]
  BY <1>2 DEF AmountOf
<1>5. ASSUME NEW S \in SUBSET ExecutedIds
      PROVE  SumOver(AmountOf', S) = SumOver(AmountOf, S)
  <2>1. IsFiniteSet(S) /\ S \subseteq Ids
    BY <1>1, <1>3, AmountsType, FS_Subset
  <2> QED
    BY <1>4, <2>1, SumSame
<1> QED
  BY <1>2, <1>3, <1>5
\* The executed proposals of a kind.
ExecutedOf(kind) == {i \in ExecutedIds : proposals[i].kind = kind}

LEMMA InitCustody == Init => CustodyMatchesExecuted
<1> SUFFICES ASSUME Init PROVE CustodyMatchesExecuted
  OBVIOUS
<1>1. ExecutedIds = {} /\ VaultFunds - usdcVault = 0 /\ wpiMinted = 0
  BY BridgeAssumption DEF Init, ExecutedIds, Ids
<1>2. SumOver(AmountOf, {}) = 0
  BY SumEmpty
<1> QED
  BY <1>1, <1>2 DEF CustodyMatchesExecuted

LEMMA NextCustody == LedgerInv /\ CustodyMatchesExecuted /\ [Next]_vars => CustodyMatchesExecuted'
<1> SUFFICES ASSUME LedgerInv, CustodyMatchesExecuted, [Next]_vars
             PROVE  CustodyMatchesExecuted'
  OBVIOUS
<1>0. /\ wpiMinted = SumOver(AmountOf, ExecutedOf("MintWpi"))
      /\ VaultFunds - usdcVault = SumOver(AmountOf, ExecutedOf("ReleaseUsdc"))
      /\ wpiMinted \in Nat /\ usdcVault \in Nat /\ VaultFunds \in Nat
  BY BridgeAssumption DEF CustodyMatchesExecuted, ExecutedOf, LedgerInv, TypeOK
<1>1. CASE \E a \in Accounts, i \in Ids : ApproveAndExecute(a, i)
  <2>1. PICK a \in Accounts, i \in Ids : ApproveAndExecute(a, i)
    BY <1>1
  <2> DEFINE amount == proposals[i].amount
             minted == ExecutedOf("MintWpi")
             released == ExecutedOf("ReleaseUsdc")
  <2>2. amount \in Nat /\ minted \subseteq ExecutedIds /\ released \subseteq ExecutedIds
    BY <2>1, ExecuteSums DEF ExecutedOf
  <2>3. CASE proposals[i].kind = "MintWpi"
    <3>1. wpiMinted' = wpiMinted + amount /\ usdcVault' = usdcVault
      BY <2>1, <2>3 DEF ApproveAndExecute, PayOut
    <3>2. ExecutedOf("MintWpi")' = minted \cup {i} /\ ExecutedOf("ReleaseUsdc")' = released
      BY <2>1, <2>3, ExecuteSums DEF ExecutedOf
    <3>3. /\ SumOver(AmountOf', minted \cup {i}) = SumOver(AmountOf, minted) + amount
          /\ SumOver(AmountOf', released) = SumOver(AmountOf, released)
      BY <2>1, <2>2, ExecuteSums
    <3> QED
      BY <1>0, <3>1, <3>2, <3>3 DEF CustodyMatchesExecuted, ExecutedOf
  <2>4. CASE proposals[i].kind = "ReleaseUsdc"
    <3>1. usdcVault' = usdcVault - amount /\ wpiMinted' = wpiMinted
      BY <2>1, <2>4 DEF ApproveAndExecute, PayOut
    <3>2. ExecutedOf("ReleaseUsdc")' = released \cup {i} /\ ExecutedOf("MintWpi")' = minted
      BY <2>1, <2>4, ExecuteSums DEF ExecutedOf
    <3>3. /\ SumOver(AmountOf', released \cup {i}) = SumOver(AmountOf, released) + amount
          /\ SumOver(AmountOf', minted) = SumOver(AmountOf, minted)
      BY <2>1, <2>2, ExecuteSums
    <3>4. VaultFunds - usdcVault' = (VaultFunds - usdcVault) + amount
      BY <1>0, <2>2, <3>1
    <3> QED
      BY <1>0, <3>1, <3>2, <3>3, <3>4 DEF CustodyMatchesExecuted, ExecutedOf
  <2>5. proposals[i].kind \in Kinds
    BY DEF LedgerInv, TypeOK, Proposal, Ids
  <2> QED
    BY <2>3, <2>4, <2>5 DEF Kinds
<1>2. CASE \A a \in Accounts, i \in Ids : ~ApproveAndExecute(a, i)
  <2>1. /\ ExecutedOf("MintWpi")' = ExecutedOf("MintWpi")
        /\ ExecutedOf("ReleaseUsdc")' = ExecutedOf("ReleaseUsdc")
        /\ UNCHANGED custody
    BY <1>2, QuietSums DEF ExecutedOf
  <2>2. /\ SumOver(AmountOf', ExecutedOf("MintWpi")) = SumOver(AmountOf, ExecutedOf("MintWpi"))
        /\ SumOver(AmountOf', ExecutedOf("ReleaseUsdc")) = SumOver(AmountOf, ExecutedOf("ReleaseUsdc"))
    BY <1>2, QuietSums DEF ExecutedOf
  <2> QED
    BY <1>0, <2>1, <2>2 DEF CustodyMatchesExecuted, ExecutedOf, custody
<1> QED
  BY <1>1, <1>2

\* Every token minted or released was voted for: whatever the order of the
\* calls, the tokens paid out are the amounts of the executed proposals.
THEOREM CustodyMatches == Spec => []CustodyMatchesExecuted
  BY InitCustody, NextCustody, LedgerInvHolds, PTL DEF Spec

-----------------------------------------------------------------------------
(* The volume breaker.                                                      *)

ExecutedFrom(start) == {i \in ExecutedIds : proposals[i].executed_at >= start}
ExecutedAfter(start) == {i \in ExecutedIds : proposals[i].executed_at > start}

\* Windows open at a ledger that has passed, and nothing executes in the future.
WindowInThePast ==
  /\ windowStart <= ledger
  /\ \A i \in ExecutedIds : proposals[i].executed_at \in Nat /\ proposals[i].executed_at <= ledger

\* The counter misses at most what was executed in the very ledger in which the
\* window opened, before it did; it counts nothing else.
VolumeNearWindowSum ==
  /\ SumOver(AmountOf, ExecutedAfter(windowStart)) <= volume
  /\ volume <= SumOver(AmountOf, ExecutedFrom(windowStart))

LEMMA InitWindow == Init => WindowInThePast /\ VolumeNearWindowSum
<1> SUFFICES ASSUME Init PROVE WindowInThePast /\ VolumeNearWindowSum
  OBVIOUS
<1>1. ExecutedIds = {} /\ volume = 0 /\ windowStart = 0 /\ ledger = 0
  BY DEF Init, ExecutedIds, Ids
<1>2. SumOver(AmountOf, {}) = 0
  BY SumEmpty
<1> QED
  BY <1>1, <1>2 DEF WindowInThePast, VolumeNearWindowSum, ExecutedFrom, ExecutedAfter

LEMMA NextWindowInThePast == LedgerInv /\ WindowInThePast /\ [Next]_vars => WindowInThePast'
<1> SUFFICES ASSUME LedgerInv, WindowInThePast, [Next]_vars PROVE WindowInThePast'
  OBVIOUS
<1>0. ledger \in Nat /\ windowStart \in Nat /\ ledger' \in Nat /\ windowStart' \in Nat
  BY NextTypeOK DEF LedgerInv, TypeOK
<1>1. CASE \E a \in Accounts, i \in Ids : ApproveAndExecute(a, i)
  <2>1. PICK a \in Accounts, i \in Ids : ApproveAndExecute(a, i)
    BY <1>1
  <2>2. windowStart' \in {windowStart, ledger} /\ ledger' = ledger
    BY <2>1 DEF ApproveAndExecute, AddVolume
  <2>3. \A j \in ExecutedIds' : proposals'[j].executed_at \in Nat /\ proposals'[j].executed_at <= ledger
    BY <1>0, <2>1, ExecuteSums DEF WindowInThePast
  <2> QED
    BY <1>0, <2>2, <2>3 DEF WindowInThePast
<1>2. CASE \A a \in Accounts, i \in Ids : ~ApproveAndExecute(a, i)
  <2>1. windowStart' = windowStart /\ ExecutedIds' = ExecutedIds
    BY <1>2, QuietSums DEF breaker
  <2>2. ledger' >= ledger
    BY <1>0, <1>2 DEF Next, vars, Propose, Vote, AdminCall, CloseLedger
  <2>3. \A j \in ExecutedIds : proposals'[j].executed_at = proposals[j].executed_at
    BY <1>2, QuietSums
  <2> QED
    BY <1>0, <2>1, <2>2, <2>3 DEF WindowInThePast
<1> QED
  BY <1>1, <1>2

LEMMA NextVolume ==
  LedgerInv /\ WindowInThePast /\ VolumeNearWindowSum /\ [Next]_vars => VolumeNearWindowSum'
<1> SUFFICES ASSUME LedgerInv, WindowInThePast, VolumeNearWindowSum, [Next]_vars
             PROVE  VolumeNearWindowSum'
  OBVIOUS
<1>0. ledger \in Nat /\ windowStart \in Nat /\ volume \in Nat
  BY DEF LedgerInv, TypeOK
<1>1. CASE \E a \in Accounts, i \in Ids : ApproveAndExecute(a, i)
  <2>1. PICK a \in Accounts, i \in Ids : ApproveAndExecute(a, i)
    BY <1>1
  <2> DEFINE amount == proposals[i].amount
  <2>2. amount \in Nat
    BY <2>1, ExecuteSums
  <2>3. CASE WindowOver
    <3>1. windowStart' = ledger /\ volume' = amount
      BY <2>1, <2>2, <2>3 DEF ApproveAndExecute, AddVolume
    <3>2. ExecutedAfter(windowStart)' = {}
      BY <1>0, <2>1, <3>1, ExecuteSums DEF ExecutedAfter, WindowInThePast
    <3> DEFINE rest == ExecutedFrom(ledger)
    <3>3. ExecutedFrom(windowStart)' = rest \cup {i} /\ rest \subseteq ExecutedIds
      BY <1>0, <2>1, <3>1, ExecuteSums DEF ExecutedFrom
    <3>4. /\ SumOver(AmountOf', rest \cup {i}) = SumOver(AmountOf, rest) + amount
          /\ SumOver(AmountOf, rest) \in Nat
      BY <2>1, <3>3, ExecuteSums
    <3>5. SumOver(AmountOf', {}) = 0
      BY SumEmpty
    <3> HIDE DEF amount, rest
    <3> QED
      BY <2>2, <3>1, <3>2, <3>3, <3>4, <3>5 DEF VolumeNearWindowSum
  <2>4. CASE ~WindowOver
    <3>1. windowStart' = windowStart /\ volume' = volume + amount
      BY <2>1, <2>4 DEF ApproveAndExecute, AddVolume
    <3> DEFINE after == ExecutedAfter(windowStart)
               from == ExecutedFrom(windowStart)
    <3>2. after \subseteq ExecutedIds /\ from \subseteq ExecutedIds
      BY DEF ExecutedAfter, ExecutedFrom
    <3>3. ExecutedFrom(windowStart)' = from \cup {i}
      BY <1>0, <2>1, <3>1, ExecuteSums DEF ExecutedFrom, WindowInThePast
    <3>4. ExecutedAfter(windowStart)' \in {after, after \cup {i}}
      BY <1>0, <2>1, <3>1, ExecuteSums DEF ExecutedAfter
    <3>5. /\ SumOver(AmountOf', after) = SumOver(AmountOf, after)
          /\ SumOver(AmountOf', after \cup {i}) = SumOver(AmountOf, after) + amount
          /\ SumOver(AmountOf', from \cup {i}) = SumOver(AmountOf, from) + amount
          /\ SumOver(AmountOf, after) \in Nat /\ SumOver(AmountOf, from) \in Nat
      BY <2>1, <3>2, ExecuteSums
    <3>6. SumOver(AmountOf, after) <= volume /\ volume <= SumOver(AmountOf, from)
      BY DEF VolumeNearWindowSum
    <3> HIDE DEF amount, after, from
    <3>7. SumOver(AmountOf', ExecutedAfter(windowStart)') <= volume'
      <4>1. SumOver(AmountOf', ExecutedAfter(windowStart)')
              \in {SumOver(AmountOf, after), SumOver(AmountOf, after) + amount}
        BY <3>4, <3>5
      <4>2. SumOver(AmountOf, after) <= volume /\ volume' = volume + amount
        BY <3>1, <3>6
      <4> QED
        BY <1>0, <2>2, <3>5, <4>1, <4>2
    <3>8. volume' <= SumOver(AmountOf', ExecutedFrom(windowStart)')
      BY <1>0, <2>2, <3>1, <3>3, <3>5, <3>6
    <3> QED
      BY <3>7, <3>8 DEF VolumeNearWindowSum
  <2> QED
    BY <2>3, <2>4
<1>2. CASE \A a \in Accounts, i \in Ids : ~ApproveAndExecute(a, i)
  <2>1. /\ ExecutedAfter(windowStart)' = ExecutedAfter(windowStart)
        /\ ExecutedFrom(windowStart)' = ExecutedFrom(windowStart)
        /\ UNCHANGED breaker
    BY <1>2, QuietSums DEF ExecutedAfter, ExecutedFrom, breaker
  <2>2. /\ SumOver(AmountOf', ExecutedAfter(windowStart)) = SumOver(AmountOf, ExecutedAfter(windowStart))
        /\ SumOver(AmountOf', ExecutedFrom(windowStart)) = SumOver(AmountOf, ExecutedFrom(windowStart))
    BY <1>2, QuietSums DEF ExecutedAfter, ExecutedFrom
  <2> QED
    BY <2>1, <2>2 DEF VolumeNearWindowSum, breaker
<1> QED
  BY <1>1, <1>2

\* Whatever the admin does to the window length, the breaker's counter is what
\* was executed since the window opened, up to the ledger of the opening itself.
THEOREM VolumeNearWindow == Spec => []VolumeNearWindowSum
  BY InitWindow, NextWindowInThePast, NextVolume, LedgerInvHolds, PTL DEF Spec

\* set_volume_cap always gives the same window, and it has a length.
OneWindow == \A w, x \in Windows : w = x /\ w > 0

\* Nothing executed after the window's end, so the next opening is later than all.
ExecutedBeforeEnd == \A i \in ExecutedIds : proposals[i].executed_at < windowStart + windowLedgers

VolumeInv == WindowInThePast /\ ExecutedBeforeEnd /\ VolumeIsWindowSum

LEMMA InitVolumeInv == Init => VolumeInv
<1> SUFFICES ASSUME Init PROVE VolumeInv
  OBVIOUS
<1>1. ExecutedIds = {} /\ volume = 0
  BY DEF Init, ExecutedIds, Ids
<1>2. SumOver(AmountOf, {}) = 0
  BY SumEmpty
<1> QED
  BY <1>1, <1>2, InitWindow DEF VolumeInv, ExecutedBeforeEnd, VolumeIsWindowSum

LEMMA NextVolumeInv ==
  ASSUME OneWindow
  PROVE  LedgerInv /\ VolumeInv /\ [Next]_vars => VolumeInv'
<1> SUFFICES ASSUME LedgerInv, VolumeInv, [Next]_vars PROVE VolumeInv'
  OBVIOUS
<1>0. /\ ledger \in Nat /\ windowStart \in Nat /\ volume \in Nat
      /\ windowLedgers \in Nat \ {0} /\ windowLedgers' = windowLedgers
  <2>1. windowLedgers \in Windows /\ windowLedgers' \in Windows
    BY NextTypeOK DEF LedgerInv, TypeOK
  <2> QED
    BY <2>1, BridgeAssumption DEF OneWindow, LedgerInv, TypeOK
<1>a. WindowInThePast'
  BY NextWindowInThePast DEF VolumeInv
<1>1. CASE \E a \in Accounts, i \in Ids : ApproveAndExecute(a, i)
  <2>1. PICK a \in Accounts, i \in Ids : ApproveAndExecute(a, i)
    BY <1>1
  <2> DEFINE amount == proposals[i].amount
  <2>2. amount \in Nat
    BY <2>1, ExecuteSums
  <2>3. CASE WindowOver
    <3>1. windowStart' = ledger /\ volume' = amount
      BY <2>1, <2>2, <2>3 DEF ApproveAndExecute, AddVolume
    <3>2. ledger >= windowStart + windowLedgers
      BY <2>3 DEF WindowOver
    <3>3. \A j \in ExecutedIds : proposals[j].executed_at \in Nat /\ proposals[j].executed_at < ledger
      BY <1>0, <3>2 DEF VolumeInv, ExecutedBeforeEnd, WindowInThePast
    <3>4. \A j \in ExecutedIds : proposals'[j].executed_at = proposals[j].executed_at
      BY <2>1, ExecuteSums
    <3> DEFINE none == {}
    <3>5. ExecutedFrom(windowStart)' = none \cup {i}
      BY <1>0, <2>1, <3>1, <3>3, <3>4, ExecuteSums DEF ExecutedFrom
    <3>6. SumOver(AmountOf, none) = 0
      BY SumEmpty
    <3>7. none \in SUBSET ExecutedIds
      OBVIOUS
    <3> HIDE DEF none
    <3>10. SumOver(AmountOf', none \cup {i}) = SumOver(AmountOf, none) + amount
      BY <2>1, <3>7, ExecuteSums
    <3>11. volume' = SumOver(AmountOf', ExecutedFrom(windowStart)')
      BY <2>2, <3>1, <3>5, <3>6, <3>10
    <3>8. VolumeIsWindowSum'
      BY <3>11 DEF VolumeIsWindowSum, ExecutedFrom
    <3>9. ExecutedBeforeEnd'
      BY <1>0, <2>1, <3>1, <3>3, <3>4, ExecuteSums DEF ExecutedBeforeEnd
    <3> QED
      BY <1>a, <3>8, <3>9 DEF VolumeInv
  <2>4. CASE ~WindowOver
    <3>1. windowStart' = windowStart /\ volume' = volume + amount
      BY <2>1, <2>4 DEF ApproveAndExecute, AddVolume
    <3>2. ledger < windowStart + windowLedgers
      BY <1>0, <2>4 DEF WindowOver
    <3> DEFINE from == ExecutedFrom(windowStart)
    <3>3. from \subseteq ExecutedIds
      BY DEF ExecutedFrom
    <3>4. ExecutedFrom(windowStart)' = from \cup {i}
      BY <1>0, <2>1, <3>1, ExecuteSums DEF ExecutedFrom, VolumeInv, WindowInThePast
    <3>5. SumOver(AmountOf', from \cup {i}) = SumOver(AmountOf, from) + amount
      BY <2>1, <3>3, ExecuteSums
    <3>6. volume = SumOver(AmountOf, from)
      BY DEF VolumeInv, VolumeIsWindowSum, ExecutedFrom
    <3>8. VolumeIsWindowSum'
      BY <3>1, <3>4, <3>5, <3>6 DEF VolumeIsWindowSum, ExecutedFrom
    <3>9. ExecutedBeforeEnd'
      BY <1>0, <2>1, <3>1, <3>2, ExecuteSums DEF ExecutedBeforeEnd, VolumeInv
    <3> QED
      BY <1>a, <3>8, <3>9 DEF VolumeInv
  <2> QED
    BY <2>3, <2>4
<1>2. CASE \A a \in Accounts, i \in Ids : ~ApproveAndExecute(a, i)
  <2>1. /\ ExecutedFrom(windowStart)' = ExecutedFrom(windowStart)
        /\ UNCHANGED breaker
    BY <1>2, QuietSums DEF ExecutedFrom, breaker
  <2>2. SumOver(AmountOf', ExecutedFrom(windowStart)) = SumOver(AmountOf, ExecutedFrom(windowStart))
    BY <1>2, QuietSums DEF ExecutedFrom
  <2>3. VolumeIsWindowSum'
    BY <2>1, <2>2 DEF VolumeInv, VolumeIsWindowSum, ExecutedFrom, breaker
  <2>4. ExecutedBeforeEnd'
    BY <1>0, <1>2, <2>1, QuietSums DEF VolumeInv, ExecutedBeforeEnd, breaker
  <2> QED
    BY <1>a, <2>3, <2>4 DEF VolumeInv
<1> QED
  BY <1>1, <1>2

\* The tokens paid out and the breaker's counter are the sums over the executed
\* proposals, for all amounts and orders of calls, while the window length stays.
THEOREM TotalsMatch ==
  ASSUME OneWindow
  PROVE  Spec => []TotalsMatchExecuted
<1>1. VolumeInv /\ CustodyMatchesExecuted => TotalsMatchExecuted
  BY DEF VolumeInv, TotalsMatchExecuted
<1> QED
  BY <1>1, InitVolumeInv, NextVolumeInv, LedgerInvHolds, CustodyMatches, PTL DEF Spec
=============================================================================
