-------------------------- MODULE ContractsProofs --------------------------
(* Proofs about the contracts of module Contracts, each for all accounts,      *)
(* amounts, configurations and bounds: the escrow manager, the custody         *)
(* contracts, the vaults, the tokens, the fee router, the two factories, the   *)
(* swap router, the oracle and the constant-product pool; and, at the end,     *)
(* about all of them together.                                                 *)
EXTENDS Contracts, SumTheorems, FiniteSetTheorems, TLAPS

-----------------------------------------------------------------------------
(* The escrow manager: milestones and payments.                                *)

Payments == [receiver : Int, funder : Int]

(* What holds of an escrow x at ledger l, given what its parties were paid    *)
(* and whether an arbitrator has ruled on it.                                 *)
Sound(x, payment, isRuled, l) ==
  /\ x \in EscrowStates
  /\ payment \in Payments
  /\ Len(x.milestones) = Len(x.plan)
  /\ x.completed = Cardinality(Approved(x.milestones))
  /\ x.released = payment.receiver + payment.funder
  /\ x.released <= x.deposited
  /\ x.status \in {"None", "Active", "Disputed"} => payment.funder = 0
  /\ ~isRuled /\ payment.funder > 0 =>
       /\ AllRejected(x) \/ l >= x.deadline
       /\ x.status = "Refunded"
       /\ x.released = x.deposited
  /\ ~isRuled /\ x.status = "Completed" =>
       /\ \A i \in DOMAIN x.plan : x.milestones[i] = "Approved"
       /\ payment.receiver = ApprovedAmount(x)

(* The inductive invariant.                                                   *)
IInv ==
  /\ ledger \in 0 .. MaxLedger
  /\ admin \in Admins
  /\ paused \in BOOLEAN
  /\ count \in 0 .. MaxEscrows
  /\ vault \in Int
  /\ ruled \subseteq Ids
  /\ escrow \in [Ids -> EscrowStates]
  /\ paid \in [Ids -> Payments]
  /\ \A e \in Ids : Sound(escrow[e], paid[e], e \in ruled, ledger)
  /\ \A e \in Ids : e >= count =>
       escrow[e] = NoEscrow /\ paid[e] = [receiver |-> 0, funder |-> 0]

-----------------------------------------------------------------------------
(* Counting approved milestones.                                              *)

\* Approved milestones are among the milestones, so there are finitely many
\* and no more than the escrow has; when there are as many, all are approved.
LEMMA ApprovedFinite ==
  ASSUME NEW m \in Seq(MilestoneStatuses)
  PROVE  /\ IsFiniteSet(Approved(m))
         /\ Cardinality(Approved(m)) \in Nat
         /\ Cardinality(Approved(m)) <= Len(m)
         /\ Cardinality(Approved(m)) = Len(m) => \A i \in 1 .. Len(m) : m[i] = "Approved"
<1>1. DOMAIN m = 1 .. Len(m) /\ Len(m) \in Nat
  OBVIOUS
<1>2. Approved(m) \in SUBSET (1 .. Len(m))
  BY <1>1 DEF Approved
<1>3. IsFiniteSet(1 .. Len(m)) /\ Cardinality(1 .. Len(m)) = Len(m)
  BY <1>1, FS_Interval
<1>4. /\ IsFiniteSet(Approved(m))
      /\ Cardinality(Approved(m)) <= Len(m)
      /\ Cardinality(Approved(m)) = Len(m) => Approved(m) = 1 .. Len(m)
  BY <1>2, <1>3, FS_Subset
<1>5. Cardinality(Approved(m)) \in Nat
  BY <1>4, FS_CardinalityType
<1> QED
  BY <1>4, <1>5 DEF Approved

\* Approving a submitted milestone adds one to the approved ones.
LEMMA ApproveCounts ==
  ASSUME NEW m \in Seq(MilestoneStatuses), NEW i \in DOMAIN m, m[i] = "Submitted"
  PROVE  LET n == [m EXCEPT ![i] = "Approved"]
         IN /\ n \in Seq(MilestoneStatuses)
            /\ Len(n) = Len(m)
            /\ Cardinality(Approved(n)) = Cardinality(Approved(m)) + 1
<1> DEFINE n == [m EXCEPT ![i] = "Approved"]
<1>1. n \in Seq(MilestoneStatuses) /\ Len(n) = Len(m) /\ DOMAIN n = DOMAIN m
  BY DEF MilestoneStatuses
<1>2. Approved(n) = Approved(m) \union {i} /\ i \notin Approved(m)
  BY <1>1 DEF Approved
<1>3. Cardinality(Approved(n)) = Cardinality(Approved(m)) + 1
  BY <1>2, ApprovedFinite, FS_AddElement
<1> QED
  BY <1>1, <1>3

\* Submitting or rejecting a milestone leaves the approved ones as they are.
LEMMA OthersDoNotCount ==
  ASSUME NEW m \in Seq(MilestoneStatuses), NEW i \in DOMAIN m, m[i] # "Approved",
         NEW v \in {"Submitted", "Rejected"}
  PROVE  LET n == [m EXCEPT ![i] = v]
         IN /\ n \in Seq(MilestoneStatuses)
            /\ Len(n) = Len(m)
            /\ Approved(n) = Approved(m)
<1> DEFINE n == [m EXCEPT ![i] = v]
<1>1. n \in Seq(MilestoneStatuses) /\ Len(n) = Len(m) /\ DOMAIN n = DOMAIN m
  BY DEF MilestoneStatuses
<1> QED
  BY <1>1 DEF Approved

\* What approved milestones are worth is an integer, although a plan may hold
\* negative amounts.
LEMMA WorthType ==
  ASSUME NEW plan \in Seq(Int), NEW m \in Seq(MilestoneStatuses), Len(m) = Len(plan)
  PROVE  Worth(plan, m) \in Int
<1>1. IsFiniteSet(Approved(m))
  BY ApprovedFinite
<1>2. \A i \in Approved(m) : plan[i] \in Int
  BY DEF Approved
<1> QED
  BY <1>1, <1>2, SumType DEF Worth

-----------------------------------------------------------------------------
(* Steps of one escrow.                                                       *)

\* A step that changes one escrow of the contract, and what its parties were
\* paid, keeps the invariant when that escrow stays sound.
LEMMA OneEscrow ==
  ASSUME IInv, NEW e \in Ids, NEW y, NEW q,
         escrow' = [escrow EXCEPT ![e] = y], paid' = [paid EXCEPT ![e] = q],
         ruled' \in SUBSET Ids, ruled' \ {e} = ruled \ {e},
         UNCHANGED <<ledger, admin, paused, count>>, vault' \in Int,
         e < count, Sound(y, q, e \in ruled', ledger)
  PROVE  IInv'
<1>1. escrow' \in [Ids -> EscrowStates] /\ paid' \in [Ids -> Payments]
  BY DEF IInv, Sound
<1>2. ASSUME NEW d \in Ids PROVE Sound(escrow'[d], paid'[d], d \in ruled', ledger')
  <2>1. CASE d = e
    BY <2>1 DEF IInv
  <2>2. CASE d # e
    <3>1. escrow'[d] = escrow[d] /\ paid'[d] = paid[d] /\ (d \in ruled' <=> d \in ruled)
      BY <2>2 DEF IInv
    <3>2. (d \in ruled') = (d \in ruled)
      BY <3>1
    <3> QED
      BY <3>1, <3>2 DEF IInv
  <2> QED
    BY <2>1, <2>2
<1>3. ASSUME NEW d \in Ids, d >= count'
      PROVE  escrow'[d] = NoEscrow /\ paid'[d] = [receiver |-> 0, funder |-> 0]
  <2>1. d # e
    BY <1>3 DEF IInv, Ids
  <2> QED
    BY <1>3, <2>1 DEF IInv
<1> QED
  BY <1>1, <1>2, <1>3 DEF IInv

\* An escrow that is active or disputed was created.
LEMMA Created ==
  ASSUME IInv, NEW e \in Ids, escrow[e].status # "None"
  PROVE  e < count
  BY DEF IInv, Ids, NoEscrow

LEMMA FundKeeps ==
  ASSUME IInv, NEW e \in Ids, NEW amount \in Amounts, FundEscrow(e, amount)
  PROVE  IInv'
<1> DEFINE x == escrow[e]
           y == Funded(x, amount)
<1>1. x.status = "Active" /\ e < count /\ Sound(x, paid[e], e \in ruled, ledger)
  BY Created DEF FundEscrow, Active, IInv
<1>2. amount \in Nat /\ MaxDeposit \in Nat
  BY EscrowAssumption
<1>3. y = [x EXCEPT !.deposited = x.deposited + amount] /\ x.deposited + amount <= MaxDeposit
  BY DEF FundEscrow, Funded
<1>4. y \in EscrowStates /\ y.status = "Active" /\ y.deposited = x.deposited + amount
      /\ y.milestones = x.milestones /\ y.plan = x.plan /\ y.completed = x.completed
      /\ y.released = x.released
  BY SMTT(30), <1>1, <1>2, <1>3 DEF Sound, EscrowStates
<1>5. y.released <= y.deposited
  BY <1>1, <1>2, <1>4 DEF Sound, EscrowStates
<1>6. Sound(y, paid[e], e \in ruled, ledger)
  BY <1>1, <1>4, <1>5 DEF Sound, Payments
<1>7. escrow' = [escrow EXCEPT ![e] = y] /\ paid' = [paid EXCEPT ![e] = paid[e]]
  BY DEF FundEscrow, IInv
<1>8. vault' \in Int
  BY <1>2 DEF FundEscrow, IInv
<1> QED
  BY <1>1, <1>6, <1>7, <1>8, OneEscrow DEF FundEscrow, settings, IInv

\* What submitting, approving and rejecting have in common.
LEMMA MilestoneKeeps ==
  ASSUME IInv, NEW e \in Ids, NEW m \in Seq(MilestoneStatuses), NEW n \in Nat,
         Active(e), Len(m) = Len(escrow[e].plan), n = Cardinality(Approved(m)),
         escrow' = [escrow EXCEPT ![e].milestones = m, ![e].completed = n],
         UNCHANGED <<ledger, settings, count, vault, paid, ruled>>
  PROVE  IInv'
<1> DEFINE x == escrow[e]
           y == [x EXCEPT !.milestones = m, !.completed = n]
<1>1. x.status = "Active" /\ e < count /\ Sound(x, paid[e], e \in ruled, ledger)
  BY Created DEF Active, IInv
<1>2. y \in EscrowStates /\ y.status = "Active" /\ y.deposited = x.deposited
      /\ y.milestones = m /\ y.plan = x.plan /\ y.completed = n /\ y.released = x.released
  BY <1>1 DEF Sound, EscrowStates
<1>3. Sound(y, paid[e], e \in ruled, ledger)
  BY <1>1, <1>2 DEF Sound, Payments
<1>4. escrow' = [escrow EXCEPT ![e] = y] /\ paid' = [paid EXCEPT ![e] = paid[e]]
  BY DEF IInv
<1> QED
  BY <1>1, <1>3, <1>4, OneEscrow DEF settings, IInv

LEMMA SubmitKeeps ==
  ASSUME IInv, NEW e \in Ids, NEW i, SubmitMilestone(e, i)
  PROVE  IInv'
<1> DEFINE x == escrow[e]
           m == [x.milestones EXCEPT ![i] = "Submitted"]
<1>1. x \in EscrowStates /\ Sound(x, paid[e], e \in ruled, ledger)
  BY DEF IInv
<1>2. x.plan \in Seq(Int) /\ x.milestones \in Seq(MilestoneStatuses)
      /\ Len(x.milestones) = Len(x.plan)
  BY <1>1, EscrowAssumption DEF EscrowStates, Sound
<1>3. i \in DOMAIN x.milestones /\ x.milestones[i] = "Pending"
  BY <1>2 DEF SubmitMilestone
<1>4. m \in Seq(MilestoneStatuses) /\ Len(m) = Len(x.plan) /\ Approved(m) = Approved(x.milestones)
  BY <1>2, <1>3, OthersDoNotCount
<1>5. escrow' = [escrow EXCEPT ![e].milestones = m, ![e].completed = x.completed]
  BY <1>1 DEF SubmitMilestone, IInv, EscrowStates
<1>6. x.completed \in Nat /\ x.completed = Cardinality(Approved(m))
  BY <1>1, <1>4 DEF Sound, EscrowStates
<1> QED
  BY <1>4, <1>5, <1>6, MilestoneKeeps DEF SubmitMilestone

LEMMA RejectKeeps ==
  ASSUME IInv, NEW e \in Ids, NEW i, RejectMilestone(e, i)
  PROVE  IInv'
<1> DEFINE x == escrow[e]
           m == [x.milestones EXCEPT ![i] = "Rejected"]
<1>1. x \in EscrowStates /\ Sound(x, paid[e], e \in ruled, ledger)
  BY DEF IInv
<1>2. x.plan \in Seq(Int) /\ x.milestones \in Seq(MilestoneStatuses)
      /\ Len(x.milestones) = Len(x.plan)
  BY <1>1, EscrowAssumption DEF EscrowStates, Sound
<1>3. i \in DOMAIN x.milestones /\ x.milestones[i] = "Submitted"
  BY <1>2 DEF RejectMilestone, Answerable
<1>4. m \in Seq(MilestoneStatuses) /\ Len(m) = Len(x.plan) /\ Approved(m) = Approved(x.milestones)
  BY <1>2, <1>3, OthersDoNotCount
<1>5. escrow' = [escrow EXCEPT ![e].milestones = m, ![e].completed = x.completed]
  BY <1>1 DEF RejectMilestone, IInv, EscrowStates
<1>6. x.completed \in Nat /\ x.completed = Cardinality(Approved(m))
  BY <1>1, <1>4 DEF Sound, EscrowStates
<1> QED
  BY <1>4, <1>5, <1>6, MilestoneKeeps DEF RejectMilestone

LEMMA ApproveKeeps ==
  ASSUME IInv, NEW e \in Ids, NEW i, ApproveMilestone(e, i)
  PROVE  IInv'
<1> DEFINE x == escrow[e]
           m == [x.milestones EXCEPT ![i] = "Approved"]
<1>1. x \in EscrowStates /\ Sound(x, paid[e], e \in ruled, ledger)
  BY DEF IInv
<1>2. x.plan \in Seq(Int) /\ x.milestones \in Seq(MilestoneStatuses)
      /\ Len(x.milestones) = Len(x.plan)
  BY <1>1, EscrowAssumption DEF EscrowStates, Sound
<1>3. i \in DOMAIN x.milestones /\ x.milestones[i] = "Submitted"
  BY <1>2 DEF ApproveMilestone, Answerable
<1>4. m \in Seq(MilestoneStatuses) /\ Len(m) = Len(x.plan)
      /\ Cardinality(Approved(m)) = Cardinality(Approved(x.milestones)) + 1
  BY <1>2, <1>3, ApproveCounts
<1>5. escrow' = [escrow EXCEPT ![e].milestones = m, ![e].completed = x.completed + 1]
  BY <1>1 DEF ApproveMilestone, IInv, EscrowStates
<1>6. x.completed + 1 \in Nat /\ x.completed + 1 = Cardinality(Approved(m))
  BY <1>1, <1>4 DEF Sound, EscrowStates
<1> QED
  BY <1>4, <1>5, <1>6, MilestoneKeeps DEF ApproveMilestone

LEMMA ReleaseKeeps ==
  ASSUME IInv, NEW e \in Ids, ReleaseFunds(e)
  PROVE  IInv'
<1> DEFINE x == escrow[e]
           due == Due(x)
           total == ApprovedAmount(x)
           status == IF AllCompleted(x) THEN "Completed" ELSE "Active"
           booked == x.released + due
           y == [x EXCEPT !.released = booked, !.status = status]
           q == [paid[e] EXCEPT !.receiver = @ + due]
<1>1. x.status = "Active" /\ e < count /\ Sound(x, paid[e], e \in ruled, ledger)
  BY Created DEF ReleaseFunds, Active, IInv
<1>2. total \in Int /\ due = total - x.released /\ due <= x.deposited - x.released
      /\ vault' = vault - due
  <2>1. total \in Int
    <3>1. x.plan \in Seq(Int) /\ x.milestones \in Seq(MilestoneStatuses)
          /\ Len(x.milestones) = Len(x.plan)
      BY <1>1, EscrowAssumption DEF Sound, EscrowStates
    <3> QED
      BY <3>1, WorthType DEF ApprovedAmount
  <2> QED
    BY <2>1 DEF ReleaseFunds, Due, PayOut
<1>3. x.released \in Int /\ x.deposited \in Int /\ paid[e].receiver \in Int
      /\ paid[e].funder = 0 /\ x.released = paid[e].receiver + paid[e].funder
  BY <1>1 DEF Sound, Payments, EscrowStates
<1>4. /\ y \in EscrowStates
      /\ y.milestones = x.milestones /\ y.plan = x.plan
      /\ y.completed = x.completed /\ y.deposited = x.deposited
      /\ y.released = x.released + due
      /\ y.status = status
  <2>1. booked \in Int
    BY <1>2, <1>3
  <2>2. x \in EscrowStates /\ status \in {"Active", "Completed"}
    BY <1>1 DEF Sound
  <2>3. booked = x.released + due
    OBVIOUS
  <2> HIDE DEF booked, status
  <2> QED
    BY <2>1, <2>2, <2>3 DEF EscrowStates
<1>5. q \in Payments /\ q.receiver = total /\ q.funder = 0 /\ y.released = total
  <2>1. paid[e] \in Payments /\ due \in Int
    BY <1>1, <1>2, <1>3 DEF Sound
  <2>2. paid[e].receiver + due = total /\ x.released + due = total
    BY <1>2, <1>3
  <2> HIDE DEF due
  <2>3. q \in Payments /\ q.receiver = paid[e].receiver + due /\ q.funder = paid[e].funder
    BY <1>3, <2>1 DEF Payments
  <2> HIDE DEF q, y
  <2> QED
    BY <1>3, <1>4, <2>2, <2>3
<1>6. ApprovedAmount(y) = total
  BY <1>4 DEF ApprovedAmount
<1>7. ASSUME y.status = "Completed"
      PROVE  \A i \in DOMAIN y.plan : y.milestones[i] = "Approved"
  <2>1. x.completed = Len(x.plan)
    BY <1>4, <1>7 DEF AllCompleted
  <2>2. x.milestones \in Seq(MilestoneStatuses) /\ x.plan \in Seq(Int)
        /\ Len(x.milestones) = Len(x.plan)
    BY <1>1, EscrowAssumption DEF Sound, EscrowStates
  <2>3. Cardinality(Approved(x.milestones)) = Len(x.milestones)
    BY <1>1, <2>1, <2>2 DEF Sound
  <2>4. \A i \in 1 .. Len(x.milestones) : x.milestones[i] = "Approved"
    BY <2>2, <2>3, ApprovedFinite
  <2>5. DOMAIN y.plan = 1 .. Len(x.milestones) /\ y.milestones = x.milestones
    BY <1>4, <2>2
  <2> HIDE DEF y, x
  <2> QED
    BY <2>4, <2>5
<1>8. Sound(y, q, e \in ruled, ledger)
  <2>1. y.released <= y.deposited
    BY <1>2, <1>3, <1>4
  <2>2. y.status \in {"Active", "Completed"}
    BY <1>4
  <2> HIDE DEF due, total, status, y, q
  <2>3. y.released = q.receiver + q.funder
    BY <1>2, <1>5
  <2> QED
    BY <1>1, <1>4, <1>5, <1>6, <1>7, <2>1, <2>2, <2>3 DEF Sound
<1>9. escrow' = [escrow EXCEPT ![e] = y] /\ paid' = [paid EXCEPT ![e] = q]
  BY <1>1 DEF ReleaseFunds, IInv, Sound, EscrowStates, Payments
<1>10. vault' \in Int
  BY <1>2, <1>3 DEF IInv
<1> QED
  BY <1>1, <1>8, <1>9, <1>10, OneEscrow DEF ReleaseFunds, settings, IInv

LEMMA RefundKeeps ==
  ASSUME IInv, NEW e \in Ids, Refund(e)
  PROVE  IInv'
<1> DEFINE x == escrow[e]
           remaining == Remaining(x)
           booked == x.released + remaining
           y == [x EXCEPT !.released = booked, !.status = "Refunded"]
           q == [paid[e] EXCEPT !.funder = @ + remaining]
<1>1. x.status = "Active" /\ e < count /\ Sound(x, paid[e], e \in ruled, ledger)
  BY Created DEF Refund, Active, IInv
<1>2. remaining = x.deposited - x.released /\ vault' = vault - remaining /\ Refundable(x)
  BY DEF Refund, Remaining, PayOut
<1>3. x.released \in Int /\ x.deposited \in Int /\ paid[e].receiver \in Int
      /\ paid[e].funder \in Int /\ x.released = paid[e].receiver + paid[e].funder
  BY <1>1 DEF Sound, Payments, EscrowStates
<1>4. remaining \in Int
  BY <1>2, <1>3
<1>5. y \in EscrowStates /\ y.milestones = x.milestones /\ y.plan = x.plan
      /\ y.completed = x.completed /\ y.deposited = x.deposited
      /\ y.deadline = x.deadline /\ y.status = "Refunded"
      /\ y.released = x.released + remaining
  <2>1. x \in EscrowStates /\ booked \in Int /\ booked = x.released + remaining
    BY <1>1, <1>3, <1>4 DEF Sound
  <2> HIDE DEF booked
  <2> QED
    BY <2>1 DEF EscrowStates
<1>6. q \in Payments /\ q.receiver = paid[e].receiver /\ q.funder = paid[e].funder + remaining
  BY <1>1, <1>3, <1>4 DEF Sound, Payments
<1>7. y.released = q.receiver + q.funder /\ y.released = y.deposited
  BY <1>2, <1>3, <1>5, <1>6
<1>8. AllRejected(y) \/ ledger >= y.deadline
  BY <1>2, <1>5 DEF Refundable, AllRejected
<1>9. Sound(y, q, e \in ruled, ledger)
  <2>1. y.released <= y.deposited
    BY <1>3, <1>5, <1>7
  <2> QED
    BY <1>1, <1>5, <1>6, <1>7, <1>8, <2>1 DEF Sound
<1>10. escrow' = [escrow EXCEPT ![e] = y] /\ paid' = [paid EXCEPT ![e] = q]
  BY <1>1 DEF Refund, IInv, Sound, EscrowStates, Payments
<1>11. vault' \in Int
  BY <1>2, <1>4 DEF IInv
<1> QED
  BY <1>1, <1>9, <1>10, <1>11, OneEscrow DEF Refund, settings, IInv

LEMMA DisputeKeeps ==
  ASSUME IInv, NEW e \in Ids, Dispute(e)
  PROVE  IInv'
<1> DEFINE x == escrow[e]
           y == [x EXCEPT !.status = "Disputed"]
<1>1. x.status = "Active" /\ e < count /\ Sound(x, paid[e], e \in ruled, ledger)
  BY Created DEF Dispute, Active, IInv
<1>2. Sound(y, paid[e], e \in ruled, ledger)
  BY <1>1 DEF Sound, EscrowStates, Payments
<1>3. escrow' = [escrow EXCEPT ![e] = y] /\ paid' = [paid EXCEPT ![e] = paid[e]]
  BY DEF Dispute, IInv
<1> QED
  BY <1>1, <1>2, <1>3, OneEscrow DEF Dispute, settings, IInv

LEMMA ResolveKeeps ==
  ASSUME IInv, NEW e \in Ids, NEW party \in Parties, Resolve(e, party)
  PROVE  IInv'
<1> DEFINE x == escrow[e]
           remaining == Remaining(x)
           status == IF party = "receiver" THEN "Completed" ELSE "Refunded"
           booked == x.released + remaining
           y == [x EXCEPT !.released = booked, !.status = status]
           q == [paid[e] EXCEPT ![party] = @ + remaining]
<1>1. x.status = "Disputed" /\ e < count /\ Sound(x, paid[e], e \in ruled, ledger)
  BY Created DEF Resolve, IInv
<1>2. remaining = x.deposited - x.released /\ vault' = vault - remaining
      /\ ruled' = ruled \union {e}
  BY DEF Resolve, Remaining, PayOut
<1>3. x.released \in Int /\ x.deposited \in Int /\ paid[e].receiver \in Int
      /\ paid[e].funder \in Int /\ x.released = paid[e].receiver + paid[e].funder
  BY <1>1 DEF Sound, Payments, EscrowStates
<1>4. remaining \in Int
  BY <1>2, <1>3
<1>5. y \in EscrowStates /\ y.milestones = x.milestones /\ y.plan = x.plan
      /\ y.completed = x.completed /\ y.deposited = x.deposited
      /\ y.status \in {"Completed", "Refunded"} /\ y.released = x.released + remaining
  <2>1. x \in EscrowStates /\ status \in {"Completed", "Refunded"}
    BY <1>1 DEF Sound
  <2>2. booked \in Int /\ booked = x.released + remaining
    BY <1>3, <1>4
  <2> HIDE DEF booked, status
  <2> QED
    BY <2>1, <2>2 DEF EscrowStates
<1>6. q \in Payments /\ y.released = q.receiver + q.funder
  <2>1. CASE party = "receiver"
    BY <1>1, <1>3, <1>4, <1>5, <2>1 DEF Sound, Payments
  <2>2. CASE party = "funder"
    BY <1>1, <1>3, <1>4, <1>5, <2>2 DEF Sound, Payments
  <2> QED
    BY <2>1, <2>2 DEF Parties
<1>7. Sound(y, q, e \in ruled', ledger)
  <2>1. y.released <= y.deposited
    BY <1>2, <1>3, <1>5
  <2> QED
    BY <1>1, <1>2, <1>5, <1>6, <2>1 DEF Sound
<1>8. escrow' = [escrow EXCEPT ![e] = y] /\ paid' = [paid EXCEPT ![e] = q]
  BY <1>1 DEF Resolve, IInv, Sound, EscrowStates, Payments, Parties
<1>9. vault' \in Int /\ ruled' \in SUBSET Ids /\ ruled' \ {e} = ruled \ {e}
  BY <1>2, <1>4 DEF IInv
<1> QED
  BY ZenonT(30), <1>1, <1>7, <1>8, <1>9, OneEscrow DEF Resolve, settings, IInv

-----------------------------------------------------------------------------
(* The contract as a whole.                                                   *)

LEMMA NothingApproved ==
  ASSUME NEW m \in Seq(MilestoneStatuses), \A i \in DOMAIN m : m[i] = "Pending"
  PROVE  Cardinality(Approved(m)) = 0
<1>1. Approved(m) = {}
  BY DEF Approved
<1> QED
  BY <1>1, FS_EmptySet

LEMMA InitIInv == Init => IInv
<1> SUFFICES ASSUME Init PROVE IInv
  OBVIOUS
<1>1. MaxLedger \in Nat /\ MaxDeposit \in Nat /\ MaxEscrows \in Nat
  BY EscrowAssumption
<1>2. NoEscrow \in EscrowStates /\ [receiver |-> 0, funder |-> 0] \in Payments
  BY <1>1 DEF NoEscrow, EscrowStates, Payments
<1>3. <<>> \in Seq(MilestoneStatuses) /\ Cardinality(Approved(<<>>)) = 0
  <2>1. <<>> \in Seq(MilestoneStatuses) /\ \A i \in DOMAIN <<>> : <<>>[i] = "Pending"
    OBVIOUS
  <2> QED
    BY <2>1, NothingApproved
<1>4. Sound(NoEscrow, [receiver |-> 0, funder |-> 0], FALSE, ledger)
  BY <1>1, <1>2, <1>3 DEF Sound, NoEscrow
<1>5. ASSUME NEW e \in Ids PROVE Sound(escrow[e], paid[e], e \in ruled, ledger)
  <2>1. escrow[e] = NoEscrow /\ paid[e] = [receiver |-> 0, funder |-> 0]
        /\ (e \in ruled) = FALSE
    BY DEF Init
  <2> QED
    BY <1>4, <2>1
<1>6. \A e \in Ids : escrow[e] = NoEscrow /\ paid[e] = [receiver |-> 0, funder |-> 0]
  BY DEF Init
<1>7. escrow \in [Ids -> EscrowStates] /\ paid \in [Ids -> Payments]
  BY <1>2 DEF Init
<1>8. ledger \in 0 .. MaxLedger /\ count \in 0 .. MaxEscrows /\ vault \in Int
  BY <1>1 DEF Init
<1>9. admin \in Admins /\ paused \in BOOLEAN /\ ruled \subseteq Ids
  BY DEF Init
<1> QED
  BY <1>5, <1>6, <1>7, <1>8, <1>9 DEF IInv

LEMMA CreateKeeps ==
  ASSUME IInv, NEW plan \in Plans, NEW deadline \in 0 .. MaxLedger, CreateEscrow(plan, deadline)
  PROVE  IInv'
<1> DEFINE e == count
           m == [i \in DOMAIN plan |-> "Pending"]
           y == [NoEscrow EXCEPT !.status = "Active", !.plan = plan, !.deadline = deadline,
                                 !.milestones = m]
           none == [receiver |-> 0, funder |-> 0]
<1>1. MaxLedger \in Nat /\ MaxDeposit \in Nat /\ MaxEscrows \in Nat /\ plan \in Seq(Int)
  BY EscrowAssumption
<1>2. e \in Ids /\ count' = count + 1 /\ count' \in 0 .. MaxEscrows
  BY <1>1 DEF CreateEscrow, IInv, Ids
<1>3. m \in Seq(MilestoneStatuses) /\ Len(m) = Len(plan) /\ Cardinality(Approved(m)) = 0
  <2>1. m \in Seq(MilestoneStatuses) /\ Len(m) = Len(plan) /\ \A i \in DOMAIN m : m[i] = "Pending"
    BY <1>1 DEF MilestoneStatuses
  <2> HIDE DEF m
  <2> QED
    BY <2>1, NothingApproved
<1>4. /\ y \in EscrowStates /\ y.milestones = m /\ y.plan = plan
      /\ y.completed = 0 /\ y.released = 0 /\ y.deposited = 0 /\ y.status = "Active"
  <2> HIDE DEF m
  <2>1. /\ y.milestones = m /\ y.plan = plan /\ y.deadline = deadline
        /\ y.completed = 0 /\ y.released = 0 /\ y.deposited = 0 /\ y.status = "Active"
    BY DEF NoEscrow
  <2>2. NoEscrow \in EscrowStates
    BY <1>1 DEF NoEscrow, EscrowStates
  <2>3. y \in EscrowStates
    BY <1>3, <2>2 DEF EscrowStates
  <2> QED
    BY <2>1, <2>3
<1>5. paid[e] = none /\ none \in Payments
  BY <1>2 DEF IInv, Ids, Payments
<1>6. Sound(y, none, e \in ruled, ledger)
  <2> HIDE DEF y, m
  <2> QED
    BY <1>3, <1>4, <1>5 DEF Sound
<1>7. escrow' = [escrow EXCEPT ![e] = y] /\ UNCHANGED <<ledger, admin, paused, vault, paid, ruled>>
  BY DEF CreateEscrow, settings
<1>8. escrow' \in [Ids -> EscrowStates]
  BY <1>4, <1>7 DEF IInv
<1>9. ASSUME NEW d \in Ids PROVE Sound(escrow'[d], paid'[d], d \in ruled', ledger')
  <2>1. CASE d = e
    BY <1>2, <1>5, <1>6, <1>7, <2>1 DEF IInv
  <2>2. CASE d # e
    BY <1>7, <2>2 DEF IInv
  <2> QED
    BY <2>1, <2>2
<1>10. ASSUME NEW d \in Ids, d >= count' PROVE escrow'[d] = NoEscrow /\ paid'[d] = none
  <2>1. d # e /\ d >= count
    BY <1>2, <1>10 DEF Ids, IInv
  <2> QED
    BY <1>7, <2>1 DEF IInv
<1> QED
  BY <1>2, <1>7, <1>8, <1>9, <1>10 DEF IInv

LEMMA LedgerKeeps == ASSUME IInv, CloseLedger PROVE IInv'
<1>1. ledger \in Int /\ ledger' \in 0 .. MaxLedger /\ ledger' = ledger + 1
  BY EscrowAssumption DEF CloseLedger, IInv
<1>2. UNCHANGED <<admin, paused, count, escrow, vault, paid, ruled>>
  BY DEF CloseLedger, settings
<1>3. ASSUME NEW e \in Ids PROVE Sound(escrow[e], paid[e], e \in ruled, ledger')
  <2>1. Sound(escrow[e], paid[e], e \in ruled, ledger) /\ escrow[e].deadline \in Int
    BY DEF IInv, Sound, EscrowStates
  <2>2. ledger >= escrow[e].deadline => ledger' >= escrow[e].deadline
    BY <1>1, <2>1
  <2> QED
    BY <2>1, <2>2 DEF Sound
<1> QED
  BY <1>1, <1>2, <1>3 DEF IInv

LEMMA NextIInv == IInv /\ [Next]_vars => IInv'
<1> SUFFICES ASSUME IInv, [Next]_vars PROVE IInv'
  OBVIOUS
<1>1. CASE \E plan \in Plans, deadline \in 0 .. MaxLedger : CreateEscrow(plan, deadline)
  BY <1>1, CreateKeeps
<1>2. CASE \E e \in Ids, amount \in Amounts : FundEscrow(e, amount)
  BY <1>2, FundKeeps
<1>3. CASE \E e \in Ids, i \in Milestones : SubmitMilestone(e, i)
  BY <1>3, SubmitKeeps
<1>4. CASE \E e \in Ids, i \in Milestones : ApproveMilestone(e, i)
  BY <1>4, ApproveKeeps
<1>5. CASE \E e \in Ids, i \in Milestones : RejectMilestone(e, i)
  BY <1>5, RejectKeeps
<1>6. CASE \E e \in Ids : ReleaseFunds(e)
  BY <1>6, ReleaseKeeps
<1>7. CASE \E e \in Ids : Refund(e)
  BY <1>7, RefundKeeps
<1>8. CASE \E e \in Ids : Dispute(e)
  BY <1>8, DisputeKeeps
<1>9. CASE \E e \in Ids, party \in Parties : Resolve(e, party)
  BY <1>9, ResolveKeeps
<1>10. CASE \E caller \in Admins, value \in BOOLEAN : SetPaused(caller, value)
  BY <1>10 DEF SetPaused, IInv
<1>11. CASE \E caller, successor \in Admins : SetAdmin(caller, successor)
  BY <1>11 DEF SetAdmin, IInv
<1>12. CASE CloseLedger
  BY <1>12, LedgerKeeps
<1>13. CASE UNCHANGED vars
  BY <1>13 DEF vars, settings, IInv
<1> QED
  BY <1>1, <1>2, <1>3, <1>4, <1>5, <1>6, <1>7, <1>8, <1>9, <1>10, <1>11, <1>12, <1>13 DEF Next

LEMMA Invariant == Spec => []IInv
BY InitIInv, NextIInv, PTL DEF Spec

-----------------------------------------------------------------------------
(* The results.                                                               *)

\* Every escrow keeps one status for each milestone of its plan and never
\* counts more completed milestones than it has (milestones_completed).
THEOREM TypeCorrect == Spec => []TypeOK
<1>1. IInv => TypeOK
  <2> SUFFICES ASSUME IInv PROVE TypeOK
    OBVIOUS
  <2>1. ASSUME NEW e \in Ids PROVE escrow[e].completed <= Len(escrow[e].plan)
    <3>1. Sound(escrow[e], paid[e], e \in ruled, ledger) /\ escrow[e].milestones \in Seq(MilestoneStatuses)
      BY DEF IInv, Sound, EscrowStates
    <3> QED
      BY <3>1, ApprovedFinite DEF Sound
  <2> QED
    BY <2>1 DEF TypeOK, IInv, Sound, Payments
<1> QED
  BY <1>1, Invariant, PTL

\* Whatever the plans, the deposits and the order of the calls, an escrow pays
\* no more than was deposited in it, and all that it books as released has
\* reached its receiver or its funder.
THEOREM EscrowPaysItsDeposits == Spec => []PaysItsDeposits
<1>1. IInv => PaysItsDeposits
  BY DEF IInv, Sound, PaysItsDeposits
<1> QED
  BY <1>1, Invariant, PTL

\* Unless an arbitrator ruled, a funder gets money back only when the deadline
\* has passed or every milestone was rejected, and the escrow then ends.
THEOREM EscrowRefundsJustly == Spec => []RefundJustified
<1>1. IInv => RefundJustified
  BY DEF IInv, Sound, RefundJustified
<1> QED
  BY <1>1, Invariant, PTL

\* Unless an arbitrator ruled, a completed escrow has every milestone approved
\* and has paid its receiver exactly what the approved milestones are worth.
THEOREM EscrowCompletesWhenEarned == Spec => []CompletedIsEarned
<1>1. IInv => CompletedIsEarned
  BY DEF IInv, Sound, CompletedIsEarned
<1> QED
  BY <1>1, Invariant, PTL

-----------------------------------------------------------------------------
(* The money of all escrows.                                                  *)

\* The receiver of e got no more than the approved milestones are worth.
EarnedOnly(e) == NoDebts(escrow[e].plan) => paid[e].receiver <= ApprovedAmount(escrow[e])

\* What a call on escrow e does to the money: the other escrows keep theirs, the
\* contract's balance moves with what e has not paid out, and e stays earned.
MoneyStep(e) ==
  /\ \A d \in Ids \ {e} :
       escrow'[d] = escrow[d] /\ paid'[d] = paid[d] /\ (d \in ruled' <=> d \in ruled)
  /\ vault' - vault = (escrow'[e].deposited - escrow'[e].released)
                        - (escrow[e].deposited - escrow[e].released)
  /\ e \notin ruled' => e \notin ruled /\ (EarnedOnly(e) => EarnedOnly(e)')

\* The facts about the amounts that every step starts from.
LEMMA MoneyTypes ==
  ASSUME IInv, NEW e \in Ids
  PROVE  /\ escrow[e].deposited \in Int /\ escrow[e].released \in Int /\ vault \in Int
         /\ paid[e].receiver \in Int
         /\ escrow[e].plan \in Seq(Int) /\ escrow[e].milestones \in Seq(MilestoneStatuses)
         /\ Len(escrow[e].milestones) = Len(escrow[e].plan)
         /\ ApprovedAmount(escrow[e]) \in Int
<1>1. Sound(escrow[e], paid[e], e \in ruled, ledger) /\ MaxDeposit \in Nat
  BY EscrowAssumption DEF IInv
<1>2. escrow[e].plan \in Seq(Int) /\ escrow[e].milestones \in Seq(MilestoneStatuses)
      /\ Len(escrow[e].milestones) = Len(escrow[e].plan)
  BY <1>1, EscrowAssumption DEF Sound, EscrowStates
<1>3. escrow[e].deposited \in Int /\ escrow[e].released \in Int /\ paid[e].receiver \in Int
  BY <1>1 DEF Sound, EscrowStates, Payments
<1> QED
  BY <1>2, <1>3, WorthType DEF IInv, ApprovedAmount

LEMMA CreateMoney ==
  ASSUME IInv, NEW plan \in Plans, NEW deadline \in 0 .. MaxLedger, CreateEscrow(plan, deadline)
  PROVE  \E e \in Ids : MoneyStep(e)
<1> DEFINE m == [i \in DOMAIN plan |-> "Pending"]
<1>1. PICK e \in Ids : e = count
  BY EscrowAssumption DEF CreateEscrow, IInv, Ids
<1>2. escrow[e] = NoEscrow /\ paid[e] = [receiver |-> 0, funder |-> 0]
  BY <1>1 DEF IInv, Ids
<1>3. /\ escrow'[e].deposited = 0 /\ escrow'[e].released = 0
      /\ escrow'[e].plan = plan /\ escrow'[e].milestones = m
      /\ \A d \in Ids \ {e} : escrow'[d] = escrow[d]
      /\ UNCHANGED <<vault, paid, ruled>>
  BY <1>1 DEF CreateEscrow, IInv, NoEscrow
<1>4. Approved(m) = {}
  BY DEF Approved
<1>5. ApprovedAmount(escrow'[e]) = 0
  <2>1. SumOver(plan, {}) = 0
    BY SumEmpty
  <2> QED
    BY <1>3, <1>4, <2>1 DEF ApprovedAmount, Worth
<1>6. EarnedOnly(e)'
  <2>1. paid'[e].receiver = 0 /\ ApprovedAmount(escrow[e])' = 0
    BY <1>2, <1>3, <1>5
  <2> QED
    BY <2>1 DEF EarnedOnly
<1>7. escrow[e].deposited = escrow[e].released
  BY <1>2 DEF NoEscrow
<1>8. vault' - vault = (escrow'[e].deposited - escrow'[e].released)
                         - (escrow[e].deposited - escrow[e].released)
  BY <1>1, <1>3, <1>7, MoneyTypes
<1> QED
  BY <1>1, <1>3, <1>6, <1>8 DEF MoneyStep
LEMMA FundMoney ==
  ASSUME IInv, NEW e \in Ids, NEW amount \in Amounts, FundEscrow(e, amount)
  PROVE  MoneyStep(e)
<1>1. escrow[e] \in EscrowStates /\ amount \in Int
  BY EscrowAssumption DEF IInv
<1>2. escrow'[e] = Funded(escrow[e], amount) /\ \A d \in Ids \ {e} : escrow'[d] = escrow[d]
  BY DEF FundEscrow, IInv
<1>3. /\ escrow'[e].deposited = escrow[e].deposited + amount
      /\ escrow'[e].released = escrow[e].released
      /\ escrow'[e].plan = escrow[e].plan
      /\ escrow'[e].milestones = escrow[e].milestones
  BY <1>1, <1>2 DEF Funded, EscrowStates
<1>4. vault' = vault + amount /\ UNCHANGED <<paid, ruled>>
  BY DEF FundEscrow
<1>5. EarnedOnly(e) => EarnedOnly(e)'
  BY <1>3, <1>4 DEF EarnedOnly, ApprovedAmount
<1>6. vault' - vault = (escrow'[e].deposited - escrow'[e].released)
                         - (escrow[e].deposited - escrow[e].released)
  <2>1. escrow[e].deposited \in Int /\ escrow[e].released \in Int /\ vault \in Int
    BY MoneyTypes
  <2> QED
    BY <1>1, <1>3, <1>4, <2>1
<1> QED
  BY <1>2, <1>4, <1>5, <1>6 DEF MoneyStep

\* Submitting or rejecting a milestone moves no money.
LEMMA AnswerMoney ==
  ASSUME IInv, NEW e \in Ids, NEW i, SubmitMilestone(e, i) \/ RejectMilestone(e, i)
  PROVE  MoneyStep(e)
<1> DEFINE x == escrow[e]
<1>1. PICK v \in {"Submitted", "Rejected"} :
        escrow' = [escrow EXCEPT ![e].milestones[i] = v]
  BY DEF SubmitMilestone, RejectMilestone
<1>2. /\ i \in DOMAIN x.plan
      /\ x.milestones[i] \in {"Pending", "Submitted"}
      /\ UNCHANGED <<vault, paid, ruled>>
  BY DEF SubmitMilestone, RejectMilestone, Answerable
<1>3. x \in EscrowStates /\ escrow \in [Ids -> EscrowStates]
  BY DEF IInv
<1>4. /\ escrow'[e].deposited = x.deposited
      /\ escrow'[e].released = x.released
      /\ escrow'[e].plan = x.plan
      /\ escrow'[e].milestones = [x.milestones EXCEPT ![i] = v]
      /\ \A d \in Ids \ {e} : escrow'[d] = escrow[d]
  BY <1>1, <1>3 DEF EscrowStates
<1>5. i \in DOMAIN x.milestones /\ x.milestones \in Seq(MilestoneStatuses)
  BY <1>2, MoneyTypes
<1>6. Approved(escrow'[e].milestones) = Approved(x.milestones)
  <2>1. x.milestones[i] # "Approved"
    BY <1>2
  <2>2. Approved([x.milestones EXCEPT ![i] = v]) = Approved(x.milestones)
    BY <1>5, <2>1, OthersDoNotCount
  <2> QED
    BY <1>4, <2>2
<1>7. EarnedOnly(e) => EarnedOnly(e)'
  BY <1>2, <1>4, <1>6 DEF EarnedOnly, ApprovedAmount, Worth
<1>8. vault' - vault = (escrow'[e].deposited - escrow'[e].released)
                         - (escrow[e].deposited - escrow[e].released)
  BY <1>2, <1>4, MoneyTypes
<1> QED
  BY <1>2, <1>4, <1>7, <1>8 DEF MoneyStep

\* An approval can only add to what the receiver has earned, if no milestone is
\* worth less than nothing.
LEMMA ApproveMoney ==
  ASSUME IInv, NEW e \in Ids, NEW i, ApproveMilestone(e, i)
  PROVE  MoneyStep(e)
<1> DEFINE x == escrow[e]
           m == x.milestones
           n == [m EXCEPT ![i] = "Approved"]
<1>1. /\ i \in DOMAIN x.plan /\ m[i] = "Submitted"
      /\ UNCHANGED <<vault, paid, ruled>>
  BY DEF ApproveMilestone, Answerable
<1>2. x \in EscrowStates /\ escrow \in [Ids -> EscrowStates]
  BY DEF IInv
<1>3. /\ escrow'[e].deposited = x.deposited
      /\ escrow'[e].released = x.released
      /\ escrow'[e].plan = x.plan
      /\ escrow'[e].milestones = n
      /\ \A d \in Ids \ {e} : escrow'[d] = escrow[d]
  BY <1>2 DEF ApproveMilestone, EscrowStates
<1>4. i \in DOMAIN m /\ m \in Seq(MilestoneStatuses) /\ x.plan \in Seq(Int) /\ Len(m) = Len(x.plan)
  BY <1>1, MoneyTypes
<1>5. Approved(n) = Approved(m) \cup {i} /\ i \notin Approved(m) /\ IsFiniteSet(Approved(m))
  BY <1>1, <1>4, ApprovedFinite DEF Approved, MilestoneStatuses
<1>6. \A j \in Approved(m) \cup {i} : x.plan[j] \in Int
  BY <1>4 DEF Approved
<1>7. SumOver(x.plan, Approved(m) \cup {i}) = x.plan[i] + SumOver(x.plan, Approved(m))
  BY <1>5, <1>6, SumAdd
<1>8. Worth(x.plan, n) = x.plan[i] + Worth(x.plan, m)
  BY <1>5, <1>7 DEF Worth
<1>9. ASSUME EarnedOnly(e) PROVE EarnedOnly(e)'
  <2>1. SUFFICES ASSUME NoDebts(x.plan)
                 PROVE  paid[e].receiver <= Worth(x.plan, n)
    BY <1>1, <1>3 DEF EarnedOnly, ApprovedAmount
  <2>2. x.plan[i] \in Int /\ x.plan[i] >= 0
    BY <1>1, <1>4, <2>1 DEF NoDebts
  <2>3. paid[e].receiver <= Worth(x.plan, m)
    BY <1>9, <2>1 DEF EarnedOnly, ApprovedAmount
  <2>4. Worth(x.plan, m) \in Int /\ paid[e].receiver \in Int
    BY MoneyTypes DEF ApprovedAmount
  <2> QED
    BY <1>8, <2>2, <2>3, <2>4
<1>10. vault' - vault = (escrow'[e].deposited - escrow'[e].released)
                          - (escrow[e].deposited - escrow[e].released)
  BY <1>1, <1>3, MoneyTypes
<1> QED
  BY <1>1, <1>3, <1>9, <1>10 DEF MoneyStep

\* A release pays what the approved milestones are worth, less what was paid.
LEMMA ReleaseMoney ==
  ASSUME IInv, NEW e \in Ids, ReleaseFunds(e)
  PROVE  MoneyStep(e)
<1> DEFINE x == escrow[e]
           due == Due(x)
<1>1. /\ x \in EscrowStates /\ escrow \in [Ids -> EscrowStates]
      /\ paid[e] \in Payments /\ paid \in [Ids -> Payments]
      /\ Sound(x, paid[e], e \in ruled, ledger)
      /\ x.status = "Active"
  BY DEF IInv, ReleaseFunds, Active
<1>2. due = ApprovedAmount(x) - x.released
  BY DEF Due
<1>3. x.released = paid[e].receiver
  BY <1>1 DEF Sound, Payments
<1>4. /\ escrow'[e].deposited = x.deposited
      /\ escrow'[e].released = x.released + due
      /\ escrow'[e].plan = x.plan
      /\ escrow'[e].milestones = x.milestones
      /\ \A d \in Ids \ {e} : escrow'[d] = escrow[d]
  BY <1>1 DEF ReleaseFunds, EscrowStates
<1>5. /\ paid'[e].receiver = paid[e].receiver + due
      /\ \A d \in Ids \ {e} : paid'[d] = paid[d]
      /\ vault' = vault - due /\ ruled' = ruled
  BY <1>1 DEF ReleaseFunds, Payments, PayOut
<1>6. paid'[e].receiver = ApprovedAmount(x)
  BY <1>2, <1>3, <1>5, MoneyTypes
<1>7. EarnedOnly(e)'
  BY <1>4, <1>6, MoneyTypes DEF EarnedOnly, ApprovedAmount
<1>8. vault' - vault = (escrow'[e].deposited - escrow'[e].released)
                         - (escrow[e].deposited - escrow[e].released)
  BY <1>2, <1>4, <1>5, MoneyTypes
<1> QED
  BY <1>4, <1>5, <1>7, <1>8 DEF MoneyStep

LEMMA RefundMoney ==
  ASSUME IInv, NEW e \in Ids, Refund(e)
  PROVE  MoneyStep(e)
<1> DEFINE x == escrow[e]
           remaining == Remaining(x)
<1>1. /\ x \in EscrowStates /\ escrow \in [Ids -> EscrowStates]
      /\ paid[e] \in Payments /\ paid \in [Ids -> Payments]
  BY DEF IInv
<1>2. remaining = x.deposited - x.released
  BY DEF Remaining
<1>3. /\ escrow'[e].deposited = x.deposited
      /\ escrow'[e].released = x.released + remaining
      /\ escrow'[e].plan = x.plan
      /\ escrow'[e].milestones = x.milestones
      /\ \A d \in Ids \ {e} : escrow'[d] = escrow[d]
  BY <1>1 DEF Refund, EscrowStates
<1>4. /\ paid'[e].receiver = paid[e].receiver
      /\ \A d \in Ids \ {e} : paid'[d] = paid[d]
      /\ vault' = vault - remaining /\ ruled' = ruled
  BY <1>1 DEF Refund, Payments, PayOut
<1>5. EarnedOnly(e) => EarnedOnly(e)'
  BY <1>3, <1>4 DEF EarnedOnly, ApprovedAmount
<1>6. vault' - vault = (escrow'[e].deposited - escrow'[e].released)
                         - (escrow[e].deposited - escrow[e].released)
  BY <1>2, <1>3, <1>4, MoneyTypes
<1> QED
  BY <1>3, <1>4, <1>5, <1>6 DEF MoneyStep

\* A ruling may pay anyone, but only what remains of its own escrow.
LEMMA ResolveMoney ==
  ASSUME IInv, NEW e \in Ids, NEW party \in Parties, Resolve(e, party)
  PROVE  MoneyStep(e)
<1> DEFINE x == escrow[e]
           remaining == Remaining(x)
<1>1. x \in EscrowStates /\ escrow \in [Ids -> EscrowStates] /\ paid \in [Ids -> Payments]
  BY DEF IInv
<1>2. remaining = x.deposited - x.released
  BY DEF Remaining
<1>3. /\ escrow'[e].deposited = x.deposited
      /\ escrow'[e].released = x.released + remaining
      /\ \A d \in Ids \ {e} : escrow'[d] = escrow[d]
  BY <1>1 DEF Resolve, EscrowStates
<1>4. /\ \A d \in Ids \ {e} : paid'[d] = paid[d]
      /\ vault' = vault - remaining /\ ruled' = ruled \cup {e}
  BY <1>1 DEF Resolve, PayOut
<1>5. vault' - vault = (escrow'[e].deposited - escrow'[e].released)
                         - (escrow[e].deposited - escrow[e].released)
  BY <1>2, <1>3, <1>4, MoneyTypes
<1> QED
  BY <1>3, <1>4, <1>5 DEF MoneyStep

LEMMA DisputeMoney ==
  ASSUME IInv, NEW e \in Ids, Dispute(e)
  PROVE  MoneyStep(e)
<1>1. escrow \in [Ids -> EscrowStates] /\ escrow[e] \in EscrowStates
  BY DEF IInv
<1>2. /\ escrow'[e].deposited = escrow[e].deposited
      /\ escrow'[e].released = escrow[e].released
      /\ escrow'[e].plan = escrow[e].plan
      /\ escrow'[e].milestones = escrow[e].milestones
      /\ \A d \in Ids \ {e} : escrow'[d] = escrow[d]
      /\ UNCHANGED <<vault, paid, ruled>>
  BY <1>1 DEF Dispute, EscrowStates
<1>3. EarnedOnly(e) => EarnedOnly(e)'
  BY <1>2 DEF EarnedOnly, ApprovedAmount
<1>4. vault' - vault = (escrow'[e].deposited - escrow'[e].released)
                         - (escrow[e].deposited - escrow[e].released)
  BY <1>2, MoneyTypes
<1> QED
  BY <1>2, <1>3, <1>4 DEF MoneyStep

\* Every step moves the money of at most one escrow.
LEMMA NextMoney ==
  ASSUME IInv, [Next]_vars
  PROVE  UNCHANGED <<escrow, vault, paid, ruled>> \/ \E e \in Ids : MoneyStep(e)
<1>1. CASE \E plan \in Plans, deadline \in 0 .. MaxLedger : CreateEscrow(plan, deadline)
  BY <1>1, CreateMoney
<1>2. CASE \E e \in Ids, amount \in Amounts : FundEscrow(e, amount)
  BY <1>2, FundMoney
<1>3. CASE \E e \in Ids, i \in Milestones : SubmitMilestone(e, i) \/ RejectMilestone(e, i)
  BY <1>3, AnswerMoney
<1>4. CASE \E e \in Ids, i \in Milestones : ApproveMilestone(e, i)
  BY <1>4, ApproveMoney
<1>5. CASE \E e \in Ids : ReleaseFunds(e)
  BY <1>5, ReleaseMoney
<1>6. CASE \E e \in Ids : Refund(e)
  BY <1>6, RefundMoney
<1>7. CASE \E e \in Ids : Dispute(e)
  BY <1>7, DisputeMoney
<1>8. CASE \E e \in Ids, party \in Parties : Resolve(e, party)
  BY <1>8, ResolveMoney
<1>9. CASE UNCHANGED <<escrow, vault, paid, ruled>>
  BY <1>9
<1> QED
  BY <1>1, <1>2, <1>3, <1>4, <1>5, <1>6, <1>7, <1>8, <1>9
     DEF Next, vars, SetPaused, SetAdmin, CloseLedger

LEMMA InitMoney == Init => MoneyAddsUp
<1> SUFFICES ASSUME Init PROVE MoneyAddsUp
  OBVIOUS
<1>1. IsFiniteSet(Ids)
  BY EscrowAssumption, FS_Interval DEF Ids
<1>2. DOMAIN Unpaid = Ids /\ \A e \in Ids : Unpaid[e] = 0
  BY DEF Init, Unpaid, NoEscrow
<1>3. Total(Unpaid) = 0
  BY <1>1, <1>2, SumZero DEF Total
<1>4. ASSUME NEW e \in Ids PROVE paid[e].receiver <= ApprovedAmount(escrow[e])
  <2>1. escrow[e].milestones = <<>> /\ paid[e].receiver = 0
    BY DEF Init, NoEscrow
  <2>2. Approved(escrow[e].milestones) = {}
    BY <2>1 DEF Approved
  <2>3. SumOver(escrow[e].plan, {}) = 0
    BY SumEmpty
  <2>4. ApprovedAmount(escrow[e]) = 0
    BY <2>2, <2>3 DEF ApprovedAmount, Worth
  <2> QED
    BY <2>1, <2>4
<1> QED
  BY <1>3, <1>4 DEF Init, MoneyAddsUp, VaultHoldsRemaining, ReceiverEarned

LEMMA NextMoneyAddsUp == IInv /\ MoneyAddsUp /\ [Next]_vars => MoneyAddsUp'
<1> SUFFICES ASSUME IInv, MoneyAddsUp, [Next]_vars PROVE MoneyAddsUp'
  OBVIOUS
<1>1. CASE UNCHANGED <<escrow, vault, paid, ruled>>
  BY <1>1 DEF MoneyAddsUp, VaultHoldsRemaining, ReceiverEarned, Unpaid, ApprovedAmount, Worth
<1>2. ASSUME NEW e \in Ids, MoneyStep(e)
      PROVE  MoneyAddsUp'
  <2>1. IsFiniteSet(Ids) /\ DOMAIN Unpaid = Ids /\ DOMAIN Unpaid' = Ids
    BY EscrowAssumption, FS_Interval DEF Ids, Unpaid
  <2>2. IInv'
    BY NextIInv
  <2>3. \A d \in Ids : Unpaid[d] \in Int /\ Unpaid'[d] \in Int
    <3>1. \A d \in Ids : escrow[d].deposited \in Int /\ escrow[d].released \in Int
      BY MoneyTypes
    <3>2. \A d \in Ids : escrow'[d].deposited \in Int /\ escrow'[d].released \in Int
      <4> TAKE d \in Ids
      <4>1. escrow'[d] \in EscrowStates /\ MaxDeposit \in Nat
        BY <2>2, EscrowAssumption DEF IInv
      <4> QED
        BY <4>1 DEF EscrowStates
    <3> QED
      BY <3>1, <3>2 DEF Unpaid
  <2>4. \A d \in Ids \ {e} : Unpaid'[d] = Unpaid[d]
    BY <1>2 DEF MoneyStep, Unpaid
  <2>5. vault' - vault = Unpaid'[e] - Unpaid[e]
    BY <1>2 DEF MoneyStep, Unpaid
  <2>6. SumOver(Unpaid', Ids) = SumOver(Unpaid, Ids) + Unpaid'[e] - Unpaid[e]
    BY <2>1, <2>3, <2>4, SumChange
  <2>7. vault = SumOver(Unpaid, Ids)
    BY <2>1 DEF MoneyAddsUp, VaultHoldsRemaining, Total
  <2>8. vault \in Int /\ vault' \in Int
    BY <2>2 DEF IInv
  <2>9. vault' = SumOver(Unpaid', Ids)
    BY <2>3, <2>5, <2>6, <2>7, <2>8
  <2>10. VaultHoldsRemaining'
    BY <2>1, <2>9 DEF VaultHoldsRemaining, Total
  <2>11. \A d \in Ids \ ruled : EarnedOnly(d)
    BY DEF MoneyAddsUp, ReceiverEarned, EarnedOnly
  <2>12. ASSUME NEW d \in Ids \ ruled' PROVE EarnedOnly(d)'
    <3>1. CASE d = e
      BY <1>2, <2>11, <2>12, <3>1 DEF MoneyStep
    <3>2. CASE d # e
      BY <1>2, <2>11, <2>12, <3>2 DEF MoneyStep, EarnedOnly, ApprovedAmount
    <3> QED
      BY <3>1, <3>2
  <2>13. ReceiverEarned'
    BY <2>12 DEF ReceiverEarned, EarnedOnly
  <2> QED
    BY <2>10, <2>13 DEF MoneyAddsUp
<1> QED
  BY <1>1, <1>2, NextMoney

\* The contract's balance is exactly what its escrows have not paid out, so none
\* is paid with another's deposit, and no receiver gets more than was approved.
THEOREM EscrowMoneyAddsUp == Spec => []MoneyAddsUp
  BY Invariant, InitMoney, NextMoneyAddsUp, PTL DEF Spec

-----------------------------------------------------------------------------
(* Division, as the contracts that keep shares use it.                         *)

\* Division rounds down.
LEMMA DivIs ==
  ASSUME NEW a \in Int, NEW d \in Nat \ {0}
  PROVE  a \div d \in Int /\ (a \div d) * d <= a /\ a < (a \div d) * d + d
  OBVIOUS

\* A factor keeps the order.
LEMMA ProductOrder ==
  ASSUME NEW a \in Int, NEW b \in Int, NEW k \in Nat, a <= b
  PROVE  a * k <= b * k /\ k * a <= k * b
  OBVIOUS

\* A positive factor may be cancelled.
LEMMA QuotientOrder ==
  ASSUME NEW a \in Int, NEW b \in Int, NEW k \in Nat \ {0}
  PROVE  (a * k <= b * k => a <= b) /\ (a * k < b * k => a < b)
  OBVIOUS

-----------------------------------------------------------------------------
(* The backstop.                                                               *)

BackstopStates ==
  [paused : BOOLEAN, balance : Int, totalShares : Nat, totalDeposits : Int,
   shares : [Depositors -> Nat], requestedAt : [Depositors -> Int], vault : Int,
   withdrawn : Int, absorbed : Int]

\* Both histories only grow, so that the two books are never below the tokens.
BackstopInv ==
  /\ backstop \in BackstopStates
  /\ Total(backstop.shares) = backstop.totalShares
  /\ backstop.balance = backstop.vault + backstop.withdrawn
  /\ backstop.totalDeposits = backstop.vault + backstop.absorbed
  /\ backstop.vault >= 0 /\ backstop.withdrawn >= 0 /\ backstop.absorbed >= 0
  /\ now \in Nat

LEMMA BackstopFields ==
  ASSUME BackstopInv
  PROVE  /\ IsFiniteSet(Depositors) /\ BackstopAmounts \subseteq Int
         /\ backstop \in BackstopStates
         /\ backstop.balance \in Nat /\ backstop.totalShares \in Nat
         /\ backstop.totalDeposits \in Nat /\ backstop.vault \in Nat
         /\ backstop.withdrawn \in Nat /\ backstop.absorbed \in Nat
         /\ backstop.shares \in [Depositors -> Int]
         /\ \A d \in Depositors : backstop.shares[d] \in Nat
         /\ \A d \in Depositors : backstop.shares[d] <= backstop.totalShares
<1>1. /\ IsFiniteSet(Depositors) /\ BackstopAmounts \subseteq Int
      /\ backstop \in BackstopStates
      /\ backstop.shares \in [Depositors -> Int] /\ backstop.totalShares \in Nat
      /\ \A d \in Depositors : backstop.shares[d] \in Nat
  BY BackstopAssumption DEF BackstopInv, BackstopStates
<1>2. /\ backstop.vault \in Nat /\ backstop.withdrawn \in Nat /\ backstop.absorbed \in Nat
  BY <1>1 DEF BackstopInv, BackstopStates
<1>3. backstop.balance \in Nat /\ backstop.totalDeposits \in Nat
  BY <1>2 DEF BackstopInv
<1>4. \A d \in Depositors : backstop.shares[d] <= Total(backstop.shares)
  BY <1>1, TotalType
<1> QED
  BY <1>1, <1>2, <1>3, <1>4 DEF BackstopInv

\* What s of S shares are worth of an amount.
PartOfAmount(s, v, S) == (s * v) \div S

\* A part of an amount is no more than the amount.
LEMMA PartIsLess ==
  ASSUME NEW s \in Nat, NEW S \in Nat \ {0}, s <= S, NEW v \in Nat
  PROVE  PartOfAmount(s, v, S) \in Nat /\ PartOfAmount(s, v, S) <= v
<1>1. PICK w : w = (s * v) \div S
  OBVIOUS
<1>2. s * v \in Nat
  OBVIOUS
<1>3. w \in Int /\ w * S <= s * v /\ s * v < w * S + S
  BY <1>1, <1>2, DivIs
<1>4. s * v <= S * v
  BY ProductOrder
<1>5. w * S <= v * S
  BY <1>3, <1>4
<1>6. w <= v
  BY <1>3, <1>5, QuotientOrder
<1>7. 0 * S < (w + 1) * S
  BY <1>2, <1>3
<1>8. 0 < w + 1
  BY <1>3, <1>7, QuotientOrder
<1> QED
  BY <1>1, <1>3, <1>6, <1>8 DEF PartOfAmount

\* The invariant says what the property does.
LEMMA BackstopPays == BackstopInv => BackstopBooks
<1> SUFFICES ASSUME BackstopInv PROVE BackstopBooks
  OBVIOUS
<1>1. ASSUME NEW d \in Depositors, backstop.shares[d] > 0
      PROVE  /\ backstop.withdrawn = 0 => CanPay(backstop.vault, ClaimWorth(backstop.shares[d]))
             /\ backstop.absorbed = 0 => CanPay(backstop.vault, WithdrawalWorth(backstop.shares[d]))
  <2>1. PICK s \in Nat, S \in Nat \ {0}, v \in Nat :
          s = backstop.shares[d] /\ S = backstop.totalShares /\ v = backstop.vault
    BY <1>1, BackstopFields
  <2>2. s <= S
    BY <1>1, <2>1, BackstopFields
  <2>3. PartOfAmount(s, v, S) \in Nat /\ PartOfAmount(s, v, S) <= v
    BY <2>2, PartIsLess
  <2>4. /\ backstop.withdrawn = 0 => backstop.balance = v
        /\ backstop.absorbed = 0 => backstop.totalDeposits = v
    BY <2>1, BackstopFields DEF BackstopInv
  <2> QED
    BY <2>1, <2>3, <2>4 DEF CanPay, PartOfAmount, ClaimWorth, WithdrawalWorth
<1> QED
  BY <1>1 DEF BackstopInv, BackstopBooks

\* The books agree when a depositor's shares, the totals and the tokens are
\* written together.
LEMMA BackstopWritten ==
  ASSUME BackstopInv, NEW d \in Depositors, NEW k \in Nat, NEW S \in Nat, NEW balance \in Int,
         NEW deposits \in Int, NEW held \in Nat, NEW withdrawn \in Nat,
         S - backstop.totalShares = k - backstop.shares[d],
         balance = held + withdrawn, deposits = held + backstop.absorbed,
         NEW asked \in [Depositors -> Int],
         backstop' = [backstop EXCEPT
           !.requestedAt = asked, !.shares = [backstop.shares EXCEPT ![d] = k],
           !.totalShares = S, !.totalDeposits = deposits, !.balance = balance, !.vault = held,
           !.withdrawn = withdrawn],
         now' = now
  PROVE  BackstopInv'
<1>1. PICK old \in [Depositors -> Int] : old = backstop.shares
  BY BackstopFields
<1>2. PICK new \in [Depositors -> Nat] : new = [backstop.shares EXCEPT ![d] = k]
  BY DEF BackstopInv, BackstopStates
<1>3. new \in [Depositors -> Int] /\ new[d] = k /\ \A y \in Depositors \ {d} : new[y] = old[y]
  BY <1>1, <1>2
<1>4. /\ IsFiniteSet(Depositors) /\ Total(old) = backstop.totalShares
      /\ backstop.totalShares \in Int /\ old[d] \in Int /\ backstop \in BackstopStates
  BY <1>1, BackstopFields DEF BackstopInv
<1>5. Total(new) = Total(old) + new[d] - old[d]
  BY <1>3, <1>4, TotalChange
<1>6. Total(new) = S
  BY <1>1, <1>3, <1>4, <1>5
<1>7. backstop' = [backstop EXCEPT
           !.requestedAt = asked, !.shares = new,
           !.totalShares = S, !.totalDeposits = deposits, !.balance = balance, !.vault = held,
           !.withdrawn = withdrawn]
  BY <1>2
<1>8. held \in Int /\ withdrawn \in Int
  OBVIOUS
<1>9. backstop' \in BackstopStates
  BY ZenonT(30), <1>4, <1>7, <1>8 DEF BackstopStates
<1>10. /\ backstop'.shares = new /\ backstop'.totalShares = S /\ backstop'.balance = balance
       /\ backstop'.totalDeposits = deposits /\ backstop'.vault = held
       /\ backstop'.withdrawn = withdrawn /\ backstop'.absorbed = backstop.absorbed
  BY <1>4, <1>7 DEF BackstopStates
<1>11. backstop.absorbed >= 0 /\ now \in Nat
  BY DEF BackstopInv
<1> QED
  BY <1>6, <1>9, <1>10, <1>11 DEF BackstopInv

LEMMA BackstopDeposits ==
  ASSUME BackstopInv, NEW d \in Depositors, NEW a \in BackstopAmounts, DepositToBackstop(d, a)
  PROVE  BackstopInv'
<1>1. PICK S \in Nat, D \in Nat, v \in Nat, b \in Nat, s \in Nat :
        /\ S = backstop.totalShares /\ D = backstop.totalDeposits /\ v = backstop.vault
        /\ b = backstop.balance /\ s = backstop.shares[d]
  BY BackstopFields
<1>2. a \in Nat \ {0} /\ (S # 0 => D \in Nat \ {0})
  BY <1>1, BackstopFields DEF DepositToBackstop
<1>3. PICK k : k = IF S = 0 THEN a ELSE (a * S) \div D
  OBVIOUS
<1>4. k \in Nat
  <2>1. CASE S = 0
    BY <1>2, <1>3, <2>1
  <2>2. CASE S # 0
    <3>1. a * S \in Nat /\ D \in Nat \ {0} /\ k = (a * S) \div D
      BY <1>2, <1>3, <2>2
    <3> QED
      BY <3>1
  <2> QED
    BY <2>1, <2>2
<1>5. k = SharesFor(a)
  BY <1>1, <1>3 DEF SharesFor
<1>6. PICK asked \in [Depositors -> Int] : asked = backstop.requestedAt
  BY BackstopFields DEF BackstopStates
<1>7. /\ backstop' = [backstop EXCEPT
           !.requestedAt = asked, !.shares = [backstop.shares EXCEPT ![d] = s + k],
           !.totalShares = S + k, !.totalDeposits = D + a, !.balance = b + a, !.vault = v + a,
           !.withdrawn = backstop.withdrawn]
      /\ now' = now
  BY <1>1, <1>5, <1>6, BackstopFields DEF DepositToBackstop, BackstopStates
<1>8. /\ s + k \in Nat /\ S + k \in Nat /\ b + a \in Int /\ D + a \in Int /\ v + a \in Nat
      /\ (S + k) - backstop.totalShares = (s + k) - backstop.shares[d]
  BY <1>1, <1>2, <1>4
<1>9. /\ b + a = (v + a) + backstop.withdrawn /\ D + a = (v + a) + backstop.absorbed
      /\ backstop.withdrawn \in Nat
  BY <1>1, <1>2, BackstopFields DEF BackstopInv
<1> QED
  BY <1>7, <1>8, <1>9, BackstopWritten

LEMMA BackstopWithdrawals ==
  ASSUME BackstopInv, NEW d \in Depositors, NEW n \in 1 .. backstop.shares[d],
         WithdrawFromBackstop(d, n)
  PROVE  BackstopInv'
<1>1. PICK S \in Nat, D \in Nat, v \in Nat, b \in Nat, s \in Nat, w0 \in Nat :
        /\ S = backstop.totalShares /\ D = backstop.totalDeposits /\ v = backstop.vault
        /\ b = backstop.balance /\ s = backstop.shares[d] /\ w0 = backstop.withdrawn
  BY BackstopFields
<1>2. n \in Nat \ {0} /\ n <= s /\ s <= S /\ S \in Nat \ {0}
  BY <1>1, BackstopFields
<1>3. PICK w : w = (n * D) \div S
  OBVIOUS
<1>4. w = WithdrawalWorth(n) /\ w \in Int
  BY <1>1, <1>2, <1>3 DEF WithdrawalWorth
<1>5. w \in Nat /\ w <= v
  BY <1>1, <1>4 DEF WithdrawFromBackstop, CanPay
<1>6. PICK asked \in [Depositors -> Int] : asked = backstop.requestedAt
  BY BackstopFields DEF BackstopStates
<1>7. /\ backstop' = [backstop EXCEPT
           !.requestedAt = asked, !.shares = [backstop.shares EXCEPT ![d] = s - n],
           !.totalShares = S - n, !.totalDeposits = D - w, !.balance = b, !.vault = v - w,
           !.withdrawn = w0 + w]
      /\ now' = now
  BY <1>1, <1>4, <1>6, BackstopFields DEF WithdrawFromBackstop, BackstopStates
<1>8. /\ s - n \in Nat /\ S - n \in Nat /\ D - w \in Int /\ v - w \in Nat /\ w0 + w \in Nat
      /\ (S - n) - backstop.totalShares = (s - n) - backstop.shares[d]
  BY <1>1, <1>2, <1>5
<1>9. b = (v - w) + (w0 + w) /\ D - w = (v - w) + backstop.absorbed /\ b \in Int
  BY <1>1, <1>5, BackstopFields DEF BackstopInv
<1> QED
  BY ZenonT(30), <1>7, <1>8, <1>9, BackstopWritten

LEMMA BackstopClaims ==
  ASSUME BackstopInv, NEW d \in Depositors, NEW n \in 1 .. backstop.shares[d],
         ClaimFromBackstop(d, n)
  PROVE  BackstopInv'
<1>1. PICK S \in Nat, D \in Nat, v \in Nat, b \in Nat, s \in Nat, w0 \in Nat :
        /\ S = backstop.totalShares /\ D = backstop.totalDeposits /\ v = backstop.vault
        /\ b = backstop.balance /\ s = backstop.shares[d] /\ w0 = backstop.withdrawn
  BY BackstopFields
<1>2. n \in Nat \ {0} /\ n <= s /\ s <= S /\ S \in Nat \ {0}
  BY <1>1, BackstopFields
<1>3. PICK w : w = (n * b) \div S
  OBVIOUS
<1>4. w = ClaimWorth(n) /\ w \in Int
  BY <1>1, <1>2, <1>3 DEF ClaimWorth
<1>5. w \in Nat /\ w <= v
  BY <1>1, <1>4 DEF ClaimFromBackstop, CanPay
<1>6. PICK asked \in [Depositors -> Int] : asked = [backstop.requestedAt EXCEPT ![d] = NoRequest]
  <2>1. PICK old \in [Depositors -> Int] : old = backstop.requestedAt
    BY BackstopFields DEF BackstopStates
  <2>2. PICK none \in Int : none = NoRequest
    BY DEF NoRequest
  <2>3. [old EXCEPT ![d] = none] \in [Depositors -> Int]
    OBVIOUS
  <2> QED
    BY <2>1, <2>2, <2>3
<1>7. /\ backstop' = [backstop EXCEPT
           !.requestedAt = asked, !.shares = [backstop.shares EXCEPT ![d] = s - n],
           !.totalShares = S - n, !.totalDeposits = D - w, !.balance = b - w, !.vault = v - w,
           !.withdrawn = w0]
      /\ now' = now
  BY <1>1, <1>4, <1>6, BackstopFields DEF ClaimFromBackstop, Claimed, BackstopStates
<1>8. /\ s - n \in Nat /\ S - n \in Nat /\ D - w \in Int /\ v - w \in Nat /\ b - w \in Int
      /\ (S - n) - backstop.totalShares = (s - n) - backstop.shares[d]
  BY <1>1, <1>2, <1>5
<1>9. b - w = (v - w) + w0 /\ D - w = (v - w) + backstop.absorbed
  BY <1>1, <1>5, BackstopFields DEF BackstopInv
<1> QED
  BY ZenonT(30), <1>7, <1>8, <1>9, BackstopWritten

\* absorb_bad_debt takes no more than the tokens, request_claim, pause and the
\* ledgers leave the amounts alone.
LEMMA BackstopOthers ==
  ASSUME BackstopInv
  PROVE  /\ \A a \in BackstopAmounts : AbsorbBadDebt(a) => BackstopInv'
         /\ \A d \in Depositors : RequestClaim(d) => BackstopInv'
         /\ \A p \in BOOLEAN : PauseBackstop(p) => BackstopInv'
<1>1. ASSUME NEW a \in BackstopAmounts, AbsorbBadDebt(a) PROVE BackstopInv'
  <2>1. PICK v \in Nat, b \in Nat, q \in Nat :
          v = backstop.vault /\ b = backstop.balance /\ q = backstop.absorbed
    BY BackstopFields
  <2>2. PICK c : c = IF a > b THEN b ELSE a
    OBVIOUS
  <2>3. c \in Nat /\ c <= v
    BY <1>1, <2>1, <2>2, BackstopFields DEF AbsorbBadDebt, CanPay
  <2>4. PICK balance \in Int, held \in Int, taken \in Int :
          balance = b - c /\ held = v - c /\ taken = q + c
    BY <2>3
  <2>5. backstop' = [backstop EXCEPT !.balance = balance, !.vault = held, !.absorbed = taken]
    BY <1>1, <2>1, <2>2, <2>4, BackstopFields DEF AbsorbBadDebt, BackstopStates
  <2>6. /\ backstop' \in BackstopStates /\ backstop'.balance = balance /\ backstop'.vault = held
        /\ backstop'.absorbed = taken /\ backstop'.withdrawn = backstop.withdrawn
        /\ backstop'.shares = backstop.shares /\ backstop'.totalShares = backstop.totalShares
        /\ backstop'.totalDeposits = backstop.totalDeposits
    BY <2>5, BackstopFields DEF BackstopStates
  <2>7. /\ balance = held + backstop.withdrawn /\ backstop.totalDeposits = held + taken
        /\ held >= 0 /\ taken >= 0 /\ now' = now
    BY <1>1, <2>1, <2>3, <2>4, BackstopFields DEF BackstopInv, AbsorbBadDebt
  <2> QED
    BY <2>6, <2>7 DEF BackstopInv
<1>2. ASSUME NEW d \in Depositors, RequestClaim(d) PROVE BackstopInv'
  <2>1. PICK asked \in [Depositors -> Int] : asked = [backstop.requestedAt EXCEPT ![d] = now]
    <3>1. PICK old \in [Depositors -> Int], t \in Int : old = backstop.requestedAt /\ t = now
      BY BackstopFields DEF BackstopStates, BackstopInv
    <3>2. [old EXCEPT ![d] = t] \in [Depositors -> Int]
      OBVIOUS
    <3> QED
      BY <3>1, <3>2
  <2>2. backstop' = [backstop EXCEPT !.requestedAt = asked] /\ now' = now
    BY <1>2, <2>1, BackstopFields DEF RequestClaim, BackstopStates
  <2> QED
    BY <2>2 DEF BackstopInv, BackstopStates
<1>3. ASSUME NEW p \in BOOLEAN, PauseBackstop(p) PROVE BackstopInv'
  BY <1>3 DEF PauseBackstop, BackstopInv, BackstopStates
<1> QED
  BY <1>1, <1>2, <1>3

LEMMA BackstopInitInv == HostInit /\ BackstopInit => BackstopInv
<1> SUFFICES ASSUME HostInit, BackstopInit PROVE BackstopInv
  OBVIOUS
<1> DEFINE b == [d \in Depositors |-> 0]
<1>1. IsFiniteSet(Depositors) /\ b \in [Depositors -> Int] /\ \A d \in Depositors : b[d] = 0
  BY BackstopAssumption
<1>2. Total(b) = 0
  <2> HIDE DEF b
  <2> QED
    BY <1>1, TotalType
<1>3. backstop \in BackstopStates
  BY DEF BackstopInit, BackstopStates, NoRequest
<1> QED
  BY <1>2, <1>3 DEF BackstopInit, BackstopInv, HostInit

LEMMA BackstopStep == ASSUME BackstopInv, BackstopNext PROVE BackstopInv'
<1>1. ASSUME LedgerCloses /\ UNCHANGED backstop PROVE BackstopInv'
  BY <1>1 DEF LedgerCloses, BackstopInv
<1> QED
  BY <1>1, BackstopDeposits, BackstopWithdrawals, BackstopClaims, BackstopOthers DEF BackstopNext

\* The shares add up to the total, each book is the tokens and what the other one
\* does not count, and as long as nobody withdrew, or nothing was absorbed, what
\* every depositor is owed can be paid.
THEOREM BackstopBooksHold == BackstopSpec => []BackstopBooks
<1>1. BackstopInv /\ [BackstopNext]_<<now, backstop>> => BackstopInv'
  BY BackstopStep DEF BackstopInv
<1> QED
  BY <1>1, BackstopInitInv, BackstopPays, PTL DEF BackstopSpec

-----------------------------------------------------------------------------
(* Node staking.                                                               *)

Nodes == [registered : BOOLEAN, staked : Nat, rewards : Nat, active : BOOLEAN]

StakingStates ==
  [nodes : [Operators -> Nodes], totalStaked : Int, totalNodes : Int, rewardPool : Int,
   vault : Int, overdrawn : Int]

\* The books alone are not inductive: who registers must have no stake yet.
StakingInv ==
  /\ staking \in StakingStates
  /\ StakingBooks
  /\ \A o \in Operators : ~staking.nodes[o].registered => staking.nodes[o].staked = 0

Stakes(nodes) == [o \in Operators |-> nodes[o].staked]

Registered(nodes) == {o \in Operators : nodes[o].registered}

\* A node is active while it has the minimum, and only nodes have stakes.
WellKept(n) ==
  /\ n \in Nodes
  /\ n.active <=> n.registered /\ n.staked >= MinStake
  /\ ~n.registered => n.staked = 0

\* The fields, with their types.
LEMMA StakingFields ==
  ASSUME StakingInv
  PROVE  /\ IsFiniteSet(Operators) /\ StakeAmounts \subseteq Int /\ MinStake \in Int
         /\ RewardRateBps \in Nat
         /\ staking.nodes \in [Operators -> Nodes]
         /\ \A o \in Operators : WellKept(staking.nodes[o])
         /\ staking.totalStaked \in Int /\ staking.totalNodes \in Int
         /\ staking.rewardPool \in Nat /\ staking.vault \in Nat /\ staking.overdrawn \in Int
         /\ staking.vault + staking.overdrawn = staking.totalStaked + staking.rewardPool
         /\ staking.totalStaked = Total(Stakes(staking.nodes))
         /\ staking.totalNodes = Cardinality(Registered(staking.nodes))
<1>1. staking \in StakingStates
  BY DEF StakingInv
<1>2. \A o \in Operators : WellKept(staking.nodes[o])
  BY <1>1 DEF StakingInv, StakingBooks, StakingStates, WellKept
<1>3. /\ staking.totalStaked = Total(Stakes(staking.nodes))
      /\ staking.totalNodes = Cardinality(Registered(staking.nodes))
  BY DEF StakingInv, StakingBooks, Stakes, Registered
<1>4. staking.rewardPool \in Nat /\ staking.vault \in Nat
  BY <1>1 DEF StakingInv, StakingBooks, StakingStates
<1>5. staking.vault + staking.overdrawn = staking.totalStaked + staking.rewardPool
  BY DEF StakingInv, StakingBooks
<1> QED
  BY <1>1, <1>2, <1>3, <1>4, <1>5, StakingAssumption DEF StakingStates

\* The books agree when one node, the totals and the tokens are written together.
LEMMA StakingWritten ==
  ASSUME StakingInv, NEW o \in Operators, NEW n, WellKept(n),
         staking.nodes[o].registered => n.registered,
         NEW total \in Int, NEW number \in Int, NEW pool \in Nat, NEW held \in Nat, NEW over \in Int,
         total - staking.totalStaked = n.staked - staking.nodes[o].staked,
         number = IF staking.nodes[o].registered \/ ~n.registered THEN staking.totalNodes
                  ELSE staking.totalNodes + 1,
         held + over = total + pool,
         staking' = [nodes |-> [staking.nodes EXCEPT ![o] = n], totalStaked |-> total,
                     totalNodes |-> number, rewardPool |-> pool, vault |-> held,
                     overdrawn |-> over]
  PROVE  StakingInv'
<1>1. PICK old \in [Operators -> Nodes] : old = staking.nodes
  BY StakingFields
<1>2. n \in Nodes
  BY DEF WellKept
<1>3. PICK new \in [Operators -> Nodes] : new = [staking.nodes EXCEPT ![o] = n]
  BY <1>1, <1>2
<1>4. new[o] = n /\ \A p \in Operators \ {o} : new[p] = old[p]
  BY <1>1, <1>3
<1>5. Total(Stakes(new)) = total
  <2>1. IsFiniteSet(Operators) /\ staking.totalStaked \in Int
        /\ staking.totalStaked = Total(Stakes(old))
    BY <1>1, StakingFields
  <2>2. PICK f \in [Operators -> Int] : f = Stakes(old)
    <3>1. \A p \in Operators : old[p].staked \in Int
      BY DEF Nodes
    <3> QED
      BY <3>1 DEF Stakes
  <2>3. PICK g \in [Operators -> Int] : g = Stakes(new)
    <3>1. \A p \in Operators : new[p].staked \in Int
      BY DEF Nodes
    <3> QED
      BY <3>1 DEF Stakes
  <2>4. \A p \in Operators \ {o} : g[p] = f[p]
    BY <1>4, <2>2, <2>3 DEF Stakes
  <2>5. f[o] = old[o].staked /\ g[o] = n.staked /\ f[o] \in Int /\ g[o] \in Int
    BY <1>4, <2>2, <2>3 DEF Stakes
  <2>6. Total(g) = Total(f) + g[o] - f[o]
    BY <2>1, <2>4, TotalChange
  <2> QED
    BY <1>1, <2>1, <2>2, <2>3, <2>5, <2>6
<1>6. Cardinality(Registered(new)) = number
  <2>1. /\ IsFiniteSet(Operators) /\ staking.totalNodes = Cardinality(Registered(old))
    BY <1>1, StakingFields
  <2>2. IsFiniteSet(Registered(old))
    BY <2>1, FS_Subset DEF Registered
  <2>3. CASE staking.nodes[o].registered \/ ~n.registered
    <3>1. Registered(new) = Registered(old)
      BY <1>1, <1>2, <1>4, <2>3 DEF Registered, Nodes
    <3> QED
      BY <2>1, <2>3, <3>1
  <2>4. CASE ~(staking.nodes[o].registered \/ ~n.registered)
    <3>1. Registered(new) = Registered(old) \cup {o} /\ o \notin Registered(old)
      BY <1>1, <1>4, <2>4 DEF Registered
    <3>2. Cardinality(Registered(new)) = Cardinality(Registered(old)) + 1
      BY <2>2, <3>1, FS_AddElement
    <3> QED
      BY <2>1, <2>4, <3>2
  <2> QED
    BY <2>3, <2>4
<1>7. /\ staking' \in StakingStates /\ staking'.nodes = new /\ staking'.totalStaked = total
      /\ staking'.totalNodes = number /\ staking'.rewardPool = pool
      /\ staking'.vault = held /\ staking'.overdrawn = over
  <2>1. staking' = [nodes |-> new, totalStaked |-> total, totalNodes |-> number,
                    rewardPool |-> pool, vault |-> held, overdrawn |-> over]
    BY <1>3
  <2>2. pool \in Int /\ held \in Int
    OBVIOUS
  <2>3. [nodes |-> new, totalStaked |-> total, totalNodes |-> number, rewardPool |-> pool,
         vault |-> held, overdrawn |-> over] \in StakingStates
    BY <2>2 DEF StakingStates
  <2> QED
    BY <2>1, <2>3
<1>8. \A p \in Operators : WellKept(new[p])
  BY <1>1, <1>4, StakingFields
<1>9. \A p \in Operators :
        /\ new[p].staked >= 0 /\ new[p].rewards >= 0
        /\ new[p].active <=> new[p].registered /\ new[p].staked >= MinStake
        /\ ~new[p].registered => new[p].staked = 0
  BY <1>8 DEF WellKept, Nodes
<1>10. StakingBooks'
  <2>1. /\ pool >= 0 /\ held >= 0 /\ held + over = total + pool
        /\ total = Total([p \in Operators |-> new[p].staked])
        /\ number = Cardinality({p \in Operators : new[p].registered})
    BY <1>5, <1>6 DEF Stakes, Registered
  <2> QED
    BY <1>7, <1>9, <2>1 DEF StakingBooks
<1> QED
  BY <1>7, <1>9, <1>10 DEF StakingInv

\* A reward for a stake is not negative.
LEMMA RewardIsNat ==
  ASSUME NEW a \in Nat
  PROVE  RewardFor(a) \in Nat
<1>1. RewardRateBps \in Nat
  BY StakingAssumption
<1>2. a * RewardRateBps \in Nat
  BY <1>1
<1> QED
  BY <1>2 DEF RewardFor

\* register_node and add_stake: the stake comes in, the reward accrues.
LEMMA StakeIn ==
  ASSUME StakingInv, NEW o \in Operators, NEW a \in StakeAmounts,
         RegisterNode(o, a) \/ AddStake(o, a)
  PROVE  StakingInv'
<1>1. /\ staking \in StakingStates /\ StakeAmounts \subseteq Int /\ MinStake \in Int
      /\ WellKept(staking.nodes[o])
      /\ staking.totalStaked \in Int /\ staking.totalNodes \in Int
      /\ staking.rewardPool \in Nat /\ staking.vault \in Nat /\ staking.overdrawn \in Int
      /\ staking.vault + staking.overdrawn = staking.totalStaked + staking.rewardPool
  BY StakingFields DEF StakingInv
<1>2. a \in Nat
  BY <1>1 DEF RegisterNode, AddStake, CanStake
<1>3. PICK reward \in Nat : reward = RewardFor(a)
  BY <1>2, RewardIsNat
<1>4. PICK total \in Int, held \in Nat :
        total = staking.totalStaked + a /\ held = staking.vault + a
  BY <1>1, <1>2
<1>5. PICK node \in Nodes : node = staking.nodes[o]
  BY <1>1 DEF WellKept
<1>6. CASE RegisterNode(o, a)
  <2>1. PICK n : n = [registered |-> TRUE, staked |-> a, rewards |-> reward, active |-> TRUE]
    OBVIOUS
  <2>2. WellKept(n) /\ n.registered /\ n.staked = a
    BY <1>2, <1>6, <2>1 DEF WellKept, Nodes, RegisterNode
  <2>3. staking.nodes[o].staked = 0 /\ ~staking.nodes[o].registered
    BY <1>1, <1>6 DEF RegisterNode, WellKept
  <2>4. staking' = [nodes |-> [staking.nodes EXCEPT ![o] = n], totalStaked |-> total,
                    totalNodes |-> staking.totalNodes + 1, rewardPool |-> staking.rewardPool,
                    vault |-> held, overdrawn |-> staking.overdrawn]
    BY <1>1, <1>3, <1>4, <1>6, <2>1 DEF RegisterNode, StakingStates
  <2> QED
    <3>1. total - staking.totalStaked = n.staked - staking.nodes[o].staked
      BY <1>1, <1>2, <1>4, <2>2, <2>3
    <3>2. held + staking.overdrawn = total + staking.rewardPool
      BY <1>1, <1>2, <1>4
    <3>3. staking.totalNodes + 1 \in Int
      BY <1>1
    <3> QED
      BY <1>1, <2>2, <2>3, <2>4, <3>1, <3>2, <3>3, StakingWritten
<1>7. CASE AddStake(o, a)
  <2>1. PICK n : n = [node EXCEPT !.staked = @ + a, !.rewards = @ + reward]
    OBVIOUS
  <2>2. node.registered /\ node.active /\ node.staked \in Nat /\ node.rewards \in Nat
        /\ node.staked >= MinStake
    BY <1>1, <1>5, <1>7 DEF AddStake, Nodes, WellKept
  <2>3. WellKept(n) /\ n.registered /\ n.staked = node.staked + a
    <3>1. PICK stake \in Nat, kept \in Nat :
            stake = node.staked + a /\ kept = node.rewards + reward
      BY <1>2, <2>2
    <3>2. n = [node EXCEPT !.staked = stake, !.rewards = kept]
      BY <2>1, <3>1 DEF Nodes
    <3>3. n \in Nodes /\ n.registered = node.registered /\ n.staked = stake
          /\ n.active = node.active
      BY <3>2 DEF Nodes
    <3> QED
      BY <1>1, <1>2, <2>2, <3>1, <3>3 DEF WellKept
  <2>4. staking' = [nodes |-> [staking.nodes EXCEPT ![o] = n], totalStaked |-> total,
                    totalNodes |-> staking.totalNodes, rewardPool |-> staking.rewardPool,
                    vault |-> held, overdrawn |-> staking.overdrawn]
    <3>1. staking' = [staking EXCEPT
            !.nodes = [staking.nodes EXCEPT ![o] = [node EXCEPT !.staked = @ + a, !.rewards = @ + reward]],
            !.totalStaked = total, !.vault = held]
      BY ZenonT(30), <1>1, <1>3, <1>4, <1>5, <1>7 DEF AddStake, StakingStates
    <3>2. staking' = [staking EXCEPT !.nodes = [staking.nodes EXCEPT ![o] = n],
            !.totalStaked = total, !.vault = held]
      BY <2>1, <3>1
    <3> QED
      BY <1>1, <3>2 DEF StakingStates
  <2>5. total - staking.totalStaked = n.staked - staking.nodes[o].staked
    BY <1>1, <1>2, <1>4, <1>5, <2>2, <2>3
  <2>6. held + staking.overdrawn = total + staking.rewardPool
    BY <1>1, <1>2, <1>4
  <2> QED
    BY <1>1, <1>5, <2>2, <2>3, <2>4, <2>5, <2>6, StakingWritten
<1> QED
  BY <1>6, <1>7

\* unstake: stake and accrued rewards go out, and the rewards count as overdrawn.
LEMMA StakeOut ==
  ASSUME StakingInv, NEW o \in Operators, NEW a \in StakeAmounts, Unstake(o, a) \/ Slash(o, a)
  PROVE  StakingInv'
<1>1. /\ staking \in StakingStates /\ StakeAmounts \subseteq Int /\ MinStake \in Int
      /\ WellKept(staking.nodes[o])
      /\ staking.totalStaked \in Int /\ staking.totalNodes \in Int
      /\ staking.rewardPool \in Nat /\ staking.vault \in Nat /\ staking.overdrawn \in Int
      /\ staking.vault + staking.overdrawn = staking.totalStaked + staking.rewardPool
  BY StakingFields DEF StakingInv
<1>2. PICK node \in Nodes : node = staking.nodes[o]
  BY <1>1 DEF WellKept
<1>3. node.registered /\ node.staked \in Nat /\ node.rewards \in Nat /\ a \in Int
  BY <1>1, <1>2 DEF Unstake, Slash, Nodes
<1>4. ASSUME NEW cut \in Nat, NEW due \in Nat, cut <= node.staked, cut + due <= staking.vault,
             NEW n, WellKept(n), n.registered, n.staked = node.staked - cut,
             staking' = [staking EXCEPT !.nodes = [staking.nodes EXCEPT ![o] = n],
               !.totalStaked = staking.totalStaked - cut, !.vault = staking.vault - cut - due,
               !.overdrawn = staking.overdrawn + due]
      PROVE  StakingInv'
  <2>1. PICK total \in Int, held \in Nat, over \in Int :
          /\ total = staking.totalStaked - cut /\ held = staking.vault - cut - due
          /\ over = staking.overdrawn + due
    BY <1>1, <1>4
  <2>2. staking' = [nodes |-> [staking.nodes EXCEPT ![o] = n], totalStaked |-> total,
                    totalNodes |-> staking.totalNodes, rewardPool |-> staking.rewardPool,
                    vault |-> held, overdrawn |-> over]
    BY <1>1, <1>4, <2>1 DEF StakingStates
  <2>3. total - staking.totalStaked = n.staked - staking.nodes[o].staked
    BY <1>1, <1>2, <1>3, <1>4, <2>1
  <2>4. held + over = total + staking.rewardPool
    BY <1>1, <2>1
  <2>5. /\ staking.nodes[o].registered /\ WellKept(n) /\ n.registered
        /\ staking.totalNodes \in Int /\ staking.rewardPool \in Nat
    BY <1>1, <1>2, <1>3, <1>4
  <2> QED
    BY ONLY StakingInv, o \in Operators, total \in Int, held \in Nat, over \in Int,
            <2>2, <2>3, <2>4, <2>5, StakingWritten
<1>5. CASE Unstake(o, a)
  <2>1. a \in Nat /\ a <= node.staked /\ a + node.rewards <= staking.vault
    BY <1>1, <1>2, <1>3, <1>5 DEF Unstake, CanPay
  <2>8. PICK stake \in Nat : stake = node.staked - a
    BY <1>3, <2>1
  <2>2. PICK on \in BOOLEAN : on = (stake >= MinStake)
    <3>1. (stake >= MinStake) \in BOOLEAN
      BY <1>1
    <3> QED
      BY <3>1, Zenon
  <2>9. PICK kept \in Nat : kept = 0
    OBVIOUS
  <2>3. PICK n : n = [[node EXCEPT !.staked = stake, !.active = on] EXCEPT !.rewards = kept]
    OBVIOUS
  <2>4. /\ n \in Nodes /\ n.registered = node.registered /\ n.staked = stake /\ n.active = on
    BY <2>3 DEF Nodes
  <2>5. WellKept(n) /\ n.registered /\ n.staked = node.staked - a
    BY <1>3, <2>2, <2>4, <2>8 DEF WellKept
  <2>6. [Reduced(node, a) EXCEPT !.rewards = 0] = n
    <3>1. Reduced(node, a) = [node EXCEPT !.staked = stake, !.active = on]
      BY <2>2, <2>8 DEF Reduced, Nodes
    <3> QED
      BY <2>3, <2>9, <3>1
  <2>7. staking' = [staking EXCEPT !.nodes = [staking.nodes EXCEPT ![o] = n],
               !.totalStaked = staking.totalStaked - a,
               !.vault = staking.vault - a - node.rewards,
               !.overdrawn = staking.overdrawn + node.rewards]
    BY <1>1, <1>2, <1>5, <2>6 DEF Unstake, StakingStates
  <2> QED
    BY <1>3, <1>4, <2>1, <2>5, <2>7
<1>6. CASE Slash(o, a)
  <2>1. PICK cut : cut = IF a <= node.staked THEN a ELSE node.staked
    OBVIOUS
  <2>2. cut \in Nat /\ cut <= node.staked /\ cut + 0 <= staking.vault
    BY <1>1, <1>2, <1>3, <1>6, <2>1 DEF Slash, CanPay
  <2>12. PICK stake \in Nat : stake = node.staked - cut
    BY <1>3, <2>2
  <2>3. PICK on \in BOOLEAN : on = (stake >= MinStake)
    <3>1. (stake >= MinStake) \in BOOLEAN
      BY <1>1
    <3> QED
      BY <3>1, Zenon
  <2>4. PICK n : n = [node EXCEPT !.staked = stake, !.active = on]
    OBVIOUS
  <2>5. n \in Nodes /\ n.registered = node.registered /\ n.staked = stake /\ n.active = on
    BY <2>4 DEF Nodes
  <2>6. WellKept(n) /\ n.registered /\ n.staked = node.staked - cut
    BY <1>3, <2>3, <2>5, <2>12 DEF WellKept
  <2>7. Reduced(node, cut) = n
    BY <2>3, <2>4, <2>12 DEF Reduced, Nodes
  <2>8. staking' = [staking EXCEPT !.nodes[o] = Reduced(node, cut), !.totalStaked = @ - cut,
                      !.vault = @ - cut]
    BY <1>1, <1>2, <1>6, <2>1 DEF Slash, StakingStates
  <2>9. /\ staking.vault - cut = staking.vault - cut - 0
        /\ staking.overdrawn = staking.overdrawn + 0
    BY <1>1, <2>2
  <2>10. staking' = [staking EXCEPT !.nodes = [staking.nodes EXCEPT ![o] = n],
               !.totalStaked = staking.totalStaked - cut, !.vault = staking.vault - cut]
    BY <1>1, <2>7, <2>8 DEF StakingStates
  <2>11. staking' = [staking EXCEPT !.nodes = [staking.nodes EXCEPT ![o] = n],
               !.totalStaked = staking.totalStaked - cut, !.vault = staking.vault - cut - 0,
               !.overdrawn = staking.overdrawn + 0]
    BY <1>1, <2>9, <2>10 DEF StakingStates
  <2> QED
    BY <1>3, <1>4, <2>2, <2>6, <2>11
<1> QED
  BY <1>5, <1>6

\* claim_rewards pays from the pool, distribute_rewards fills it.
LEMMA StakingRewards ==
  ASSUME StakingInv
  PROVE  /\ \A o \in Operators : ClaimRewards(o) => StakingInv'
         /\ \A a \in StakeAmounts : DistributeRewards(a) => StakingInv'
<1>1. /\ staking \in StakingStates /\ StakeAmounts \subseteq Int /\ MinStake \in Int
      /\ \A o \in Operators : WellKept(staking.nodes[o])
      /\ staking.totalStaked \in Int /\ staking.totalNodes \in Int
      /\ staking.rewardPool \in Nat /\ staking.vault \in Nat /\ staking.overdrawn \in Int
      /\ staking.vault + staking.overdrawn = staking.totalStaked + staking.rewardPool
  BY StakingFields DEF StakingInv
<1>2. ASSUME NEW o \in Operators, ClaimRewards(o) PROVE StakingInv'
  <2>1. PICK node \in Nodes : node = staking.nodes[o] /\ WellKept(node)
    BY <1>1 DEF WellKept
  <2>2. node.registered /\ node.staked \in Nat /\ node.rewards \in Nat
    BY <1>2, <2>1 DEF ClaimRewards, Nodes
  <2>3. PICK due : due = Payable(node.rewards)
    OBVIOUS
  <2>4. due \in Nat /\ due <= node.rewards /\ due <= staking.rewardPool /\ due <= staking.vault
    BY <1>1, <1>2, <2>1, <2>2, <2>3 DEF Payable, ClaimRewards, CanPay
  <2>5. PICK kept \in Nat : kept = node.rewards - due
    BY <2>2, <2>4
  <2>13. PICK n : n = [node EXCEPT !.rewards = kept]
    OBVIOUS
  <2>6. WellKept(n) /\ n.registered /\ n.staked = node.staked
    <3>1. n \in Nodes /\ n.registered = node.registered /\ n.staked = node.staked
          /\ n.active = node.active
      BY <2>13 DEF Nodes
    <3> QED
      BY <2>1, <2>2, <3>1 DEF WellKept
  <2>7. PICK held \in Nat, pool \in Nat :
          held = staking.vault - due /\ pool = staking.rewardPool - due
    BY <1>1, <2>4
  <2>8. staking' = [staking EXCEPT !.nodes[o].rewards = @ - due, !.rewardPool = @ - due,
                      !.vault = @ - due]
    BY <1>2, <2>1, <2>3 DEF ClaimRewards
  <2>9. staking' = [staking EXCEPT !.nodes = [staking.nodes EXCEPT ![o] = n],
                      !.rewardPool = pool, !.vault = held]
    BY <1>1, <2>1, <2>5, <2>7, <2>8, <2>13 DEF StakingStates
  <2>10. staking' = [nodes |-> [staking.nodes EXCEPT ![o] = n],
                    totalStaked |-> staking.totalStaked,
                    totalNodes |-> staking.totalNodes, rewardPool |-> pool,
                    vault |-> held, overdrawn |-> staking.overdrawn]
    BY <1>1, <2>9 DEF StakingStates
  <2>11. staking.totalStaked - staking.totalStaked = n.staked - staking.nodes[o].staked
    BY <1>1, <2>1, <2>2, <2>6
  <2>12. held + staking.overdrawn = staking.totalStaked + pool
    BY <1>1, <2>4, <2>7
  <2> QED
    BY <1>1, <2>1, <2>2, <2>6, <2>10, <2>11, <2>12, StakingWritten
<1>3. ASSUME NEW a \in StakeAmounts, DistributeRewards(a) PROVE StakingInv'
  <2>1. a \in Nat
    BY <1>1, <1>3 DEF DistributeRewards
  <2>2. PICK pool \in Nat, held \in Nat :
          pool = staking.rewardPool + a /\ held = staking.vault + a
    BY <1>1, <2>1
  <2>3. staking' = [staking EXCEPT !.rewardPool = pool, !.vault = held]
    BY <1>1, <1>3, <2>2 DEF DistributeRewards, StakingStates
  <2>4. /\ staking'.nodes = staking.nodes /\ staking'.totalStaked = staking.totalStaked
        /\ staking'.totalNodes = staking.totalNodes /\ staking'.rewardPool = pool
        /\ staking'.vault = held /\ staking'.overdrawn = staking.overdrawn
    BY <1>1, <2>3 DEF StakingStates
  <2>5. staking' \in StakingStates
    <3>1. pool \in Int /\ held \in Int
      OBVIOUS
    <3> QED
      BY <1>1, <2>3, <3>1 DEF StakingStates
  <2>6. held + staking.overdrawn = staking.totalStaked + pool
    BY <1>1, <2>1, <2>2
  <2>7. StakingBooks'
    BY <2>4, <2>6 DEF StakingInv, StakingBooks
  <2> QED
    BY <2>4, <2>5, <2>7 DEF StakingInv
<1> QED
  BY <1>2, <1>3

LEMMA StakingInitInv == StakingInit => StakingInv
<1> SUFFICES ASSUME StakingInit PROVE StakingInv
  OBVIOUS
<1>1. /\ staking.nodes = [o \in Operators |-> NoNode] /\ staking \in StakingStates
      /\ staking.totalStaked = 0 /\ staking.totalNodes = 0 /\ staking.rewardPool = 0
      /\ staking.vault = 0 /\ staking.overdrawn = 0
  BY DEF StakingInit, StakingStates, Nodes, NoNode
<1> DEFINE f == [o \in Operators |-> staking.nodes[o].staked]
<1>2. IsFiniteSet(Operators) /\ f \in [Operators -> Int] /\ \A o \in Operators : f[o] = 0
  BY <1>1, StakingAssumption DEF NoNode
<1>3. Total(f) = 0
  <2> HIDE DEF f
  <2> QED
    BY <1>2, TotalType
<1>4. {o \in Operators : staking.nodes[o].registered} = {} /\ Cardinality({}) = 0
  BY <1>1, FS_EmptySet DEF NoNode
<1>5. \A o \in Operators : staking.nodes[o].staked = 0 /\ staking.nodes[o].rewards = 0
        /\ ~staking.nodes[o].registered /\ ~staking.nodes[o].active
  BY <1>1 DEF NoNode
<1>6. StakingBooks
  BY <1>1, <1>3, <1>4, <1>5 DEF StakingBooks
<1> QED
  BY <1>1, <1>5, <1>6 DEF StakingInv

LEMMA StakingStep == ASSUME StakingInv, StakingNext PROVE StakingInv'
  BY StakeIn, StakeOut, StakingRewards DEF StakingNext

\* The totals are those of the nodes, and the tokens are the stakes and the pool,
\* less what unstake paid outside it.
THEOREM StakingBooksHold == StakingSpec => []StakingBooks
<1>1. HostInit /\ StakingInit => StakingInv
  BY StakingInitInv
<1>2. StakingInv /\ [StakingNext]_<<now, staking>> => StakingInv'
  BY StakingStep DEF StakingInv, StakingBooks
<1>3. StakingInv => StakingBooks
  BY DEF StakingInv
<1> QED
  BY <1>1, <1>2, <1>3, PTL DEF StakingSpec

-----------------------------------------------------------------------------
(* The farm.                                                                   *)

FarmStates ==
  [rate : Nat, totalStaked : Int, lastLedger : Nat, perShare : Nat,
   stakes : [Farmers -> [amount : Nat, debt : Int]], vault : Int, funded : Int, paid : Int]

Staked(x) == [f \in Farmers |-> x.stakes[f].amount]

Pendings(x) == [f \in Farmers |-> Pending(x, f)]

\* What the farm emits in a ledger at most, with a unit of rounding for each user.
Emission == Max(Rates) + Cardinality(Farmers)

(* What holds of a farm up to its last accrual.  A debt is no more than the   *)
(* stake has earned, so that pending rewards are not negative, and settling   *)
(* them moves them to what was paid.                                          *)
FarmGood(x) ==
  /\ x \in FarmStates
  /\ x.rate <= Max(Rates)
  /\ x.totalStaked = Total(Staked(x))
  /\ x.vault = x.totalStaked + x.funded - x.paid
  /\ \A f \in Farmers : x.stakes[f].debt <= Earned(x, x.stakes[f].amount)
  /\ x.paid + Total(Pendings(x)) <= x.lastLedger * Emission

FarmInv == FarmGood(farm) /\ now \in Nat /\ farm.lastLedger <= now

LEMMA FarmConstants ==
  /\ IsFiniteSet(Farmers) /\ FarmAmounts \subseteq Int /\ Scale \in Nat \ {0}
  /\ Max(Rates) \in Nat /\ \A r \in Rates : r <= Max(Rates)
  /\ Cardinality(Farmers) \in Nat /\ Emission \in Nat
<1>1. IsFiniteSet(Rates) /\ Rates # {} /\ Rates \subseteq Int
  BY FarmAssumption
<1>2. Max(Rates) \in Rates /\ \A r \in Rates : r <= Max(Rates)
  BY ONLY <1>1, MaxIs
<1>3. FirstRate \in Nat /\ FirstRate <= Max(Rates) /\ Max(Rates) \in Int
  BY <1>1, <1>2, FarmAssumption
<1>4. Max(Rates) \in Nat
  BY <1>3
<1>5. Cardinality(Farmers) \in Nat
  BY FarmAssumption, FS_CardinalityType
<1> QED
  BY <1>2, <1>4, <1>5, FarmAssumption DEF Emission, Scale

\* The types of what is derived from a farm.
LEMMA FarmTypes ==
  ASSUME NEW x \in FarmStates
  PROVE  /\ Staked(x) \in [Farmers -> Int] /\ Pendings(x) \in [Farmers -> Int]
         /\ \A a \in Nat : Earned(x, a) \in Int
         /\ \A f \in Farmers : /\ x.stakes[f].amount \in Nat /\ x.stakes[f].debt \in Int
                               /\ Staked(x)[f] = x.stakes[f].amount
                               /\ Pendings(x)[f] = Earned(x, x.stakes[f].amount) - x.stakes[f].debt
<1>1. x.perShare \in Nat /\ \A f \in Farmers : x.stakes[f].amount \in Nat /\ x.stakes[f].debt \in Int
  BY DEF FarmStates
<1>2. \A a \in Nat : Earned(x, a) \in Int
  <2> TAKE a \in Nat
  <2>1. a * x.perShare \in Int
    BY <1>1
  <2> QED
    BY <2>1, FarmConstants, DivIs DEF Earned
<1>3. \A f \in Farmers : Pending(x, f) = Earned(x, x.stakes[f].amount) - x.stakes[f].debt
  BY DEF Pending
<1>4. \A f \in Farmers : Pending(x, f) \in Int
  BY <1>1, <1>2, <1>3
<1> QED
  BY <1>1, <1>2, <1>3, <1>4 DEF Staked, Pendings

\* When one staked token earns p more, an amount a earns at most a p more, in
\* millionths, and a unit.
LEMMA EarnedGrows ==
  ASSUME NEW x \in FarmStates, NEW y \in FarmStates, NEW p \in Nat,
         y.perShare = x.perShare + p, NEW a \in Nat
  PROVE  /\ Scale * (Earned(y, a) - Earned(x, a)) <= p * a + Scale
         /\ Earned(x, a) <= Earned(y, a)
         /\ p = 0 => Earned(y, a) = Earned(x, a)
<1>1. PICK s \in Nat \ {0} : s = Scale
  BY FarmConstants
<1>2. PICK P \in Nat, Q \in Nat : P = x.perShare /\ Q = y.perShare
  BY DEF FarmStates
<1>3. PICK e, g : e = (a * P) \div s /\ g = (a * Q) \div s
  OBVIOUS
<1>4. a * P \in Nat /\ a * Q \in Nat /\ a * Q = a * P + p * a /\ p * a \in Nat
  BY <1>2
<1>5. e \in Int /\ e * s <= a * P /\ a * P < e * s + s
  BY <1>3, <1>4, DivIs
<1>6. g \in Int /\ g * s <= a * Q /\ a * Q < g * s + s
  BY <1>3, <1>4, DivIs
<1>7. Earned(x, a) = e /\ Earned(y, a) = g
  BY <1>1, <1>2, <1>3 DEF Earned
<1>8. s * (g - e) <= p * a + s
  <2>1. s * (g - e) = g * s - e * s /\ g * s \in Int /\ e * s \in Int
    BY <1>5, <1>6
  <2> QED
    BY <1>4, <1>5, <1>6, <2>1
<1>9. e <= g
  <2>1. e * s < (g + 1) * s
    BY <1>4, <1>5, <1>6
  <2>2. e < g + 1
    BY <1>5, <1>6, <2>1, QuotientOrder
  <2> QED
    BY <1>5, <1>6, <2>2
<1>10. p = 0 => g = e
  BY <1>2, <1>3
<1> QED
  BY <1>1, <1>7, <1>8, <1>9, <1>10

\* Accrual emits no more than the rate for the ledgers it covers, and rounding.
LEMMA AccruedGood ==
  ASSUME NEW x, FarmGood(x), now \in Nat, x.lastLedger <= now
  PROVE  /\ FarmGood(Accrued(x)) /\ Accrued(x).lastLedger <= now
         /\ Accrued(x).stakes = x.stakes /\ Accrued(x).paid = x.paid
         /\ Accrued(x).totalStaked = x.totalStaked /\ Accrued(x).vault = x.vault
         /\ Accrued(x).funded = x.funded
<1>1. x \in FarmStates /\ x.totalStaked = Total(Staked(x)) /\ x.rate <= Max(Rates)
  BY DEF FarmGood
<1>2. CASE x.totalStaked = 0
  BY <1>2 DEF Accrued
<1>3. CASE x.totalStaked # 0
  <2>1. PICK T \in Nat \ {0} : T = x.totalStaked
    <3>1. \A f \in Farmers : Staked(x)[f] \in Nat
      BY <1>1, FarmTypes
    <3>2. Total(Staked(x)) \in Nat
      BY <1>1, <3>1, FarmConstants, FarmTypes, TotalType
    <3> QED
      BY <1>1, <1>3, <3>2
  <2>2. PICK r \in Nat, last \in Nat, P \in Nat :
          r = x.rate /\ last = x.lastLedger /\ P = x.perShare
    BY <1>1 DEF FarmStates
  <2>3. PICK d \in Nat : d = now - last
    BY <2>2
  <2>4. PICK s \in Nat \ {0} : s = Scale
    BY FarmConstants
  <2>5. PICK p : p = (r * d * s) \div T
    OBVIOUS
  <2>6. r * d * s \in Nat
    <3>1. r * d \in Nat
      OBVIOUS
    <3> QED
      BY <3>1
  <2>7. p \in Int /\ p * T <= r * d * s /\ r * d * s < p * T + T
    BY <2>5, <2>6, DivIs
  <2>8. p \in Nat /\ (d = 0 => p = 0)
    <3>1. 0 * T < (p + 1) * T
      BY <2>6, <2>7
    <3>2. 0 < p + 1
      BY <2>7, <3>1, QuotientOrder
    <3>3. ASSUME d = 0 PROVE p = 0
      <4>1. r * d * s = 0
        BY <3>3
      <4>2. p * T <= 0 * T
        BY <2>7, <4>1
      <4>3. p <= 0
        BY <2>7, <4>2, QuotientOrder
      <4> QED
        BY <2>7, <3>2, <4>3
    <3> QED
      BY <2>7, <3>2, <3>3
  <2>9. PICK Q \in Nat, t \in Nat : Q = P + p /\ t = now
    BY <2>8
  <2>10. PICK y : y = [x EXCEPT !.perShare = Q, !.lastLedger = t]
    OBVIOUS
  <2>11. Accrued(x) = y
    BY <1>1, <1>3, <2>1, <2>2, <2>3, <2>4, <2>5, <2>9, <2>10 DEF Accrued, FarmStates
  <2>12. /\ y \in FarmStates /\ y.perShare = x.perShare + p /\ y.lastLedger = t
         /\ y.stakes = x.stakes /\ y.paid = x.paid /\ y.rate = x.rate
         /\ y.totalStaked = x.totalStaked /\ y.vault = x.vault /\ y.funded = x.funded
    BY <1>1, <2>2, <2>9, <2>10 DEF FarmStates
  <2>13. Staked(y) = Staked(x)
    BY <2>12 DEF Staked
  <2>14. \A f \in Farmers : y.stakes[f].debt <= Earned(y, y.stakes[f].amount)
    <3> TAKE f \in Farmers
    <3>1. PICK a \in Nat, debt \in Int : a = x.stakes[f].amount /\ debt = x.stakes[f].debt
      BY <1>1, FarmTypes
    <3>2. debt <= Earned(x, a) /\ Earned(x, a) \in Int /\ Earned(y, a) \in Int
      BY <1>1, <2>12, <3>1, FarmTypes DEF FarmGood
    <3>3. Earned(x, a) <= Earned(y, a)
      BY <1>1, <2>8, <2>12, EarnedGrows
    <3>4. debt <= Earned(y, a)
      BY <3>2, <3>3
    <3> QED
      BY <2>12, <3>1, <3>4
  <2>15. y.paid + Total(Pendings(y)) <= y.lastLedger * Emission
    <3>1. PICK f \in [Farmers -> Int], g \in [Farmers -> Int], a \in [Farmers -> Int] :
            f = Pendings(x) /\ g = Pendings(y) /\ a = Staked(x)
      BY <1>1, <2>12, FarmTypes
    <3>2. PICK n \in Nat, m \in Nat : n = Cardinality(Farmers) /\ m = Max(Rates)
      BY FarmConstants
    <3>3. \A h \in Farmers : /\ s * (g[h] - f[h]) <= p * a[h] + s
                             /\ p = 0 => g[h] = f[h]
      <4> TAKE h \in Farmers
      <4>1. PICK w \in Nat, debt \in Int : w = x.stakes[h].amount /\ debt = x.stakes[h].debt
        BY <1>1, FarmTypes
      <4>2. PICK e \in Int, i \in Int : e = Earned(x, w) /\ i = Earned(y, w)
        BY <1>1, <2>12, FarmTypes
      <4>3. f[h] = e - debt /\ g[h] = i - debt /\ a[h] = w
        BY <1>1, <2>12, <3>1, <4>1, <4>2, FarmTypes
      <4>4. s * (i - e) <= p * w + s /\ (p = 0 => i = e)
        BY <1>1, <2>4, <2>8, <2>12, <4>2, EarnedGrows
      <4>5. g[h] - f[h] = i - e
        BY <4>3
      <4> QED
        BY <4>3, <4>4, <4>5
    <3>4. /\ IsFiniteSet(Farmers) /\ Total(f) \in Int /\ Total(g) \in Int /\ Total(a) = T
      BY <1>1, <2>1, <3>1, FarmConstants, TotalType
    <3>5. PICK F \in Int, G \in Int : F = Total(f) /\ G = Total(g)
      BY <3>4
    <3>6. s * (G - F) <= p * T + s * n
      <4>1. s * (Total(g) - Total(f)) <= p * Total(a) + s * Cardinality(Farmers)
        <5>1. GrowsWithin(f, g, a, s, p, s)
          BY <3>3 DEF GrowsWithin
        <5> QED
          BY <2>7, <3>4, <5>1, TotalGrowth
      <4> QED
        BY <3>2, <3>4, <3>5, <4>1
    <3>7. G - F <= r * d + n
      <4>1. r * d \in Nat /\ p * T \in Int /\ s * n \in Nat /\ s * (G - F) \in Int
        BY <2>7
      <4>2. r * d * s = (r * d) * s /\ s * n = n * s
        OBVIOUS
      <4>3. s * (G - F) <= (r * d) * s + n * s
        BY <2>6, <2>7, <3>6, <4>1, <4>2
      <4>4. PICK q \in Nat : q = r * d
        BY <4>1
      <4>5. (G - F) * s <= (q + n) * s
        BY <4>3, <4>4
      <4>6. G - F <= q + n
        BY <4>5, QuotientOrder
      <4> QED
        BY <4>4, <4>6
    <3>8. G - F <= d * (m + n)
      <4>1. CASE d = 0
        <5>1. GrowsWithin(f, g, a, 1, 0, 0)
          <6>1. \A h \in Farmers : g[h] = f[h] /\ f[h] \in Int /\ a[h] \in Int
            BY <2>8, <3>3, <4>1
          <6> QED
            BY <6>1 DEF GrowsWithin
        <5>2. 1 * (Total(g) - Total(f)) <= 0 * Total(a) + 0 * Cardinality(Farmers)
          BY <3>4, <5>1, TotalGrowth
        <5>3. G - F <= 0
          BY <3>2, <3>4, <3>5, <5>2
        <5> QED
          BY <4>1, <5>3
      <4>2. CASE d # 0
        <5>1. r * d <= m * d /\ r <= m
          BY <1>1, <2>2, <3>2, ProductOrder
        <5>2. n * 1 <= n * d
          BY <4>2, ProductOrder
        <5>3. d * (m + n) = m * d + n * d /\ m * d \in Nat /\ n * d \in Nat /\ r * d \in Nat
          OBVIOUS
        <5> QED
          BY <3>7, <5>1, <5>2, <5>3
      <4> QED
        BY <4>1, <4>2
    <3>9. PICK paid_ \in Int : paid_ = x.paid
      BY <1>1 DEF FarmStates
    <3>10. paid_ + F <= last * (m + n)
      BY <2>2, <3>1, <3>2, <3>5, <3>9 DEF FarmGood, Emission
    <3>11. t * (m + n) = last * (m + n) + d * (m + n)
      BY <2>3, <2>9
    <3>12. last * (m + n) \in Int /\ d * (m + n) \in Int
      OBVIOUS
    <3>13. paid_ + G <= t * (m + n)
      BY <3>8, <3>10, <3>11, <3>12
    <3> QED
      BY <2>12, <3>1, <3>2, <3>5, <3>9, <3>13 DEF Emission
  <2>16. FarmGood(y)
    BY <1>1, <2>12, <2>13, <2>14, <2>15 DEF FarmGood
  <2> QED
    BY <2>9, <2>11, <2>12, <2>16
<1> QED
  BY <1>2, <1>3

\* Settling a user moves what is pending to what was paid, whatever the new stake.
LEMMA SettledGood ==
  ASSUME NEW x, FarmGood(x), NEW f \in Farmers, NEW w \in Nat
  PROVE  FarmGood(Settled(x, f, w)) /\ Settled(x, f, w).lastLedger = x.lastLedger
<1>1. x \in FarmStates /\ x.totalStaked = Total(Staked(x)) /\ x.rate <= Max(Rates)
      /\ x.vault = x.totalStaked + x.funded - x.paid
      /\ x.paid + Total(Pendings(x)) <= x.lastLedger * Emission
  BY DEF FarmGood
<1>2. PICK a \in Nat, debt \in Int, e \in Int :
        a = x.stakes[f].amount /\ debt = x.stakes[f].debt /\ e = Earned(x, w)
  BY <1>1, FarmTypes
<1>3. PICK due \in Nat : due = Pending(x, f)
  <2>1. debt <= Earned(x, a) /\ Earned(x, a) \in Int
    BY <1>1, <1>2, FarmTypes DEF FarmGood
  <2>2. Pending(x, f) = Earned(x, a) - debt
    BY <1>2 DEF Pending
  <2> QED
    BY <2>1, <2>2
<1>4. PICK T \in Int, v \in Int, q \in Int, u \in Int :
        /\ T = x.totalStaked /\ v = x.vault /\ q = x.paid /\ u = x.funded
  BY <1>1 DEF FarmStates
<1>5. PICK total \in Int, held \in Int, paid2 \in Int :
        total = T + w - a /\ held = v + w - a - due /\ paid2 = q + due
  OBVIOUS
<1>6. PICK stake \in [amount : Nat, debt : Int] : stake = [amount |-> w, debt |-> e]
  OBVIOUS
<1>7. PICK stakes \in [Farmers -> [amount : Nat, debt : Int]] :
        stakes = [x.stakes EXCEPT ![f] = stake]
  BY <1>1 DEF FarmStates
<1>8. PICK y : y = [x EXCEPT !.stakes = stakes, !.totalStaked = total, !.vault = held, !.paid = paid2]
  OBVIOUS
<1>9. Settled(x, f, w) = y
  <2>1. (IF Pending(x, f) > 0 THEN Pending(x, f) ELSE 0) = due
    BY <1>3
  <2>2. Settled(x, f, w) =
          [x EXCEPT !.stakes = stakes, !.totalStaked = T + w - a, !.vault = v + w - a - due,
                    !.paid = q + due]
    BY <1>1, <1>2, <1>4, <1>6, <1>7, <2>1 DEF Settled, FarmStates
  <2> QED
    BY <1>5, <1>8, <2>2
<1>10. /\ y \in FarmStates /\ y.stakes = stakes /\ y.totalStaked = total /\ y.vault = held
       /\ y.paid = paid2 /\ y.funded = x.funded /\ y.lastLedger = x.lastLedger
       /\ y.perShare = x.perShare /\ y.rate = x.rate
  BY <1>1, <1>8 DEF FarmStates
<1>11. \A z \in Nat : Earned(y, z) = Earned(x, z)
  BY <1>10 DEF Earned
<1>12. /\ stakes[f].amount = w /\ stakes[f].debt = e
       /\ \A h \in Farmers \ {f} : stakes[h] = x.stakes[h]
  BY <1>1, <1>6, <1>7 DEF FarmStates
<1>13. IsFiniteSet(Farmers) /\ Emission \in Nat
  BY FarmConstants
<1>14. total = Total(Staked(y))
  <2>1. PICK g \in [Farmers -> Int], k \in [Farmers -> Int] : g = Staked(x) /\ k = Staked(y)
    BY <1>1, <1>10, FarmTypes
  <2>2. g[f] = a /\ k[f] = w /\ \A h \in Farmers \ {f} : k[h] = g[h]
    BY <1>2, <1>10, <1>12, <2>1 DEF Staked
  <2>3. Total(k) = Total(g) + k[f] - g[f]
    BY SMTT(30), <1>13, <2>2, TotalChange
  <2> QED
    BY <1>1, <1>4, <1>5, <2>1, <2>2, <2>3
<1>15. \A h \in Farmers : y.stakes[h].debt <= Earned(y, y.stakes[h].amount)
  <2>1. y.stakes[f].debt = Earned(y, y.stakes[f].amount) /\ Earned(y, w) \in Int
    BY <1>2, <1>10, <1>11, <1>12, FarmTypes
  <2>2. ASSUME NEW h \in Farmers \ {f} PROVE y.stakes[h].debt <= Earned(y, y.stakes[h].amount)
    <3>1. x.stakes[h].amount \in Nat /\ x.stakes[h].debt <= Earned(x, x.stakes[h].amount)
      BY <1>1, FarmTypes DEF FarmGood
    <3> QED
      BY <1>10, <1>11, <1>12, <3>1
  <2>3. y.stakes[f].debt \in Int
    BY <1>2, <1>10, <1>12
  <2> QED
    BY <2>1, <2>2, <2>3
<1>16. paid2 + Total(Pendings(y)) <= y.lastLedger * Emission
  <2>1. PICK g \in [Farmers -> Int], k \in [Farmers -> Int] : g = Pendings(x) /\ k = Pendings(y)
    BY <1>1, <1>10, FarmTypes
  <2>2. g[f] = due
    BY <1>3, <2>1 DEF Pendings
  <2>3. k[f] = 0
    <3>1. k[f] = Earned(y, y.stakes[f].amount) - y.stakes[f].debt
      BY <1>10, <2>1, FarmTypes
    <3>2. y.stakes[f].amount = w /\ y.stakes[f].debt = e /\ Earned(y, w) = e
      BY <1>2, <1>10, <1>11, <1>12
    <3> QED
      BY <3>1, <3>2
  <2>4. ASSUME NEW h \in Farmers \ {f} PROVE k[h] = g[h]
    <3>1. /\ k[h] = Earned(y, y.stakes[h].amount) - y.stakes[h].debt
          /\ g[h] = Earned(x, x.stakes[h].amount) - x.stakes[h].debt
          /\ x.stakes[h].amount \in Nat
      BY <1>1, <1>10, <2>1, FarmTypes
    <3>2. y.stakes[h] = x.stakes[h]
      BY <1>10, <1>12
    <3> QED
      BY <1>11, <3>1, <3>2
  <2>5. Total(k) = Total(g) + k[f] - g[f]
    BY <1>13, <2>4, TotalChange
  <2>6. PICK G \in Int : G = Total(g)
    BY <1>13, TotalType
  <2>7. PICK bound : bound = x.lastLedger * Emission
    OBVIOUS
  <2>8. q + G <= bound
    BY <1>1, <1>4, <2>1, <2>6, <2>7
  <2>9. Total(k) = G + 0 - due
    BY <2>2, <2>3, <2>5, <2>6
  <2>10. paid2 + Total(k) = q + G
    BY <1>5, <2>9
  <2> QED
    BY <1>10, <2>1, <2>7, <2>8, <2>10
<1>17. held = total + x.funded - paid2
  BY <1>1, <1>4, <1>5
<1>18. FarmGood(y)
  BY <1>1, <1>10, <1>14, <1>15, <1>16, <1>17 DEF FarmGood
<1> QED
  BY <1>9, <1>10, <1>18

\* stake, unstake and claim accrue, then settle the user.
LEMMA FarmCalls ==
  ASSUME FarmInv, NEW f \in Farmers
  PROVE  /\ \A a \in FarmAmounts : StakeInFarm(f, a) \/ UnstakeFromFarm(f, a) => FarmInv'
         /\ ClaimFromFarm(f) => FarmInv'
<1>1. /\ FarmGood(Accrued(farm)) /\ Accrued(farm).lastLedger <= now
      /\ Accrued(farm).stakes = farm.stakes /\ now \in Nat
  BY AccruedGood DEF FarmInv
<1>2. PICK b \in Nat : b = farm.stakes[f].amount
  BY FarmTypes DEF FarmInv, FarmGood
<1>3. ASSUME NEW w \in Nat, farm' = Settled(Accrued(farm), f, w), now' = now
      PROVE  FarmInv'
  <2>1. FarmGood(Settled(Accrued(farm), f, w))
        /\ Settled(Accrued(farm), f, w).lastLedger <= now
    BY <1>1, SettledGood
  <2>2. PICK y : y = Settled(Accrued(farm), f, w)
    OBVIOUS
  <2>3. FarmGood(y) /\ y.lastLedger <= now /\ farm' = y
    BY <1>3, <2>1, <2>2
  <2>4. FarmGood(farm)'
    BY <2>3 DEF FarmGood, FarmStates, Staked, Pendings, Pending, Earned, Emission
  <2> QED
    BY <1>1, <1>3, <2>3, <2>4 DEF FarmInv
<1>4. ASSUME NEW a \in FarmAmounts, StakeInFarm(f, a) PROVE FarmInv'
  <2>1. b + a \in Nat /\ farm' = Settled(Accrued(farm), f, b + a) /\ now' = now
    BY <1>2, <1>4, FarmConstants DEF StakeInFarm
  <2> QED
    BY <1>3, <2>1
<1>5. ASSUME NEW a \in FarmAmounts, UnstakeFromFarm(f, a) PROVE FarmInv'
  <2>1. b - a \in Nat /\ farm' = Settled(Accrued(farm), f, b - a) /\ now' = now
    BY <1>2, <1>5, FarmConstants DEF UnstakeFromFarm
  <2> QED
    BY <1>3, <2>1
<1>6. ASSUME ClaimFromFarm(f) PROVE FarmInv'
  BY <1>2, <1>3, <1>6 DEF ClaimFromFarm
<1> QED
  BY <1>4, <1>5, <1>6

\* A new rate takes effect after what the old one has emitted is accrued.
LEMMA FarmRates ==
  ASSUME FarmInv, NEW r \in Rates, SetRewardPerLedger(r)
  PROVE  FarmInv'
<1>1. PICK x : x = Accrued(farm)
  OBVIOUS
<1>2. FarmGood(x) /\ x.lastLedger <= now /\ now \in Nat
  BY <1>1, AccruedGood DEF FarmInv
<1>3. r \in Nat /\ r <= Max(Rates)
  BY FarmConstants, FarmAssumption DEF SetRewardPerLedger
<1>4. farm' = [x EXCEPT !.rate = r] /\ now' = now
  BY <1>1 DEF SetRewardPerLedger
<1>5. x \in FarmStates
  BY <1>2 DEF FarmGood
<1>6. /\ farm' \in FarmStates /\ farm'.rate = r /\ farm'.stakes = x.stakes
      /\ farm'.totalStaked = x.totalStaked /\ farm'.lastLedger = x.lastLedger
      /\ farm'.perShare = x.perShare /\ farm'.vault = x.vault /\ farm'.funded = x.funded
      /\ farm'.paid = x.paid
  BY <1>3, <1>4, <1>5 DEF FarmStates
<1>7. Staked(farm)' = Staked(x) /\ Pendings(farm)' = Pendings(x)
  BY <1>6 DEF Staked, Pendings, Pending, Earned
<1>8. FarmGood(farm)'
  BY <1>2, <1>3, <1>6, <1>7 DEF FarmGood, Earned, FarmStates, Emission
<1> QED
  BY <1>2, <1>4, <1>6, <1>8 DEF FarmInv

LEMMA FarmFunding ==
  ASSUME FarmInv, NEW a \in FarmAmounts, FundFarm(a)
  PROVE  FarmInv'
<1>1. farm \in FarmStates /\ a \in Int
  BY FarmConstants DEF FarmInv, FarmGood
<1>2. PICK held \in Int, given \in Int : held = farm.vault + a /\ given = farm.funded + a
  BY <1>1 DEF FarmStates
<1>3. farm' = [farm EXCEPT !.vault = held, !.funded = given] /\ now' = now
  BY <1>1, <1>2 DEF FundFarm, FarmStates
<1>4. /\ farm' \in FarmStates /\ farm'.rate = farm.rate /\ farm'.stakes = farm.stakes
      /\ farm'.totalStaked = farm.totalStaked /\ farm'.lastLedger = farm.lastLedger
      /\ farm'.perShare = farm.perShare /\ farm'.vault = held /\ farm'.funded = given
      /\ farm'.paid = farm.paid
  BY <1>1, <1>3 DEF FarmStates
<1>5. Staked(farm)' = Staked(farm) /\ Pendings(farm)' = Pendings(farm)
  BY <1>4 DEF Staked, Pendings, Pending, Earned
<1>6. held = farm.totalStaked + given - farm.paid
  BY <1>1, <1>2 DEF FarmInv, FarmGood, FarmStates
<1>7. FarmGood(farm)'
  BY <1>4, <1>5, <1>6 DEF FarmInv, FarmGood, Earned, FarmStates, Emission
<1> QED
  BY <1>3, <1>4, <1>7 DEF FarmInv

LEMMA FarmInitInv == HostInit /\ FarmInit => FarmInv
<1> SUFFICES ASSUME HostInit, FarmInit PROVE FarmInv
  OBVIOUS
<1>1. farm \in FarmStates /\ farm.rate <= Max(Rates)
  BY FarmAssumption, FarmConstants DEF FarmInit, FarmStates
<1>2. /\ farm.perShare = 0 /\ farm.totalStaked = 0 /\ farm.vault = 0 /\ farm.funded = 0
      /\ farm.paid = 0 /\ farm.lastLedger = 0
      /\ \A f \in Farmers : farm.stakes[f].amount = 0 /\ farm.stakes[f].debt = 0
  BY DEF FarmInit
<1>3. Earned(farm, 0) = 0
  <2>1. 0 * farm.perShare = 0 /\ 0 \div Scale = 0
    BY <1>2 DEF Scale
  <2> QED
    BY <2>1 DEF Earned
<1>4. /\ Staked(farm) \in [Farmers -> Int] /\ Pendings(farm) \in [Farmers -> Int]
      /\ \A f \in Farmers : Staked(farm)[f] = 0 /\ Pendings(farm)[f] = 0
  BY <1>1, <1>2, <1>3, FarmTypes
<1>5. Total(Staked(farm)) = 0 /\ Total(Pendings(farm)) = 0
  BY <1>4, FarmConstants, TotalType
<1>6. 0 * Emission = 0
  BY FarmConstants
<1> QED
  BY <1>1, <1>2, <1>3, <1>5, <1>6 DEF FarmInv, FarmGood, HostInit

LEMMA FarmStep == ASSUME FarmInv, FarmNext PROVE FarmInv'
<1>1. ASSUME LedgerCloses /\ UNCHANGED farm PROVE FarmInv'
  <2>1. FarmGood(farm)' /\ now' = now + 1 /\ farm' = farm
    BY <1>1 DEF LedgerCloses, FarmInv, FarmGood, FarmStates, Staked, Pendings, Pending, Earned,
                Emission
  <2>2. farm.lastLedger \in Nat
    BY DEF FarmInv, FarmGood, FarmStates
  <2> QED
    BY <2>1, <2>2 DEF FarmInv
<1> QED
  BY <1>1, FarmCalls, FarmRates, FarmFunding DEF FarmNext

\* The invariant says what the property does: an accrual now would keep the bound.
LEMMA FarmEmits == FarmInv => RewardsWithinEmission
<1> SUFFICES ASSUME FarmInv PROVE RewardsWithinEmission
  OBVIOUS
<1>1. PICK x : x = Accrued(farm)
  OBVIOUS
<1>2. FarmGood(x) /\ x.lastLedger <= now /\ x.paid = farm.paid /\ now \in Nat
  BY <1>1, AccruedGood DEF FarmInv
<1>3. x.lastLedger \in Nat /\ Emission \in Nat /\ x.paid \in Int
  BY <1>2, FarmConstants DEF FarmGood, FarmStates
<1>4. x.lastLedger * Emission <= now * Emission
  BY <1>2, <1>3, ProductOrder
<1>5. Total(Pendings(x)) \in Int
  BY <1>2, FarmTypes, FarmConstants, TotalType DEF FarmGood
<1>6. x.paid + Total(Pendings(x)) <= now * Emission
  <2>1. x.paid + Total(Pendings(x)) <= x.lastLedger * Emission
    BY <1>2 DEF FarmGood
  <2>2. x.lastLedger * Emission \in Int /\ now * Emission \in Int
    BY <1>2, <1>3
  <2> QED
    BY <1>3, <1>4, <1>5, <2>1, <2>2
<1>7. farm.paid + Total([f \in Farmers |-> Pending(Accrued(farm), f)])
        <= now * (Max(Rates) + Cardinality(Farmers))
  BY <1>1, <1>2, <1>6 DEF Pendings, Emission
<1> QED
  BY <1>7 DEF FarmInv, FarmGood, RewardsWithinEmission, Staked

\* Whoever stakes, leaves and comes back when, and however the rate changes, the
\* rewards paid and pending stay within what the highest rate emits, and rounding.
THEOREM RewardsStayWithinEmission == FarmSpec => []RewardsWithinEmission
<1>1. FarmInv /\ [FarmNext]_<<now, farm>> => FarmInv'
  <2>1. ASSUME FarmInv, UNCHANGED <<now, farm>> PROVE FarmInv'
    BY <2>1 DEF FarmInv, FarmGood, FarmStates, Staked, Pendings, Pending, Earned, Emission
  <2> QED
    BY <2>1, FarmStep
<1> QED
  BY <1>1, FarmInitInv, FarmEmits, PTL DEF FarmSpec

-----------------------------------------------------------------------------
(* The strategy vault.                                                         *)

StrategyVaultStates ==
  [strategy : Strategies \cup {"none"}, cap : Int, paused : BOOLEAN,
   totalAssets : Nat, totalShares : Nat, shares : [Savers -> Nat], vault : Int]

\* A share is worth at least a unit, and no assets are left without a share:
\* what makes every share redeemable.
VaultInv ==
  /\ strategyVault \in StrategyVaultStates
  /\ strategyVault.totalAssets <= strategyVault.cap
  /\ Total(strategyVault.shares) = strategyVault.totalShares
  /\ strategyVault.vault = strategyVault.totalAssets
  /\ strategyVault.totalShares <= strategyVault.totalAssets
  /\ strategyVault.totalShares = 0 => strategyVault.totalAssets = 0

\* The fields, with the types that the arithmetic needs.
LEMMA VaultFields ==
  ASSUME VaultInv
  PROVE  /\ IsFiniteSet(Savers) /\ VaultAmounts \subseteq Int /\ Caps \subseteq Int
         /\ strategyVault.totalAssets \in Nat /\ strategyVault.totalShares \in Nat
         /\ strategyVault.cap \in Int /\ strategyVault.vault \in Int
         /\ strategyVault.shares \in [Savers -> Int]
         /\ \A s \in Savers : strategyVault.shares[s] \in Nat
         /\ \A s \in Savers : strategyVault.shares[s] <= strategyVault.totalShares
<1>1. /\ IsFiniteSet(Savers) /\ VaultAmounts \subseteq Int /\ Caps \subseteq Int
      /\ strategyVault.totalAssets \in Nat /\ strategyVault.totalShares \in Nat
      /\ strategyVault.cap \in Int /\ strategyVault.vault \in Int
      /\ strategyVault.shares \in [Savers -> Int]
      /\ \A s \in Savers : strategyVault.shares[s] \in Nat
  BY StrategyVaultAssumption DEF VaultInv, StrategyVaultStates
<1>2. \A s \in Savers : strategyVault.shares[s] <= Total(strategyVault.shares)
  BY <1>1, TotalType
<1> QED
  BY <1>1, <1>2 DEF VaultInv

\* What shares are worth, when assets cover them.
LEMMA AssetsWorth ==
  ASSUME NEW A \in Nat, NEW S \in Nat \ {0}, S <= A, NEW n \in 1 .. S,
         NEW w, w = (n * A) \div S
  PROVE  /\ w \in Nat /\ 0 < w /\ w <= A
         /\ S - n <= A - w
         /\ n = S => w = A
<1>1. n * A \in Nat /\ n \in Nat /\ 1 <= n /\ n <= S
  OBVIOUS
<1>2. w \in Int /\ w * S <= n * A /\ n * A < w * S + S
  BY <1>1, DivIs
<1>3. 0 < w
  <2>1. S <= n * A
    <3>1. 1 * S <= n * S /\ n * S <= n * A
      BY <1>1, ProductOrder
    <3> QED
      BY <1>1, <3>1
  <2>2. 0 * S < w * S
    BY <1>2, <2>1
  <2> QED
    BY <1>2, <2>2, QuotientOrder
<1>4. w <= A
  <2>1. n * A <= S * A
    BY <1>1, ProductOrder
  <2>2. w * S <= A * S
    BY <1>1, <1>2, <2>1
  <2> QED
    BY <1>2, <2>2, QuotientOrder
<1>5. S - n <= A - w
  <2>1. (S - n) * S <= (S - n) * A
    BY <1>1, ProductOrder
  <2>2. (S - n) * A = S * A - n * A /\ (A - w) * S = S * A - w * S
    BY <1>1, <1>2
  <2>3. (S - n) * S <= (A - w) * S
    BY <1>1, <1>2, <2>1, <2>2
  <2> QED
    BY <1>1, <1>2, <2>3, QuotientOrder
<1>6. ASSUME n = S PROVE w = A
  <2>1. A * S < (w + 1) * S
    BY <1>1, <1>2, <1>6
  <2>2. A < w + 1
    BY <1>2, <2>1, QuotientOrder
  <2> QED
    BY <1>2, <1>4, <2>2
<1> QED
  BY <1>2, <1>3, <1>4, <1>5, <1>6

\* A deposit buys no more shares than it brings assets.
LEMMA SharesBought ==
  ASSUME NEW A \in Nat, NEW S \in Nat, S <= A, S = 0 => A = 0, NEW a \in Nat \ {0},
         NEW k, k = IF S = 0 THEN a ELSE (a * S) \div A
  PROVE  k \in Nat /\ k <= a
<1>1. CASE S = 0
  BY <1>1
<1>2. CASE S # 0
  <2>1. a * S \in Nat /\ A \in Nat \ {0} /\ k = (a * S) \div A
    BY <1>2
  <2>2. k \in Int /\ k * A <= a * S /\ a * S < k * A + A
    BY <2>1, DivIs
  <2>3. a * S <= a * A
    BY ProductOrder
  <2>4. k * A <= a * A
    BY <2>2, <2>3
  <2>5. k <= a
    BY <2>1, <2>2, <2>4, QuotientOrder
  <2>6. 0 * A < (k + 1) * A
    BY <2>1, <2>2
  <2>7. 0 < k + 1
    BY <2>1, <2>2, <2>6, QuotientOrder
  <2> QED
    BY <2>2, <2>5, <2>7
<1> QED
  BY <1>1, <1>2

\* The invariant says what the property does.
LEMMA VaultRedeems == VaultInv => SharesRedeemable
<1> SUFFICES ASSUME VaultInv PROVE SharesRedeemable
  OBVIOUS
<1>1. ASSUME NEW s \in Savers, NEW n \in 1 .. strategyVault.shares[s]
      PROVE  AssetsForShares(n) > 0 /\ CanPay(strategyVault.vault, AssetsForShares(n))
  <2>1. PICK A \in Nat, S \in Nat : A = strategyVault.totalAssets /\ S = strategyVault.totalShares
    BY VaultFields
  <2>2. S <= A /\ n \in 1 .. S /\ strategyVault.vault = A /\ S \in Nat \ {0}
    BY <2>1, VaultFields DEF VaultInv
  <2>3. PICK w : w = (n * A) \div S
    OBVIOUS
  <2>4. w \in Nat /\ 0 < w /\ w <= A
    <3>1. A \in Nat /\ S \in Nat \ {0} /\ S <= A /\ n \in 1 .. S
      BY <2>2
    <3> QED
      BY ONLY <2>3, <3>1, AssetsWorth
  <2> QED
    BY <2>1, <2>2, <2>3, <2>4 DEF AssetsForShares, CanPay
<1> QED
  BY <1>1 DEF VaultInv, SharesRedeemable

\* Writing a saver's shares and the totals together.
LEMMA VaultWritten ==
  ASSUME VaultInv, NEW s \in Savers, NEW k \in Nat, NEW A \in Nat, NEW S \in Nat,
         S - strategyVault.totalShares = k - strategyVault.shares[s],
         S <= A, A <= strategyVault.cap, S = 0 => A = 0,
         strategyVault' = [strategyVault EXCEPT !.shares = [strategyVault.shares EXCEPT ![s] = k],
                             !.totalAssets = A, !.totalShares = S, !.vault = A]
  PROVE  VaultInv'
<1>1. PICK old \in [Savers -> Int] : old = strategyVault.shares
  BY VaultFields
<1>2. PICK held \in [Savers -> Nat] : held = [strategyVault.shares EXCEPT ![s] = k]
  BY DEF VaultInv, StrategyVaultStates
<1>3. held \in [Savers -> Int] /\ held[s] = k /\ \A y \in Savers \ {s} : held[y] = old[y]
  BY <1>1, <1>2
<1>4. IsFiniteSet(Savers) /\ Total(old) = strategyVault.totalShares
      /\ strategyVault.totalShares \in Int /\ old[s] \in Int
  BY <1>1, VaultFields DEF VaultInv
<1>5. Total(held) = Total(old) + held[s] - old[s]
  BY <1>3, <1>4, TotalChange
<1>6. Total(held) = S
  BY <1>1, <1>3, <1>4, <1>5
<1>7. strategyVault' = [strategyVault EXCEPT !.shares = held,
                          !.totalAssets = A, !.totalShares = S, !.vault = A]
  BY <1>2
<1>8. /\ strategyVault' \in StrategyVaultStates
      /\ strategyVault'.shares = held /\ strategyVault'.totalAssets = A
      /\ strategyVault'.totalShares = S /\ strategyVault'.vault = A
      /\ strategyVault'.cap = strategyVault.cap
  <2>1. strategyVault \in StrategyVaultStates
    BY DEF VaultInv
  <2>2. A \in Int
    OBVIOUS
  <2> QED
    BY <1>7, <2>1, <2>2 DEF StrategyVaultStates
<1> QED
  BY <1>6, <1>8 DEF VaultInv

LEMMA VaultDeposits ==
  ASSUME VaultInv, NEW s \in Savers, NEW a \in VaultAmounts, DepositToVault(s, a)
  PROVE  VaultInv'
<1>1. PICK A \in Nat, S \in Nat, old \in Nat :
        A = strategyVault.totalAssets /\ S = strategyVault.totalShares /\ old = strategyVault.shares[s]
  BY VaultFields
<1>2. a \in Nat \ {0} /\ A + a <= strategyVault.cap /\ S <= A /\ (S = 0 => A = 0)
      /\ strategyVault.vault = A
  BY <1>1, VaultFields DEF DepositToVault, VaultInv
<1>3. PICK k : k = IF S = 0 THEN a ELSE (a * S) \div A
  OBVIOUS
<1>4. k \in Nat /\ k <= a
  BY <1>2, <1>3, SharesBought
<1>5. k = SharesForAssets(a) /\ k > 0
  BY <1>1, <1>3 DEF DepositToVault, SharesForAssets
<1>6. strategyVault' = [strategyVault EXCEPT
        !.shares = [strategyVault.shares EXCEPT ![s] = old + k],
        !.totalAssets = A + a, !.totalShares = S + k, !.vault = A + a]
  BY <1>1, <1>2, <1>5 DEF DepositToVault, VaultInv, StrategyVaultStates
<1>7. /\ old + k \in Nat /\ A + a \in Nat /\ S + k \in Nat /\ S + k <= A + a
      /\ (S + k) - strategyVault.totalShares = (old + k) - strategyVault.shares[s]
      /\ S + k # 0
  BY <1>1, <1>2, <1>4, <1>5
<1> QED
  BY <1>2, <1>6, <1>7, VaultWritten

LEMMA VaultWithdrawals ==
  ASSUME VaultInv, NEW s \in Savers, NEW n \in 1 .. strategyVault.shares[s],
         WithdrawFromVault(s, n)
  PROVE  VaultInv'
<1>1. PICK A \in Nat, S \in Nat, old \in Nat :
        A = strategyVault.totalAssets /\ S = strategyVault.totalShares /\ old = strategyVault.shares[s]
  BY VaultFields
<1>2. n \in 1 .. S /\ n <= old /\ S <= A /\ S \in Nat \ {0} /\ strategyVault.vault = A
      /\ A <= strategyVault.cap /\ strategyVault.cap \in Int
  BY <1>1, VaultFields DEF VaultInv
<1>3. PICK w : w = (n * A) \div S
  OBVIOUS
<1>4. w \in Nat /\ w <= A /\ S - n <= A - w /\ (n = S => w = A)
  <2>1. A \in Nat /\ S \in Nat \ {0} /\ S <= A /\ n \in 1 .. S
    BY <1>2
  <2> QED
    BY ONLY <1>3, <2>1, AssetsWorth
<1>5. w = AssetsForShares(n)
  BY <1>1, <1>3 DEF AssetsForShares
<1>6. strategyVault' = [strategyVault EXCEPT
        !.shares = [strategyVault.shares EXCEPT ![s] = old - n],
        !.totalAssets = A - w, !.totalShares = S - n, !.vault = A - w]
  BY <1>1, <1>2, <1>5 DEF WithdrawFromVault, VaultInv, StrategyVaultStates
<1>7. /\ old - n \in Nat /\ A - w \in Nat /\ S - n \in Nat /\ S - n <= A - w
      /\ (S - n) - strategyVault.totalShares = (old - n) - strategyVault.shares[s]
      /\ (S - n = 0 => A - w = 0) /\ A - w <= strategyVault.cap
  BY <1>1, <1>2, <1>4
<1> QED
  BY <1>6, <1>7, VaultWritten

LEMMA VaultInitInv == StrategyVaultInit => VaultInv
<1> SUFFICES ASSUME StrategyVaultInit PROVE VaultInv
  OBVIOUS
<1> DEFINE b == [h \in Savers |-> 0]
<1>1. IsFiniteSet(Savers) /\ b \in [Savers -> Int] /\ \A h \in Savers : b[h] = 0
  BY StrategyVaultAssumption
<1>2. Total(b) = 0
  <2> HIDE DEF b
  <2> QED
    BY <1>1, TotalType
<1>3. strategyVault \in StrategyVaultStates
  BY StrategyVaultAssumption DEF StrategyVaultInit, StrategyVaultStates
<1> QED
  BY <1>2, <1>3, StrategyVaultAssumption DEF StrategyVaultInit, VaultInv

LEMMA VaultStep == ASSUME VaultInv, StrategyVaultNext PROVE VaultInv'
<1>1. ASSUME NEW x \in Strategies, SetStrategy(x) PROVE VaultInv'
  BY <1>1 DEF SetStrategy, VaultInv, StrategyVaultStates
<1>2. ASSUME NEW cap \in Caps, SetDepositCap(cap) PROVE VaultInv'
  BY <1>2, StrategyVaultAssumption DEF SetDepositCap, VaultInv, StrategyVaultStates
<1>3. ASSUME NEW p \in BOOLEAN, PauseStrategyVault(p) PROVE VaultInv'
  BY <1>3 DEF PauseStrategyVault, VaultInv, StrategyVaultStates
<1> QED
  BY <1>1, <1>2, <1>3, VaultDeposits, VaultWithdrawals DEF StrategyVaultNext

\* Whoever deposits and withdraws in whatever order, every share can be redeemed
\* for something that the vault holds.
THEOREM VaultSharesRedeemable == StrategyVaultSpec => []SharesRedeemable
<1>1. HostInit /\ StrategyVaultInit => VaultInv
  BY VaultInitInv
<1>2. VaultInv /\ [StrategyVaultNext]_<<now, strategyVault>> => VaultInv'
  BY VaultStep DEF VaultInv
<1> QED
  BY <1>1, <1>2, VaultRedeems, PTL DEF StrategyVaultSpec

-----------------------------------------------------------------------------
(* The USDC vault.                                                             *)

UsdcStates ==
  [admin : UsdcAdmins, paused : BOOLEAN, reserve : Int, deposits : [UsdcUsers -> Int],
   totalDeposited : Int, totalReleased : Int, vault : Int, adminTook : Int]

UsdcInv == usdcVault \in UsdcStates /\ UsdcBooks

LEMMA UsdcStep == ASSUME UsdcInv, UsdcVaultNext PROVE UsdcInv'
<1>1. /\ IsFiniteSet(UsdcUsers) /\ UsdcAmounts \subseteq Int /\ Minimums \subseteq Int
      /\ usdcVault \in UsdcStates
      /\ Total(usdcVault.deposits) = usdcVault.totalDeposited
  BY UsdcAssumption DEF UsdcInv, UsdcBooks
<1>2. ASSUME NEW u \in UsdcUsers, NEW a \in UsdcAmounts, DepositUsdc(u, a) PROVE UsdcInv'
  <2>1. PICK old \in [UsdcUsers -> Int] : old = usdcVault.deposits
    BY <1>1 DEF UsdcStates
  <2>2. a \in Int /\ a > 0
    BY <1>1, <1>2 DEF DepositUsdc
  <2>3. PICK new \in [UsdcUsers -> Int] : new = [old EXCEPT ![u] = old[u] + a]
    <3>1. PICK more \in Int : more = old[u] + a
      BY <2>2
    <3>2. [old EXCEPT ![u] = more] \in [UsdcUsers -> Int]
      OBVIOUS
    <3> QED
      BY <3>1, <3>2
  <2>4. /\ new[u] = old[u] + a /\ \A v \in UsdcUsers \ {u} : new[v] = old[v]
    BY <2>3
  <2>5. Total(new) = Total(old) + new[u] - old[u]
    BY <1>1, <2>4, TotalChange
  <2>6. Total(old) \in Int /\ old[u] \in Int
    BY <1>1, TotalType
  <2>7. Total(new) = Total(old) + a
    BY <2>2, <2>4, <2>5, <2>6
  <2>8. usdcVault' = [usdcVault EXCEPT
          !.deposits = new, !.totalDeposited = usdcVault.totalDeposited + a,
          !.vault = usdcVault.vault + a]
    BY <1>1, <1>2, <2>1, <2>3 DEF DepositUsdc, UsdcStates
  <2>9. usdcVault' \in UsdcStates
    <3>1. PICK deposited \in Int : deposited = usdcVault.totalDeposited + a
      BY <1>1, <2>2 DEF UsdcStates
    <3>2. PICK held \in Int : held = usdcVault.vault + a
      BY <1>1, <2>2 DEF UsdcStates
    <3>3. usdcVault' = [usdcVault EXCEPT
            !.deposits = new, !.totalDeposited = deposited, !.vault = held]
      BY <2>8, <3>1, <3>2
    <3> QED
      BY <1>1, <3>3 DEF UsdcStates
  <2>10. /\ usdcVault'.deposits = new
         /\ usdcVault'.totalDeposited = usdcVault.totalDeposited + a
         /\ usdcVault'.vault = usdcVault.vault + a
         /\ usdcVault'.totalReleased = usdcVault.totalReleased
         /\ usdcVault'.adminTook = usdcVault.adminTook
    BY <1>1, <2>8 DEF UsdcStates
  <2>11. /\ usdcVault.vault >= 0
         /\ usdcVault.vault + usdcVault.totalReleased + usdcVault.adminTook
              = usdcVault.totalDeposited
    BY DEF UsdcInv, UsdcBooks
  <2>12. UsdcBooks'
    BY <1>1, <2>1, <2>2, <2>7, <2>10, <2>11 DEF UsdcBooks, UsdcStates
  <2> QED
    BY <2>9, <2>12 DEF UsdcInv
<1>3. ASSUME NEW by \in UsdcAdmins, NEW a \in UsdcAmounts,
             ReleaseUsdc(by, a) \/ AdminWithdrawUsdc(by, a)
      PROVE  UsdcInv'
  <2>1. a \in Int /\ a <= usdcVault.vault /\ a > 0
    BY <1>1, <1>3 DEF ReleaseUsdc, AdminWithdrawUsdc, Spendable, UsdcStates
  <2>2. /\ usdcVault.vault >= 0 /\ usdcVault.vault \in Int /\ usdcVault.totalReleased \in Int
        /\ usdcVault.adminTook \in Int /\ usdcVault.totalDeposited \in Int
        /\ usdcVault.vault + usdcVault.totalReleased + usdcVault.adminTook
             = usdcVault.totalDeposited
    BY <1>1 DEF UsdcInv, UsdcBooks, UsdcStates
  <2>3. PICK held \in Int, released \in Int, took \in Int :
          /\ held = usdcVault.vault - a
          /\ released = usdcVault.totalReleased + a
          /\ took = usdcVault.adminTook + a
    BY <2>1, <2>2
  <2>4. CASE usdcVault' = [usdcVault EXCEPT !.vault = held, !.totalReleased = released]
    <3>1. /\ usdcVault' \in UsdcStates /\ usdcVault'.vault = held
          /\ usdcVault'.totalReleased = released /\ usdcVault'.adminTook = usdcVault.adminTook
          /\ usdcVault'.deposits = usdcVault.deposits
          /\ usdcVault'.totalDeposited = usdcVault.totalDeposited
      BY <1>1, <2>4 DEF UsdcStates
    <3>2. held >= 0 /\ held + released + usdcVault.adminTook = usdcVault.totalDeposited
      BY <2>1, <2>2, <2>3
    <3> QED
      BY <1>1, <3>1, <3>2 DEF UsdcInv, UsdcBooks
  <2>5. CASE usdcVault' = [usdcVault EXCEPT !.vault = held, !.adminTook = took]
    <3>1. /\ usdcVault' \in UsdcStates /\ usdcVault'.vault = held
          /\ usdcVault'.adminTook = took /\ usdcVault'.totalReleased = usdcVault.totalReleased
          /\ usdcVault'.deposits = usdcVault.deposits
          /\ usdcVault'.totalDeposited = usdcVault.totalDeposited
      BY <1>1, <2>5 DEF UsdcStates
    <3>2. held >= 0 /\ held + usdcVault.totalReleased + took = usdcVault.totalDeposited
      BY <2>1, <2>2, <2>3
    <3> QED
      BY <1>1, <3>1, <3>2 DEF UsdcInv, UsdcBooks
  <2> QED
    BY <1>1, <1>3, <2>3, <2>4, <2>5 DEF ReleaseUsdc, AdminWithdrawUsdc, UsdcStates
<1>4. ASSUME NEW by \in UsdcAdmins, NEW m \in Minimums, SetReserveMinimum(by, m)
      PROVE  UsdcInv'
  BY <1>1, <1>4 DEF SetReserveMinimum, UsdcInv, UsdcBooks, UsdcStates
<1>5. ASSUME NEW by \in UsdcAdmins, NEW p \in BOOLEAN, PauseUsdcVault(by, p) PROVE UsdcInv'
  BY <1>1, <1>5 DEF PauseUsdcVault, UsdcInv, UsdcBooks, UsdcStates
<1>6. ASSUME NEW by \in UsdcAdmins, NEW new \in UsdcAdmins, SetUsdcAdmin(by, new) PROVE UsdcInv'
  BY <1>1, <1>6 DEF SetUsdcAdmin, UsdcInv, UsdcBooks, UsdcStates
<1> QED
  BY <1>2, <1>3, <1>4, <1>5, <1>6 DEF UsdcVaultNext

LEMMA UsdcInitInv == UsdcVaultInit => UsdcInv
<1> SUFFICES ASSUME UsdcVaultInit PROVE UsdcInv
  OBVIOUS
<1> DEFINE b == [h \in UsdcUsers |-> 0]
<1>1. IsFiniteSet(UsdcUsers) /\ b \in [UsdcUsers -> Int] /\ \A h \in UsdcUsers : b[h] = 0
  BY UsdcAssumption
<1>2. Total(b) = 0
  <2> HIDE DEF b
  <2> QED
    BY <1>1, TotalType
<1>3. usdcVault \in UsdcStates
  BY UsdcAssumption DEF UsdcVaultInit, UsdcStates
<1> QED
  BY <1>2, <1>3 DEF UsdcVaultInit, UsdcInv, UsdcBooks

\* What was deposited is what the vault holds, has released and has paid to its
\* admin, whatever is set and paused between (release, admin_withdraw).
THEOREM UsdcIsAccountedFor == UsdcVaultSpec => []UsdcBooks
<1>1. HostInit /\ UsdcVaultInit => UsdcInv
  BY UsdcInitInv
<1>2. UsdcInv /\ [UsdcVaultNext]_<<now, usdcVault>> => UsdcInv'
  BY UsdcStep DEF UsdcInv, UsdcBooks
<1>3. UsdcInv => UsdcBooks
  BY DEF UsdcInv
<1> QED
  BY <1>1, <1>2, <1>3, PTL DEF UsdcVaultSpec

-----------------------------------------------------------------------------
(* The wPI token.                                                              *)

WpiStates ==
  [admin : WpiAdmins, paused : BOOLEAN, supply : Int, balance : [WpiHolders -> Nat],
   allowance : [WpiHolders -> [WpiHolders -> Int]], selfSent : Int]

WpiInv == wpi \in WpiStates /\ WpiSupply

LEMMA WpiFields ==
  ASSUME WpiInv
  PROVE  /\ IsFiniteSet(WpiHolders) /\ WpiAmounts \subseteq Int
         /\ wpi.balance \in [WpiHolders -> Int] /\ wpi.supply \in Int /\ wpi.selfSent \in Int
         /\ \A h \in WpiHolders : wpi.balance[h] \in Nat
         /\ Total(wpi.balance) = wpi.supply + wpi.selfSent
  BY WpiAssumption DEF WpiInv, WpiStates, WpiSupply

\* What is written must still agree.
LEMMA WpiWritten ==
  ASSUME wpi' \in WpiStates, Total(wpi'.balance) = wpi'.supply + wpi'.selfSent
  PROVE  WpiInv'
<1>1. \A h \in WpiHolders : wpi'.balance[h] >= 0
  BY DEF WpiStates
<1> QED
  BY <1>1 DEF WpiInv, WpiSupply

\* A transfer of what is there moves it; the holder who sends to itself gains
\* it, and the history says so.
LEMMA WpiMovedKeeps ==
  ASSUME WpiInv, NEW x \in WpiStates, x.balance = wpi.balance, x.supply = wpi.supply,
         x.selfSent = wpi.selfSent,
         NEW from \in WpiHolders, NEW to \in WpiHolders, NEW amount \in Int,
         0 <= amount, amount <= wpi.balance[from],
         wpi' = WpiMoved(x, from, to, amount)
  PROVE  WpiInv'
<1>1. /\ IsFiniteSet(WpiHolders) /\ wpi.balance \in [WpiHolders -> Int]
      /\ \A h \in WpiHolders : wpi.balance[h] \in Nat
      /\ wpi.supply \in Int /\ wpi.selfSent \in Int
      /\ Total(wpi.balance) = wpi.supply + wpi.selfSent
  BY WpiFields
<1>2. PICK b \in [WpiHolders -> Int] : b = wpi.balance
  BY <1>1
<1>3. PICK less \in Nat : less = b[from] - amount
  BY <1>1, <1>2
<1>4. PICK c \in [WpiHolders -> Nat] : c = [b EXCEPT ![from] = less]
  BY <1>1, <1>2, <1>3
<1>5. Total(c) = Total(b) + less - b[from]
  <2>1. c \in [WpiHolders -> Int] /\ c[from] = less /\ \A h \in WpiHolders \ {from} : c[h] = b[h]
    BY <1>4
  <2>2. Total(c) = Total(b) + c[from] - b[from]
    BY <1>1, <2>1, TotalChange
  <2> QED
    BY <2>1, <2>2
<1>6. PICK more \in Nat : more = b[to] + amount
  BY <1>1, <1>2
<1>7. PICK d \in [WpiHolders -> Nat] : d = [c EXCEPT ![to] = more]
  BY <1>4, <1>6
<1>8. Total(d) = Total(c) + more - c[to]
  <2>1. /\ c \in [WpiHolders -> Int] /\ d \in [WpiHolders -> Int]
        /\ d[to] = more /\ \A h \in WpiHolders \ {to} : d[h] = c[h]
    BY <1>7
  <2>2. Total(d) = Total(c) + d[to] - c[to]
    BY <1>1, <2>1, TotalChange
  <2> QED
    BY <2>1, <2>2
<1>9. c[to] = IF from = to THEN b[to] - amount ELSE b[to]
  BY <1>3, <1>4
<1>10. Total(b) \in Int /\ b[to] \in Int /\ b[from] \in Int
  BY <1>1, TotalType
<1>11. Total(d) = Total(b) + (IF from = to THEN amount ELSE 0)
  BY <1>3, <1>5, <1>6, <1>8, <1>9, <1>10
<1>12. PICK sent \in Int : sent = wpi.selfSent + (IF from = to THEN amount ELSE 0)
  BY <1>1
<1>13. [x.balance EXCEPT ![from] = @ - amount, ![to] = x.balance[to] + amount] = d
  BY <1>2, <1>3, <1>4, <1>6, <1>7
<1>14. (IF from = to THEN x.selfSent + amount ELSE x.selfSent) = sent
  BY <1>1, <1>12
<1>15. wpi' = [x EXCEPT !.balance = d, !.selfSent = sent]
  <2>1. wpi' = [x EXCEPT
          !.balance = [x.balance EXCEPT ![from] = @ - amount, ![to] = x.balance[to] + amount],
          !.selfSent = IF from = to THEN x.selfSent + amount ELSE x.selfSent]
    BY DEF WpiMoved, WpiStates
  <2> QED
    BY <1>13, <1>14, <2>1
<1>16. wpi' \in WpiStates /\ wpi'.balance = d /\ wpi'.selfSent = sent /\ wpi'.supply = wpi.supply
  BY <1>15 DEF WpiStates
<1>17. Total(d) = wpi.supply + sent
  BY <1>1, <1>2, <1>11, <1>12
<1> QED
  BY <1>16, <1>17, WpiWritten

LEMMA WpiTransfers ==
  ASSUME WpiInv, NEW from \in WpiHolders, NEW to \in WpiHolders, NEW a \in WpiAmounts
  PROVE  /\ TransferWpi(from, to, a) => WpiInv'
         /\ \A s \in WpiHolders : TransferWpiFrom(s, from, to, a) => WpiInv'
<1>1. a \in Int
  BY WpiFields
<1>2. ASSUME TransferWpi(from, to, a) PROVE WpiInv'
  BY <1>1, <1>2, WpiMovedKeeps DEF TransferWpi, CanMoveWpi, WpiInv
<1>3. ASSUME NEW s \in WpiHolders, TransferWpiFrom(s, from, to, a) PROVE WpiInv'
  <2>1. PICK given \in [WpiHolders -> [WpiHolders -> Int]] :
          given = [wpi.allowance EXCEPT ![from][s] = @ - a]
    <3>1. PICK old \in [WpiHolders -> [WpiHolders -> Int]] : old = wpi.allowance
      BY DEF WpiInv, WpiStates
    <3>2. old[from] \in [WpiHolders -> Int] /\ old[from][s] - a \in Int
      BY <1>1
    <3>3. [old EXCEPT ![from][s] = @ - a] \in [WpiHolders -> [WpiHolders -> Int]]
      BY <3>2
    <3> QED
      BY <3>1, <3>3
  <2>2. PICK x \in WpiStates : x = [wpi EXCEPT !.allowance = given]
    BY DEF WpiInv, WpiStates
  <2>3. /\ x.balance = wpi.balance /\ x.supply = wpi.supply /\ x.selfSent = wpi.selfSent
    BY <2>2 DEF WpiInv, WpiStates
  <2>4. x = [wpi EXCEPT !.allowance[from][s] = @ - a]
    BY <2>1, <2>2 DEF WpiInv, WpiStates
  <2>5. wpi' = WpiMoved(x, from, to, a) /\ 0 <= a /\ a <= wpi.balance[from]
    BY <1>3, <2>4 DEF TransferWpiFrom, CanMoveWpi
  <2> QED
    BY <1>1, <2>3, <2>5, WpiMovedKeeps
<1> QED
  BY <1>2, <1>3

\* mint, and burn of what is there.
LEMMA WpiIssues ==
  ASSUME WpiInv, NEW admin_ \in WpiAdmins, NEW h \in WpiHolders, NEW a \in WpiAmounts
  PROVE  (MintWpi(admin_, h, a) => WpiInv') /\ (BurnWpi(admin_, h, a) => WpiInv')
<1>1. /\ IsFiniteSet(WpiHolders) /\ a \in Int /\ wpi.supply \in Int /\ wpi.selfSent \in Int
      /\ wpi.balance \in [WpiHolders -> Int] /\ wpi.balance[h] \in Nat
      /\ Total(wpi.balance) = wpi.supply + wpi.selfSent
  BY WpiFields
<1>2. ASSUME NEW v \in Nat, NEW s \in Int, s - wpi.supply = v - wpi.balance[h],
             wpi' = [wpi EXCEPT !.balance = [wpi.balance EXCEPT ![h] = v], !.supply = s]
      PROVE  WpiInv'
  <2>1. PICK b \in [WpiHolders -> Nat] : b = [wpi.balance EXCEPT ![h] = v]
    BY DEF WpiInv, WpiStates
  <2>2. /\ b \in [WpiHolders -> Int] /\ b[h] = v
        /\ \A y \in WpiHolders \ {h} : b[y] = wpi.balance[y]
    BY <1>1, <2>1
  <2>3. Total(b) = Total(wpi.balance) + b[h] - wpi.balance[h]
    BY <1>1, <2>2, TotalChange
  <2>4. Total(b) = s + wpi.selfSent
    BY <1>1, <1>2, <2>2, <2>3
  <2>5. /\ wpi' \in WpiStates /\ wpi'.balance = b /\ wpi'.supply = s
        /\ wpi'.selfSent = wpi.selfSent
    BY <1>2, <2>1 DEF WpiInv, WpiStates
  <2> QED
    BY <2>4, <2>5, WpiWritten
<1>3. ASSUME MintWpi(admin_, h, a) PROVE WpiInv'
  <2>1. wpi' = [wpi EXCEPT !.balance = [wpi.balance EXCEPT ![h] = wpi.balance[h] + a],
                         !.supply = wpi.supply + a]
    BY <1>1, <1>3 DEF MintWpi, WpiInv, WpiStates
  <2>2. a > 0
    BY <1>3 DEF MintWpi
  <2>3. wpi.balance[h] + a \in Nat /\ wpi.supply + a \in Int
        /\ (wpi.supply + a) - wpi.supply = (wpi.balance[h] + a) - wpi.balance[h]
    BY <1>1, <2>2
  <2> QED
    BY <1>2, <2>1, <2>3
<1>4. ASSUME BurnWpi(admin_, h, a) PROVE WpiInv'
  <2>1. wpi' = [wpi EXCEPT !.balance = [wpi.balance EXCEPT ![h] = wpi.balance[h] - a],
                         !.supply = wpi.supply - a]
    BY <1>1, <1>4 DEF BurnWpi, WpiInv, WpiStates
  <2>2. wpi.balance[h] >= a
    BY <1>4 DEF BurnWpi
  <2>3. wpi.balance[h] - a \in Nat /\ wpi.supply - a \in Int
        /\ (wpi.supply - a) - wpi.supply = (wpi.balance[h] - a) - wpi.balance[h]
    BY <1>1, <2>2
  <2> QED
    BY <1>2, <2>1, <2>3
<1> QED
  BY <1>3, <1>4

LEMMA WpiStays ==
  ASSUME WpiInv, wpi' \in WpiStates, wpi'.balance = wpi.balance, wpi'.supply = wpi.supply,
         wpi'.selfSent = wpi.selfSent
  PROVE  WpiInv'
  BY WpiWritten, WpiFields

LEMMA WpiInitInv == WpiInit => WpiInv
<1> SUFFICES ASSUME WpiInit PROVE WpiInv
  OBVIOUS
<1> DEFINE b == [h \in WpiHolders |-> 0]
<1>1. IsFiniteSet(WpiHolders) /\ b \in [WpiHolders -> Int] /\ \A h \in WpiHolders : b[h] = 0
  BY WpiAssumption
<1>2. Total(b) = 0
  <2> HIDE DEF b
  <2> QED
    BY <1>1, TotalType
<1>3. wpi \in WpiStates
  BY WpiAssumption DEF WpiInit, WpiStates
<1> QED
  BY <1>2, <1>3 DEF WpiInit, WpiInv, WpiSupply

LEMMA WpiStep == ASSUME WpiInv, WpiNext PROVE WpiInv'
<1>1. ASSUME NEW from \in WpiHolders, NEW to \in WpiHolders, NEW a \in WpiAmounts,
             ApproveWpi(from, to, a)
      PROVE  WpiInv'
  <2>1. a \in Int
    BY WpiFields
  <2>2. /\ wpi' \in WpiStates /\ wpi'.balance = wpi.balance /\ wpi'.supply = wpi.supply
        /\ wpi'.selfSent = wpi.selfSent
    BY <1>1, <2>1 DEF ApproveWpi, WpiInv, WpiStates
  <2> QED
    BY <2>2, WpiStays
<1>2. ASSUME NEW by \in WpiAdmins, NEW p \in BOOLEAN, PauseWpi(by, p) PROVE WpiInv'
  <2>1. /\ wpi' \in WpiStates /\ wpi'.balance = wpi.balance /\ wpi'.supply = wpi.supply
        /\ wpi'.selfSent = wpi.selfSent
    BY <1>2 DEF PauseWpi, WpiInv, WpiStates
  <2> QED
    BY <2>1, WpiStays
<1>3. ASSUME NEW by \in WpiAdmins, NEW new \in WpiAdmins, SetWpiAdmin(by, new) PROVE WpiInv'
  <2>1. /\ wpi' \in WpiStates /\ wpi'.balance = wpi.balance /\ wpi'.supply = wpi.supply
        /\ wpi'.selfSent = wpi.selfSent
    BY <1>3 DEF SetWpiAdmin, WpiInv, WpiStates
  <2> QED
    BY <2>1, WpiStays
<1> QED
  BY <1>1, <1>2, <1>3, WpiTransfers, WpiIssues DEF WpiNext

\* Whatever is minted, burned and sent, the balances add up to the supply and what
\* holders sent to themselves: no other call creates or loses tokens.
THEOREM WpiSupplyIsHeld == WpiSpec => []WpiSupply
<1>1. HostInit /\ WpiInit => WpiInv
  BY WpiInitInv
<1>2. WpiInv /\ [WpiNext]_<<now, wpi>> => WpiInv'
  BY WpiStep DEF WpiInv, WpiSupply
<1>3. WpiInv => WpiSupply
  BY DEF WpiInv
<1> QED
  BY <1>1, <1>2, <1>3, PTL DEF WpiSpec

-----------------------------------------------------------------------------
(* The LP token.                                                               *)

LpStates ==
  [paused : BOOLEAN, supply : Int, balance : [LpHolders -> Nat],
   allowance : [LpHolders -> [LpHolders -> Int]]]

LpInv == lp \in LpStates /\ LpSupply

LEMMA LpFields ==
  ASSUME LpInv
  PROVE  /\ IsFiniteSet(LpHolders) /\ LpAmounts \subseteq Int
         /\ lp.balance \in [LpHolders -> Int] /\ lp.supply \in Int
         /\ \A h \in LpHolders : lp.balance[h] \in Nat
         /\ Total(lp.balance) = lp.supply
  BY LpAssumption DEF LpInv, LpStates, LpSupply

\* The balance and the supply may be written when they still agree.
LEMMA LpWritten ==
  ASSUME LpInv, NEW b \in [LpHolders -> Nat], NEW s \in Int, Total(b) = s,
         lp'.balance = b, lp'.supply = s, lp' \in LpStates
  PROVE  LpInv'
  BY DEF LpInv, LpSupply

\* A transfer of a balance that is there moves it.
LEMMA LpMovedKeeps ==
  ASSUME LpInv, NEW from \in LpHolders, NEW to \in LpHolders, NEW amount \in Int,
         amount > 0, lp.balance[from] >= amount
  PROVE  /\ LpMoved(lp.balance, from, to, amount) \in [LpHolders -> Nat]
         /\ Total(LpMoved(lp.balance, from, to, amount)) = lp.supply
<1>1. /\ IsFiniteSet(LpHolders) /\ lp.balance \in [LpHolders -> Int]
      /\ \A h \in LpHolders : lp.balance[h] \in Nat
      /\ Total(lp.balance) = lp.supply
  BY LpFields
<1>2. PICK b \in [LpHolders -> Int] : b = lp.balance
  BY <1>1
<1>3. PICK less \in Nat : less = b[from] - amount
  BY <1>1, <1>2
<1>4. PICK c \in [LpHolders -> Nat] : c = [b EXCEPT ![from] = less]
  BY <1>1, <1>2, <1>3
<1>5. Total(c) = Total(b) + less - b[from]
  <2>1. c \in [LpHolders -> Int] /\ c[from] = less /\ \A h \in LpHolders \ {from} : c[h] = b[h]
    BY <1>4
  <2>2. Total(c) = Total(b) + c[from] - b[from]
    BY <1>1, <2>1, TotalChange
  <2> QED
    BY <2>1, <2>2
<1>6. PICK more \in Nat : more = c[to] + amount
  BY <1>4
<1>7. PICK d \in [LpHolders -> Nat] : d = [c EXCEPT ![to] = more]
  BY <1>4, <1>6
<1>8. Total(d) = Total(c) + more - c[to]
  <2>1. /\ c \in [LpHolders -> Int] /\ d \in [LpHolders -> Int]
        /\ d[to] = more /\ \A h \in LpHolders \ {to} : d[h] = c[h]
    BY <1>7
  <2>2. Total(d) = Total(c) + d[to] - c[to]
    BY <1>1, <2>1, TotalChange
  <2> QED
    BY <2>1, <2>2
<1>9. LpMoved(lp.balance, from, to, amount) = d
  BY <1>2, <1>3, <1>4, <1>6, <1>7 DEF LpMoved
<1>10. Total(b) \in Int /\ c[to] \in Int /\ b[from] \in Int
  BY <1>1, TotalType
<1>11. Total(d) = Total(b)
  BY <1>3, <1>5, <1>6, <1>8, <1>10
<1> QED
  BY <1>1, <1>2, <1>9, <1>11

LEMMA LpTransfers ==
  ASSUME LpInv, NEW from \in LpHolders, NEW to \in LpHolders, NEW a \in LpAmounts
  PROVE  /\ TransferLp(from, to, a) => LpInv'
         /\ \A s \in LpHolders : TransferLpFrom(s, from, to, a) => LpInv'
<1>1. a \in Int /\ lp.supply \in Int
  BY LpFields
<1>2. ASSUME CanMoveLp(from, a)
      PROVE  /\ LpMoved(lp.balance, from, to, a) \in [LpHolders -> Nat]
             /\ Total(LpMoved(lp.balance, from, to, a)) = lp.supply
  BY <1>1, <1>2, LpMovedKeeps DEF CanMoveLp
<1>3. ASSUME TransferLp(from, to, a) PROVE LpInv'
  <2>1. PICK b \in [LpHolders -> Nat] :
          b = LpMoved(lp.balance, from, to, a) /\ Total(b) = lp.supply
    BY <1>2, <1>3 DEF TransferLp
  <2>2. lp' = [lp EXCEPT !.balance = b]
    BY <1>3, <2>1 DEF TransferLp
  <2>3. lp' \in LpStates /\ lp'.balance = b /\ lp'.supply = lp.supply
    BY <2>2 DEF LpInv, LpStates
  <2> QED
    BY <1>1, <2>1, <2>3, LpWritten
<1>4. ASSUME NEW s \in LpHolders, TransferLpFrom(s, from, to, a) PROVE LpInv'
  <2>1. PICK b \in [LpHolders -> Nat] :
          b = LpMoved(lp.balance, from, to, a) /\ Total(b) = lp.supply
    BY <1>2, <1>4 DEF TransferLpFrom
  <2>2. PICK given \in [LpHolders -> [LpHolders -> Int]] :
          given = [lp.allowance EXCEPT ![from][s] = @ - a]
    <3>1. PICK old \in [LpHolders -> [LpHolders -> Int]] : old = lp.allowance
      BY DEF LpInv, LpStates
    <3>2. old[from] \in [LpHolders -> Int] /\ old[from][s] - a \in Int
      BY <1>1
    <3>3. [old EXCEPT ![from][s] = @ - a] \in [LpHolders -> [LpHolders -> Int]]
      BY <3>2
    <3> QED
      BY <3>1, <3>3
  <2>3. lp' = [lp EXCEPT !.allowance = given, !.balance = b]
    BY <1>4, <2>1, <2>2 DEF TransferLpFrom, LpInv, LpStates
  <2>4. lp' \in LpStates /\ lp'.balance = b /\ lp'.supply = lp.supply
    BY <2>3 DEF LpInv, LpStates
  <2> QED
    BY <1>1, <2>1, <2>4, LpWritten
<1> QED
  BY <1>3, <1>4

\* mint, and burn of what is there.
LEMMA LpIssues ==
  ASSUME LpInv, NEW h \in LpHolders, NEW a \in LpAmounts
  PROVE  (MintLp(h, a) => LpInv') /\ (BurnLp(h, a) => LpInv')
<1>1. /\ IsFiniteSet(LpHolders) /\ a \in Int /\ lp.supply \in Int
      /\ lp.balance \in [LpHolders -> Int] /\ lp.balance[h] \in Nat
      /\ Total(lp.balance) = lp.supply
  BY LpFields
<1>2. ASSUME NEW v \in Nat, NEW s \in Int, s - lp.supply = v - lp.balance[h],
             lp' = [lp EXCEPT !.balance = [lp.balance EXCEPT ![h] = v], !.supply = s]
      PROVE  LpInv'
  <2>1. PICK b : b = [lp.balance EXCEPT ![h] = v]
    OBVIOUS
  <2>2. b \in [LpHolders -> Nat]
    BY <2>1 DEF LpInv, LpStates
  <2>3. Total(b) = Total(lp.balance) + v - lp.balance[h]
    BY <1>1, <2>1, TotalChange
  <2>4. Total(b) = s
    BY <1>1, <1>2, <2>3
  <2>5. lp' \in LpStates /\ lp'.balance = b /\ lp'.supply = s
    BY <1>2, <2>1, <2>2 DEF LpInv, LpStates
  <2> QED
    BY <2>2, <2>4, <2>5, LpWritten
<1>3. ASSUME MintLp(h, a) PROVE LpInv'
  <2>1. lp' = [lp EXCEPT !.balance = [lp.balance EXCEPT ![h] = lp.balance[h] + a],
                         !.supply = lp.supply + a]
    BY <1>1, <1>3 DEF MintLp, LpInv, LpStates
  <2>2. a > 0
    BY <1>3 DEF MintLp
  <2>3. lp.balance[h] + a \in Nat /\ lp.supply + a \in Int
        /\ (lp.supply + a) - lp.supply = (lp.balance[h] + a) - lp.balance[h]
    BY <1>1, <2>2
  <2> QED
    BY <1>2, <2>1, <2>3
<1>4. ASSUME BurnLp(h, a) PROVE LpInv'
  <2>1. lp' = [lp EXCEPT !.balance = [lp.balance EXCEPT ![h] = lp.balance[h] - a],
                         !.supply = lp.supply - a]
    BY <1>1, <1>4 DEF BurnLp, LpInv, LpStates
  <2>2. lp.balance[h] >= a
    BY <1>4 DEF BurnLp
  <2>3. lp.balance[h] - a \in Nat /\ lp.supply - a \in Int
        /\ (lp.supply - a) - lp.supply = (lp.balance[h] - a) - lp.balance[h]
    BY <1>1, <2>2
  <2> QED
    BY <1>2, <2>1, <2>3
<1> QED
  BY <1>3, <1>4

LEMMA LpStays ==
  ASSUME LpInv, lp' \in LpStates, lp'.balance = lp.balance, lp'.supply = lp.supply
  PROVE  LpInv'
  BY DEF LpInv, LpSupply

LEMMA LpInitInv == LpInit => LpInv
<1> SUFFICES ASSUME LpInit PROVE LpInv
  OBVIOUS
<1> DEFINE b == [h \in LpHolders |-> 0]
<1>1. IsFiniteSet(LpHolders) /\ b \in [LpHolders -> Int] /\ \A h \in LpHolders : b[h] = 0
  BY LpAssumption
<1>2. Total(b) = 0
  <2> HIDE DEF b
  <2> QED
    BY <1>1, TotalType
<1> QED
  BY <1>2 DEF LpInit, LpInv, LpStates, LpSupply

LEMMA LpStep == ASSUME LpInv, LpNext PROVE LpInv'
<1>1. ASSUME NEW from \in LpHolders, NEW to \in LpHolders, NEW a \in LpAmounts,
             ApproveLp(from, to, a)
      PROVE  LpInv'
  <2>1. a \in Int
    BY LpFields
  <2>2. lp' \in LpStates /\ lp'.balance = lp.balance /\ lp'.supply = lp.supply
    BY <1>1, <2>1 DEF ApproveLp, LpInv, LpStates
  <2> QED
    BY <2>2, LpStays
<1>2. ASSUME NEW p \in BOOLEAN, PauseLp(p) PROVE LpInv'
  <2>1. lp' \in LpStates /\ lp'.balance = lp.balance /\ lp'.supply = lp.supply
    BY <1>2 DEF PauseLp, LpInv, LpStates
  <2> QED
    BY <2>1, LpStays
<1> QED
  BY <1>1, <1>2, LpTransfers, LpIssues DEF LpNext

\* Whatever is minted, burned and sent, also by a holder to itself, the balances
\* add up to the supply.
THEOREM LpSupplyIsHeld == LpSpec => []LpSupply
<1>1. HostInit /\ LpInit => LpInv
  BY LpInitInv
<1>2. LpInv /\ [LpNext]_<<now, lp>> => LpInv'
  BY LpStep DEF LpInv, LpSupply
<1>3. LpInv => LpSupply
  BY DEF LpInv
<1> QED
  BY <1>1, <1>2, <1>3, PTL DEF LpSpec

-----------------------------------------------------------------------------
(* The fee router.                                                             *)

\* Four shares make a whole.
LEMMA FourRoles ==
  ASSUME NEW f \in [Roles -> Int]
  PROVE  Total(f) = f["lp"] + f["protocol"] + f["backstop"] + f["platform"]
<1>1. DOMAIN f = Roles /\ \A r \in Roles : f[r] \in Int
  OBVIOUS
<1> DEFINE R1 == {"platform"}
           R2 == {"backstop", "platform"}
           R3 == {"protocol", "backstop", "platform"}
<1>2. IsFiniteSet({}) /\ IsFiniteSet(R1)
  BY FS_EmptySet, FS_Singleton
<1>3. R2 = R1 \cup {"backstop"} /\ R3 = R2 \cup {"protocol"} /\ Roles = R3 \cup {"lp"}
      /\ R1 = {} \cup {"platform"}
  BY DEF Roles
<1>4. IsFiniteSet(R2) /\ IsFiniteSet(R3)
  <2>1. IsFiniteSet(R2)
    BY <1>2, <1>3, FS_AddElement
  <2> QED
    BY <1>3, <2>1, FS_AddElement
<1>5. /\ f["lp"] \in Int /\ f["protocol"] \in Int /\ f["backstop"] \in Int
      /\ f["platform"] \in Int
  BY <1>1 DEF Roles
<1>6. SumOver(f, {}) = 0
  BY SumEmpty
<1>7. SumOver(f, R1) = f["platform"] + SumOver(f, {})
  <2>1. "platform" \notin {} /\ \A x \in {} \cup {"platform"} : f[x] \in Int
    BY <1>5
  <2>2. SumOver(f, {} \cup {"platform"}) = f["platform"] + SumOver(f, {})
    BY ONLY <1>2, <2>1, SumAdd
  <2> QED
    BY <1>3, <2>2
<1>8. SumOver(f, R2) = f["backstop"] + SumOver(f, R1)
  <2>1. "backstop" \notin R1 /\ \A x \in R1 \cup {"backstop"} : f[x] \in Int
    BY <1>5
  <2> HIDE DEF R1, R2
  <2>2. SumOver(f, R1 \cup {"backstop"}) = f["backstop"] + SumOver(f, R1)
    BY ONLY <1>2, <2>1, SumAdd
  <2> QED
    BY <1>3, <2>2
<1>9. SumOver(f, R3) = f["protocol"] + SumOver(f, R2)
  <2>1. "protocol" \notin R2 /\ \A x \in R2 \cup {"protocol"} : f[x] \in Int
    BY <1>5
  <2> HIDE DEF R2, R3
  <2>2. SumOver(f, R2 \cup {"protocol"}) = f["protocol"] + SumOver(f, R2)
    BY ONLY <1>4, <2>1, SumAdd
  <2> QED
    BY <1>3, <2>2
<1>10. SumOver(f, Roles) = f["lp"] + SumOver(f, R3)
  <2>1. "lp" \notin R3 /\ \A x \in R3 \cup {"lp"} : f[x] \in Int
    BY <1>5
  <2> HIDE DEF R3
  <2>2. SumOver(f, R3 \cup {"lp"}) = f["lp"] + SumOver(f, R3)
    BY ONLY <1>4, <2>1, SumAdd
  <2> QED
    BY <1>3, <2>2
<1> HIDE DEF R1, R2, R3
<1> QED
  BY <1>1, <1>5, <1>6, <1>7, <1>8, <1>9, <1>10 DEF Total

FeesStates ==
  [admin : FeeAdmins, config : [FeeTypes -> [Roles -> Nat]], source : Int,
   paid : [Roles -> Int]]

\* The configurations that were set add up to the whole, and nothing that was
\* collected is lost.
RouterInv ==
  /\ fees \in FeesStates
  /\ \A t \in FeeTypes : fees.config[t] # NoShares => AddsUp(fees.config[t])
  /\ fees.source + Total(fees.paid) = Collected

\* The parts of a fee.
LEMMA SplitIs ==
  ASSUME NEW c \in [Roles -> Nat], AddsUp(c), NEW fee \in Nat
  PROVE  /\ Split(c, fee) \in [Roles -> Int] /\ Total(Split(c, fee)) = fee
         /\ \A r \in Roles :
              LET excess == Split(c, fee)[r] * FeeWhole - fee * c[r]
              IN IF r = "platform" THEN excess \in 0 .. 3 * FeeWhole - 1
                 ELSE excess \in -(FeeWhole - 1) .. 0
<1>1. FeeWhole \in Nat \ {0}
  BY FeeAssumption
<1>2. PICK l \in Nat, p \in Nat, b \in Nat, f \in Nat :
        l = c["lp"] /\ p = c["protocol"] /\ b = c["backstop"] /\ f = c["platform"]
  BY DEF Roles
<1>3. l + p + b + f = FeeWhole
  <2>1. c \in [Roles -> Int]
    OBVIOUS
  <2>2. Total(c) = c["lp"] + c["protocol"] + c["backstop"] + c["platform"]
    BY <2>1, FourRoles
  <2> QED
    BY <1>2, <2>2 DEF AddsUp
<1>4. PICK x \in Int, y \in Int, z \in Int :
        /\ x = (fee * l) \div FeeWhole
        /\ y = (fee * p) \div FeeWhole
        /\ z = (fee * b) \div FeeWhole
  BY <1>1, <1>2
<1>5. /\ x * FeeWhole <= fee * l /\ fee * l < x * FeeWhole + FeeWhole
      /\ y * FeeWhole <= fee * p /\ fee * p < y * FeeWhole + FeeWhole
      /\ z * FeeWhole <= fee * b /\ fee * b < z * FeeWhole + FeeWhole
  <2>1. fee * l \in Int /\ fee * p \in Int /\ fee * b \in Int
    BY <1>2
  <2> QED
    BY <1>1, <1>4, <2>1, DivIs
<1>6. PICK s : s = Split(c, fee)
  OBVIOUS
<1>7. /\ s \in [Roles -> Int] /\ s["lp"] = x /\ s["protocol"] = y /\ s["backstop"] = z
      /\ s["platform"] = fee - x - y - z
  BY <1>1, <1>2, <1>4, <1>6 DEF Split, Roles
<1>8. Total(s) = fee
  <2>1. Total(s) = s["lp"] + s["protocol"] + s["backstop"] + s["platform"]
    BY <1>7, FourRoles
  <2> QED
    BY <1>7, <2>1
<1>9. ASSUME NEW r \in Roles
      PROVE  LET excess == s[r] * FeeWhole - fee * c[r]
             IN IF r = "platform" THEN excess \in 0 .. 3 * FeeWhole - 1
                ELSE excess \in -(FeeWhole - 1) .. 0
  <2>1. PICK lf, pf, bf, ff, xw, yw, zw :
          /\ lf = fee * l /\ pf = fee * p /\ bf = fee * b /\ ff = fee * f
          /\ xw = x * FeeWhole /\ yw = y * FeeWhole /\ zw = z * FeeWhole
    OBVIOUS
  <2>8. /\ lf \in Int /\ pf \in Int /\ bf \in Int /\ ff \in Int
        /\ xw \in Int /\ yw \in Int /\ zw \in Int
    BY <1>1, <1>2, <1>4, <2>1
  <2>2. /\ xw <= lf /\ lf < xw + FeeWhole /\ yw <= pf /\ pf < yw + FeeWhole
        /\ zw <= bf /\ bf < zw + FeeWhole
    BY <1>5, <2>1
  <2>3. fee * FeeWhole = lf + pf + bf + ff
    BY <1>2, <1>3, <2>1
  <2>4. CASE r = "lp"
    BY <1>1, <1>2, <1>7, <2>1, <2>2, <2>4, <2>8
  <2>5. CASE r = "protocol"
    BY <1>1, <1>2, <1>7, <2>1, <2>2, <2>5, <2>8
  <2>6. CASE r = "backstop"
    BY <1>1, <1>2, <1>7, <2>1, <2>2, <2>6, <2>8
  <2>7. CASE r = "platform"
    <3>1. (fee - x - y - z) * FeeWhole = fee * FeeWhole - xw - yw - zw
      BY <1>1, <1>4, <2>1, <2>8
    <3>2. PICK e \in Int : e = fee * FeeWhole - xw - yw - zw - ff
      BY <1>1, <2>8
    <3>3. 0 <= e /\ e <= 3 * FeeWhole - 1
      BY <1>1, <2>2, <2>3, <2>8, <3>2
    <3>4. s[r] * FeeWhole - fee * c[r] = e
      BY <1>2, <1>7, <2>1, <2>7, <2>8, <3>1, <3>2
    <3> QED
      BY <1>1, <2>7, <3>3, <3>4
  <2> QED
    BY <2>4, <2>5, <2>6, <2>7 DEF Roles
<1> QED
  BY <1>6, <1>7, <1>8, <1>9

\* The invariant says what the property does.
LEMMA RouterSplits == RouterInv => FeesSplitExactly
<1> SUFFICES ASSUME RouterInv PROVE FeesSplitExactly
  OBVIOUS
<1>1. ASSUME NEW t \in FeeTypes, NEW fee \in Fees, fees.config[t] # NoShares, fee >= 0
      PROVE  LET parts == Split(fees.config[t], fee)
             IN /\ Total(parts) = fee
                /\ \A r \in Roles :
                     LET excess == parts[r] * FeeWhole - fee * fees.config[t][r]
                     IN IF r = "platform" THEN excess \in 0 .. 3 * FeeWhole - 1
                        ELSE excess \in -(FeeWhole - 1) .. 0
  <2>1. fee \in Nat /\ fees.config[t] \in [Roles -> Nat] /\ AddsUp(fees.config[t])
    BY <1>1, FeeAssumption DEF RouterInv, FeesStates
  <2> QED
    BY <2>1, SplitIs
<1> QED
  BY <1>1 DEF RouterInv, FeesSplitExactly

LEMMA RouterInitInv == FeesInit => RouterInv
<1> SUFFICES ASSUME FeesInit PROVE RouterInv
  OBVIOUS
<1>1. NoShares \in [Roles -> Int] /\ NoShares \in [Roles -> Nat] /\ \A r \in Roles : NoShares[r] = 0
  BY DEF NoShares
<1>2. Total(NoShares) = 0
  <2>1. Total(NoShares) = NoShares["lp"] + NoShares["protocol"] + NoShares["backstop"]
                            + NoShares["platform"]
    BY <1>1, FourRoles
  <2> QED
    BY <1>1, <2>1 DEF Roles
<1> QED
  BY <1>1, <1>2, FeeAssumption DEF FeesInit, RouterInv, FeesStates

LEMMA RouterRoutes ==
  ASSUME RouterInv, NEW t \in FeeTypes, NEW fee \in Fees, RouteFees(t, fee)
  PROVE  RouterInv'
<1>1. PICK parts : parts = Split(fees.config[t], fee)
  OBVIOUS
<1>2. PICK moved : moved = [r \in Roles |-> IF parts[r] > 0 THEN parts[r] ELSE 0]
  OBVIOUS
<1>3. /\ Total(moved) = fee /\ fee >= 0 /\ fee \in Nat
      /\ fees' = [fees EXCEPT !.source = @ - fee,
                    !.paid = [r \in Roles |-> @[r] + moved[r]]]
      /\ fees.config[t] # NoShares
  BY <1>1, <1>2, FeeAssumption DEF RouteFees, CanPay
<1>4. fees \in FeesStates /\ AddsUp(fees.config[t]) /\ fees.config[t] \in [Roles -> Nat]
  BY <1>3 DEF RouterInv, FeesStates
<1>5. parts \in [Roles -> Int]
  BY <1>1, <1>3, <1>4, SplitIs
<1>6. moved \in [Roles -> Int]
  BY <1>2, <1>5
<1>7. PICK old \in [Roles -> Int], source \in Int : old = fees.paid /\ source = fees.source
  BY <1>4 DEF FeesStates
<1>8. PICK after \in [Roles -> Int] : after = [r \in Roles |-> old[r] + moved[r]]
  <2>1. \A r \in Roles : old[r] + moved[r] \in Int
    BY <1>6
  <2> QED
    BY <2>1
<1>9. fees' = [fees EXCEPT !.source = source - fee, !.paid = after]
  BY <1>3, <1>4, <1>7, <1>8 DEF FeesStates
<1>10. /\ fees' \in FeesStates /\ fees'.source = source - fee /\ fees'.paid = after
       /\ fees'.config = fees.config
  <2>1. PICK left \in Int : left = source - fee
    BY <1>3
  <2>2. fees' = [fees EXCEPT !.source = left, !.paid = after]
    BY <1>9, <2>1
  <2> QED
    BY <1>4, <2>1, <2>2 DEF FeesStates
<1>11. Total(after) = Total(old) + fee
  <2>1. /\ Total(after) = after["lp"] + after["protocol"] + after["backstop"] + after["platform"]
        /\ Total(old) = old["lp"] + old["protocol"] + old["backstop"] + old["platform"]
        /\ Total(moved) = moved["lp"] + moved["protocol"] + moved["backstop"] + moved["platform"]
    BY <1>6, FourRoles
  <2>2. \A r \in Roles : after[r] = old[r] + moved[r] /\ old[r] \in Int /\ moved[r] \in Int
    BY <1>6, <1>8
  <2>3. PICK ol \in Int, op \in Int, ob \in Int, of4 \in Int, ml \in Int, mp \in Int, mb \in Int, mf \in Int :
          /\ ol = old["lp"] /\ op = old["protocol"] /\ ob = old["backstop"] /\ of4 = old["platform"]
          /\ ml = moved["lp"] /\ mp = moved["protocol"] /\ mb = moved["backstop"]
          /\ mf = moved["platform"]
    BY <2>2 DEF Roles
  <2> QED
    BY <1>3, <2>1, <2>2, <2>3 DEF Roles
<1>12. source + Total(old) = Collected
  BY <1>7 DEF RouterInv
<1>13. Total(old) \in Int
  <2>1. Total(old) = old["lp"] + old["protocol"] + old["backstop"] + old["platform"]
    BY FourRoles
  <2> QED
    BY <2>1 DEF Roles
<1>14. (source - fee) + Total(after) = Collected
  BY <1>3, <1>11, <1>12, <1>13
<1> QED
  BY <1>10, <1>14 DEF RouterInv, AddsUp

LEMMA RouterStep == ASSUME RouterInv, FeesNext PROVE RouterInv'
<1>1. ASSUME NEW t \in FeeTypes, NEW c \in FeeConfigs, SetFeeConfig(t, c) PROVE RouterInv'
  <2>1. c \in [Roles -> Nat] /\ AddsUp(c) /\ fees \in FeesStates
    BY <1>1, FeeAssumption DEF SetFeeConfig, RouterInv
  <2>2. PICK set \in [FeeTypes -> [Roles -> Nat]] : set = [fees.config EXCEPT ![t] = c]
    BY <2>1 DEF FeesStates
  <2>3. fees' = [fees EXCEPT !.config = set]
    BY <1>1, <2>1, <2>2 DEF SetFeeConfig, FeesStates
  <2>4. /\ fees' \in FeesStates /\ fees'.config = set /\ fees'.paid = fees.paid
        /\ fees'.source = fees.source
    BY <2>1, <2>3 DEF FeesStates
  <2>5. \A u \in FeeTypes : set[u] = c \/ set[u] = fees.config[u]
    BY <2>1, <2>2 DEF FeesStates
  <2> QED
    BY <2>1, <2>4, <2>5 DEF RouterInv, AddsUp
<1>2. ASSUME NEW a \in FeeAdmins, SetFeeAdmin(a) PROVE RouterInv'
  BY <1>2 DEF SetFeeAdmin, RouterInv, FeesStates, AddsUp
<1> QED
  BY <1>1, <1>2, RouterRoutes DEF FeesNext

\* However the shares are set, every fee is split without rest, and what the
\* destinations got and the payer still has is what was collected.
THEOREM FeesAlwaysSplitExactly == FeesSpec => []FeesSplitExactly
<1>1. HostInit /\ FeesInit => RouterInv
  BY RouterInitInv
<1>2. RouterInv /\ [FeesNext]_<<now, fees>> => RouterInv'
  BY RouterStep DEF RouterInv, AddsUp
<1> QED
  BY <1>1, <1>2, RouterSplits, PTL DEF FeesSpec

-----------------------------------------------------------------------------
(* The pool factory.                                                           *)

PoolEntries ==
  [pair : Pairs, address : PoolAddresses, creator : PoolUsers, active : BOOLEAN]

\* The index and the catalog are inverse to each other.
FactoryInv ==
  /\ factory.pools \in Seq(PoolEntries)
  /\ DOMAIN factory = {"pools", "index", "deployed"}
  /\ factory.index \in [Pairs -> Nat]
  /\ \A p \in Pairs : factory.index[p] # 0 =>
       factory.index[p] \in DOMAIN factory.pools /\ factory.pools[factory.index[p]].pair = p
  /\ \A id \in DOMAIN factory.pools : factory.index[factory.pools[id].pair] = id

\* A pool for a pair without one is added to both.
LEMMA FactoryCataloged ==
  ASSUME FactoryInv, NEW p \in Pairs, NEW address \in PoolAddresses, NEW u \in PoolUsers,
         factory.index[p] = 0,
         DOMAIN factory' = {"pools", "index", "deployed"},
         factory'.pools = Append(factory.pools,
           [pair |-> p, address |-> address, creator |-> u, active |-> TRUE]),
         factory'.index = [factory.index EXCEPT ![p] = Len(factory.pools) + 1]
  PROVE  FactoryInv'
<1>1. PICK old \in Seq(PoolEntries) : old = factory.pools
  BY DEF FactoryInv
<1>2. PICK new \in PoolEntries :
        new = [pair |-> p, address |-> address, creator |-> u, active |-> TRUE]
  BY DEF PoolEntries
<1>3. PICK list \in Seq(PoolEntries) : list = Append(old, new)
  BY SMTT(30), <1>1, <1>2
<1>4. PICK n \in Nat : n = Len(old)
  BY <1>1
<1>5. /\ DOMAIN old = 1 .. n /\ DOMAIN list = 1 .. n + 1 /\ list[n + 1] = new
      /\ \A i \in 1 .. n : list[i] = old[i]
  BY <1>1, <1>2, <1>3, <1>4
<1>6. new.pair = p /\ factory'.pools = list
  BY <1>1, <1>2, <1>3
<1>7. PICK index \in [Pairs -> Nat] : index = factory.index
  BY DEF FactoryInv
<1>8. PICK next \in Nat : next = n + 1
  BY <1>4
<1>9. PICK found \in [Pairs -> Nat] : found = [index EXCEPT ![p] = next]
  BY <1>7, <1>8
<1>10. factory'.index = found /\ found[p] = next /\ \A q \in Pairs \ {p} : found[q] = index[q]
  BY <1>1, <1>4, <1>7, <1>8, <1>9
<1>11. /\ \A q \in Pairs : index[q] # 0 => index[q] \in 1 .. n /\ old[index[q]].pair = q
       /\ \A i \in 1 .. n : index[old[i].pair] = i
       /\ \A i \in 1 .. n : old[i].pair \in Pairs
  <2>1. \A i \in 1 .. n : old[i] \in PoolEntries
    BY <1>1, <1>5
  <2>2. \A e \in PoolEntries : e.pair \in Pairs
    BY DEF PoolEntries
  <2>3. \A q \in Pairs : index[q] # 0 => index[q] \in 1 .. n /\ old[index[q]].pair = q
    BY <1>1, <1>5, <1>7 DEF FactoryInv
  <2>4. \A i \in 1 .. n : index[old[i].pair] = i
    BY <1>1, <1>5, <1>7 DEF FactoryInv
  <2> QED
    BY <2>1, <2>2, <2>3, <2>4
<1>12. \A q \in Pairs : found[q] # 0 => found[q] \in 1 .. n + 1 /\ list[found[q]].pair = q
  <2>1. found[p] \in 1 .. n + 1 /\ list[found[p]].pair = p
    BY <1>4, <1>5, <1>6, <1>8, <1>10
  <2>2. ASSUME NEW q \in Pairs \ {p}, found[q] # 0
        PROVE  found[q] \in 1 .. n + 1 /\ list[found[q]].pair = q
    <3>1. PICK i \in 1 .. n : i = index[q] /\ found[q] = i
      BY <1>10, <1>11, <2>2
    <3> QED
      BY <1>4, <1>5, <1>11, <3>1
  <2> QED
    BY <2>1, <2>2
<1>13. \A i \in 1 .. n + 1 : found[list[i].pair] = i
  <2>1. ASSUME NEW i \in 1 .. n PROVE found[list[i].pair] = i
    <3>1. old[i].pair \in Pairs /\ index[old[i].pair] = i /\ i # 0
      BY <1>4, <1>11
    <3>2. old[i].pair # p
      BY <1>7, <3>1
    <3> QED
      BY <1>5, <1>10, <3>1, <3>2
  <2>2. found[list[n + 1].pair] = n + 1
    BY <1>5, <1>6, <1>8, <1>10
  <2>3. \A i \in 1 .. n + 1 : i \in 1 .. n \/ i = n + 1
    BY <1>4
  <2> QED
    BY <2>1, <2>2, <2>3
<1> QED
  BY <1>5, <1>6, <1>10, <1>12, <1>13 DEF FactoryInv

\* Whether a pool is active is all that removal and reactivation change.
LEMMA FactorySwitches ==
  ASSUME FactoryInv, NEW id \in DOMAIN factory.pools, NEW on \in BOOLEAN,
         factory' = [factory EXCEPT !.pools[id].active = on]
  PROVE  FactoryInv'
<1>1. PICK old \in Seq(PoolEntries) : old = factory.pools
  BY DEF FactoryInv
<1>2. PICK list : list = [old EXCEPT ![id].active = on]
  OBVIOUS
<1>3. /\ DOMAIN factory' = {"pools", "index", "deployed"}
      /\ factory'.pools = list /\ factory'.index = factory.index
  BY <1>1, <1>2 DEF FactoryInv
<1>4. PICK new \in PoolEntries : new = [old[id] EXCEPT !.active = on]
  <2>1. PICK entry \in PoolEntries : entry = old[id]
    BY <1>1
  <2>2. [entry EXCEPT !.active = on] \in PoolEntries
    BY DEF PoolEntries
  <2> QED
    BY <2>1, <2>2
<1>5. list = [old EXCEPT ![id] = new]
  BY <1>1, <1>2, <1>4
<1>6. list \in Seq(PoolEntries) /\ DOMAIN list = DOMAIN old
  BY <1>1, <1>5
<1>7. \A i \in DOMAIN old : list[i].pair = old[i].pair
  BY <1>1, <1>4, <1>5 DEF PoolEntries
<1>8. PICK index \in [Pairs -> Nat] : index = factory.index
  BY DEF FactoryInv
<1>9. /\ \A q \in Pairs : index[q] # 0 => index[q] \in DOMAIN old /\ old[index[q]].pair = q
      /\ \A i \in DOMAIN old : index[old[i].pair] = i
  BY <1>1, <1>8 DEF FactoryInv
<1>10. /\ \A q \in Pairs : index[q] # 0 => index[q] \in DOMAIN list /\ list[index[q]].pair = q
       /\ \A i \in DOMAIN list : index[list[i].pair] = i
  BY <1>6, <1>7, <1>9
<1> QED
  BY <1>3, <1>6, <1>8, <1>10 DEF FactoryInv

LEMMA FactoryStep == ASSUME FactoryInv, FactoryNext PROVE FactoryInv'
<1>1. DOMAIN factory = {"pools", "index", "deployed"}
  BY DEF FactoryInv
<1>2. ASSUME NEW u \in PoolUsers, NEW a \in PoolTokens, NEW b \in PoolTokens,
             NEW address \in PoolAddresses,
             CreatePool(u, a, b, address) \/ RegisterPool(u, a, b, address)
      PROVE  FactoryInv'
  <2>1. PICK p \in Pairs : p = Pair(a, b)
    BY DEF Pairs
  <2>2. /\ factory.index[p] = 0
        /\ DOMAIN factory' = {"pools", "index", "deployed"}
        /\ factory'.pools = Append(factory.pools,
             [pair |-> p, address |-> address, creator |-> u, active |-> TRUE])
        /\ factory'.index = [factory.index EXCEPT ![p] = Len(factory.pools) + 1]
    BY <1>1, <1>2, <2>1 DEF CreatePool, RegisterPool, Cataloged
  <2> QED
    BY <2>2, FactoryCataloged
<1>3. ASSUME NEW u \in PoolUsers, NEW id \in DOMAIN factory.pools,
             RemovePool(u, id) \/ ReactivatePool(u, id)
      PROVE  FactoryInv'
  BY <1>3, FactorySwitches DEF RemovePool, ReactivatePool
<1> QED
  BY <1>2, <1>3 DEF FactoryNext

LEMMA FactoryInitInv == FactoryInit => FactoryInv
  BY DEF FactoryInit, FactoryInv

LEMMA FactoryAnswers == ASSUME FactoryInv PROVE PairHasOnePool
<1>1. ASSUME NEW a \in PoolTokens, NEW b \in PoolTokens
      PROVE  {id \in DOMAIN factory.pools : factory.pools[id].pair = {a, b}}
               = IF PoolFor(a, b) = 0 THEN {} ELSE {PoolFor(a, b)}
  <2>1. PICK p \in Pairs : p = {a, b}
    <3>1. Pair(a, b) \in Pairs
      BY DEF Pairs
    <3> QED
      BY <3>1 DEF Pair
  <2>2. PoolFor(a, b) = factory.index[p]
    BY <2>1 DEF PoolFor, Pair
  <2>3. \A id \in DOMAIN factory.pools : factory.pools[id].pair = p => id = factory.index[p]
    BY DEF FactoryInv
  <2>4. factory.index[p] # 0 =>
          factory.index[p] \in DOMAIN factory.pools /\ factory.pools[factory.index[p]].pair = p
    BY DEF FactoryInv
  <2>5. \A id \in DOMAIN factory.pools : id # 0
    BY DEF FactoryInv
  <2> QED
    BY <2>1, <2>2, <2>3, <2>4, <2>5
<1>2. \A i, j \in ListPools : factory.pools[i].pair = factory.pools[j].pair => i = j
  BY DEF ListPools, FactoryInv
<1> QED
  BY <1>1, <1>2 DEF PairHasOnePool

\* The pool factory has one pool for a pair and finds it, through create_pool,
\* register_pool, remove_pool and reactivate_pool in any order.
THEOREM OnePoolForEachPair == FactorySpec => []PairHasOnePool
<1>1. FactoryInv /\ [FactoryNext]_<<now, factory>> => FactoryInv'
  BY FactoryStep DEF FactoryInv
<1> QED
  BY <1>1, FactoryInitInv, FactoryAnswers, PTL DEF FactorySpec

-----------------------------------------------------------------------------
(* The swap router.                                                            *)

Routes == [a : RouteTokens, b : RouteTokens]

PathsInv == router \in Seq(Routes)

\* The first of some places is one of them, and no place is the number 0.
LEMMA FirstIs ==
  ASSUME NEW n \in Nat, NEW places \in SUBSET (1 .. n)
  PROVE  /\ First(places) = 0 <=> places = {}
         /\ places # {} => First(places) \in places
<1>1. IsFiniteSet(places)
  <2>1. IsFiniteSet(1 .. n)
    BY FS_Interval
  <2> QED
    BY <2>1, FS_Subset
<1>2. places \subseteq Int /\ 0 \notin places
  OBVIOUS
<1>3. CASE places = {}
  BY <1>3 DEF First
<1>4. CASE places # {}
  <2>1. Min(places) \in places
    BY ONLY <1>1, <1>2, <1>4, MinIs
  <2>2. First(places) = Min(places)
    BY <1>4 DEF First
  <2> QED
    BY <1>2, <1>4, <2>1, <2>2
<1> QED
  BY <1>3, <1>4

\* A pool with both tokens trades them.
LEMMA TradesIs ==
  ASSUME NEW route \in Routes, NEW x, NEW y
  PROVE  /\ Trades(route, x, y) <=> {route.a, route.b} = {x, y}
         /\ y \in Reachable(x, route) => Trades(route, x, y)
  BY DEF Trades, Reachable, Routes

LEMMA FindPoolIs ==
  ASSUME PathsInv, NEW x, NEW y
  PROVE  /\ FindPool(x, y) # 0 <=> \E i \in DOMAIN router : Trades(router[i], x, y)
         /\ FindPool(x, y) # 0 =>
              FindPool(x, y) \in DOMAIN router /\ Trades(router[FindPool(x, y)], x, y)
<1>1. PICK places : places = {i \in DOMAIN router : Trades(router[i], x, y)}
  OBVIOUS
<1>2. Len(router) \in Nat /\ places \in SUBSET (1 .. Len(router))
  BY <1>1 DEF PathsInv
<1>3. FindPool(x, y) = First(places)
  BY <1>1 DEF FindPool
<1> QED
  BY <1>1, <1>2, <1>3, FirstIs

\* What find_path does, with the pool and the token of a detour named.
DirectPath(path, x, y) == FindPool(x, y) # 0 /\ path = <<Hop(FindPool(x, y), x, y)>>

Detour(path, x, y) ==
  \E i \in DOMAIN router, t \in RouteTokens :
    /\ FindPool(x, y) = 0 /\ FindPool(t, y) # 0 /\ Trades(router[i], x, t)
    /\ path = <<Hop(i, x, t), Hop(FindPool(t, y), t, y)>>

NoPath(path, x, y) ==
  /\ FindPool(x, y) = 0 /\ path = <<>>
  /\ \A i \in DOMAIN router : \A t \in Reachable(x, router[i]) : FindPool(t, y) = 0

LEMMA FindPathIs ==
  ASSUME PathsInv, NEW x \in RouteTokens, NEW y \in RouteTokens
  PROVE  LET path == FindPath(x, y)
         IN DirectPath(path, x, y) \/ Detour(path, x, y) \/ NoPath(path, x, y)
<1> DEFINE Via(i) == {t \in Reachable(x, router[i]) : FindPool(t, y) # 0}
           places == {i \in DOMAIN router : Via(i) # {}}
           t0 == CHOOSE t \in Via(First(places)) : TRUE
<1>1. Len(router) \in Nat /\ places \in SUBSET (1 .. Len(router))
  BY DEF PathsInv
<1>2. /\ First(places) = 0 <=> places = {}
      /\ places # {} => First(places) \in places
  <2> HIDE DEF places
  <2> QED
    BY <1>1, FirstIs
<1>3. FindPath(x, y) =
        IF FindPool(x, y) # 0 THEN <<Hop(FindPool(x, y), x, y)>>
        ELSE IF First(places) = 0 THEN <<>>
        ELSE <<Hop(First(places), x, t0), Hop(FindPool(t0, y), t0, y)>>
  BY DEF FindPath
<1>4. CASE FindPool(x, y) # 0
  BY <1>3, <1>4 DEF DirectPath
<1>5. CASE FindPool(x, y) = 0 /\ First(places) = 0
  <2>1. \A i \in DOMAIN router : Via(i) = {}
    BY <1>2, <1>5
  <2>2. FindPath(x, y) = <<>>
    BY <1>3, <1>5
  <2> QED
    BY <1>5, <2>1, <2>2 DEF NoPath
<1>6. CASE FindPool(x, y) = 0 /\ First(places) # 0
  <2>1. PICK i \in DOMAIN router : i = First(places) /\ Via(i) # {}
    BY <1>2, <1>6
  <2>2. PICK t : t = t0 /\ t \in Via(i)
    BY <2>1
  <2>3. t \in Reachable(x, router[i]) /\ FindPool(t, y) # 0
    BY <2>2
  <2>4. router[i] \in Routes
    BY <2>1 DEF PathsInv
  <2>5. t \in RouteTokens
    BY <2>3, <2>4 DEF Reachable, Routes
  <2>6. Trades(router[i], x, t)
    BY <2>3, <2>4, TradesIs
  <2>7. FindPath(x, y) = <<Hop(i, x, t), Hop(FindPool(t, y), t, y)>>
    BY <1>3, <1>6, <2>1, <2>2
  <2> HIDE DEF Via, places, t0
  <2> QED
    BY <1>6, <2>3, <2>5, <2>6, <2>7 DEF Detour
<1> QED
  BY <1>4, <1>5, <1>6

\* The path of find_path, in terms of pools between two tokens.
Connects(x, y) == \E i \in DOMAIN router : {router[i].a, router[i].b} = {x, y}

PathIsRight(path, x, y) ==
  /\ \A k \in DOMAIN path :
       /\ Trades(router[path[k].pool], path[k].in, path[k].out)
       /\ path[k].in = (IF k = 1 THEN x ELSE path[k - 1].out)
  /\ path # <<>> => path[Len(path)].out = y
  /\ Len(path) = 1 <=> Connects(x, y)
  /\ path = <<>> => \A t \in RouteTokens : ~(Connects(x, t) /\ Connects(t, y))

LEMMA ConnectsIs ==
  ASSUME PathsInv, NEW x, NEW y
  PROVE  Connects(x, y) <=> FindPool(x, y) # 0
<1>1. \A i \in DOMAIN router : router[i] \in Routes
  BY DEF PathsInv
<1>2. \A i \in DOMAIN router : Trades(router[i], x, y) <=> {router[i].a, router[i].b} = {x, y}
  BY <1>1, TradesIs
<1> QED
  BY <1>2, FindPoolIs DEF Connects

LEMMA PathsAnswer ==
  ASSUME PathsInv, NEW x \in RouteTokens, NEW y \in RouteTokens
  PROVE  PathIsRight(FindPath(x, y), x, y)
<1>1. PICK path : path = FindPath(x, y)
  OBVIOUS
<1>2. Connects(x, y) <=> FindPool(x, y) # 0
  BY ConnectsIs
<1>3. CASE DirectPath(path, x, y)
  <2>1. PICK i \in DOMAIN router : i = FindPool(x, y) /\ Trades(router[i], x, y)
    BY <1>3, FindPoolIs DEF DirectPath
  <2>2. /\ DOMAIN path = {1} /\ Len(path) = 1 /\ path # <<>>
        /\ path[1].pool = i /\ path[1].in = x /\ path[1].out = y
    BY <1>3, <2>1 DEF DirectPath, Hop
  <2> QED
    BY <1>1, <1>2, <1>3, <2>1, <2>2 DEF DirectPath, PathIsRight
<1>4. CASE Detour(path, x, y)
  <2>1. PICK i \in DOMAIN router, t \in RouteTokens :
          /\ FindPool(x, y) = 0 /\ FindPool(t, y) # 0 /\ Trades(router[i], x, t)
          /\ path = <<Hop(i, x, t), Hop(FindPool(t, y), t, y)>>
    BY <1>4 DEF Detour
  <2>2. PICK j \in DOMAIN router : j = FindPool(t, y) /\ Trades(router[j], t, y)
    BY <2>1, FindPoolIs
  <2>3. /\ DOMAIN path = {1, 2} /\ Len(path) = 2 /\ path # <<>>
        /\ path[1].pool = i /\ path[1].in = x /\ path[1].out = t
        /\ path[2].pool = j /\ path[2].in = t /\ path[2].out = y
    BY <2>1, <2>2 DEF Hop
  <2> QED
    BY <1>1, <1>2, <2>1, <2>2, <2>3 DEF PathIsRight
<1>5. CASE NoPath(path, x, y)
  <2>1. path = <<>> /\ DOMAIN path = {} /\ Len(path) = 0 /\ FindPool(x, y) = 0
    BY <1>5 DEF NoPath
  <2>2. ASSUME NEW t \in RouteTokens, Connects(x, t), Connects(t, y) PROVE FALSE
    <3>1. FindPool(t, y) # 0
      BY <2>2, ConnectsIs
    <3>2. PICK i \in DOMAIN router : {router[i].a, router[i].b} = {x, t}
      BY <2>2 DEF Connects
    <3>3. t \in Reachable(x, router[i])
      BY <3>2 DEF Reachable
    <3> QED
      BY <1>5, <3>1, <3>3 DEF NoPath
  <2> QED
    BY <1>1, <1>2, <2>1, <2>2 DEF PathIsRight
<1> QED
  BY <1>1, <1>3, <1>4, <1>5, FindPathIs

LEMMA PathsRight == ASSUME PathsInv PROVE RoutesAreRight
  BY PathsAnswer DEF PathIsRight, Connects, RoutesAreRight

LEMMA PathsStep == ASSUME PathsInv, RouterNext PROVE PathsInv'
<1>1. PICK a \in RouteTokens, b \in RouteTokens : RegisterRoute(a, b)
  BY DEF RouterNext
<1>2. PICK route \in Routes : route = [a |-> a, b |-> b]
  BY DEF Routes
<1> QED
  BY <1>1, <1>2 DEF RegisterRoute, PathsInv

LEMMA PathsInitInv == RouterInit => PathsInv
  BY DEF RouterInit, PathsInv

\* The swap router finds a path exactly if there is one over at most two of the
\* pools that were registered, whatever the list.
THEOREM PathsAreFound == RouterSpec => []RoutesAreRight
<1>1. PathsInv /\ [RouterNext]_<<now, router>> => PathsInv'
  BY PathsStep DEF PathsInv
<1> QED
  BY <1>1, PathsInitInv, PathsRight, PTL DEF RouterSpec

-----------------------------------------------------------------------------
(* The escrow factory.                                                         *)

Entries == [address : EscrowAddresses, creator : EscrowUsers, active : BOOLEAN]

\* Whoever is not the admin got into the catalog by deploying: what makes the
\* next deployment, to a fresh address, the only such entry for it.
CatalogInv ==
  /\ catalog.instances \in Seq(Entries)
  /\ DOMAIN catalog = {"instances", "deployed"}
  /\ \A address \in catalog.deployed :
       \E id \in DOMAIN catalog.instances : catalog.instances[id].address = address
  /\ \A i \in DOMAIN catalog.instances :
       catalog.instances[i].creator # EscrowAdmin =>
         catalog.instances[i].address \in catalog.deployed
  /\ \A i, j \in DOMAIN catalog.instances :
       catalog.instances[i].address = catalog.instances[j].address /\ i # j =>
         EscrowAdmin \in {catalog.instances[i].creator, catalog.instances[j].creator}

\* An entry is added at the end of the list; of another than the admin only with
\* an address that is deployed to in the same call, for the first time.
LEMMA CatalogEntered ==
  ASSUME CatalogInv, NEW address \in EscrowAddresses, NEW creator \in EscrowUsers,
         DOMAIN catalog' = {"instances", "deployed"},
         catalog'.instances = Append(catalog.instances,
           [address |-> address, creator |-> creator, active |-> TRUE]),
         \/ catalog'.deployed = catalog.deployed /\ creator = EscrowAdmin
         \/ /\ catalog'.deployed = catalog.deployed \cup {address}
            /\ address \notin catalog.deployed
  PROVE  CatalogInv'
<1>1. PICK old \in Seq(Entries) : old = catalog.instances
  BY DEF CatalogInv
<1>2. PICK new \in Entries :
        new = [address |-> address, creator |-> creator, active |-> TRUE]
  BY DEF Entries
<1>3. PICK list \in Seq(Entries) : list = Append(old, new)
  BY <1>1, <1>2
<1>4. PICK n \in Nat : n = Len(old)
  BY <1>1
<1>5. /\ DOMAIN old = 1 .. n /\ DOMAIN list = 1 .. n + 1 /\ list[n + 1] = new
      /\ \A i \in 1 .. n : list[i] = old[i]
  BY <1>1, <1>2, <1>3, <1>4
<1>6. catalog'.instances = list
  BY <1>1, <1>2, <1>3
<1>7. new.address = address /\ new.creator = creator
  BY <1>2
<1>8. /\ \A a \in catalog.deployed : \E i \in 1 .. n : old[i].address = a
      /\ \A i \in 1 .. n : old[i].creator # EscrowAdmin => old[i].address \in catalog.deployed
      /\ \A i, j \in 1 .. n : old[i].address = old[j].address /\ i # j =>
           EscrowAdmin \in {old[i].creator, old[j].creator}
  BY <1>1, <1>5 DEF CatalogInv
<1>9. \A a \in catalog'.deployed : \E i \in 1 .. n + 1 : list[i].address = a
  <2>1. SUFFICES ASSUME NEW a \in catalog'.deployed
                 PROVE  \E i \in 1 .. n + 1 : list[i].address = a
    OBVIOUS
  <2>2. CASE a = address
    BY <1>4, <1>5, <1>7, <2>2
  <2>3. CASE a \in catalog.deployed
    BY <1>4, <1>5, <1>8, <2>3
  <2> QED
    BY <2>1, <2>2, <2>3
<1>10. \A i \in 1 .. n + 1 : list[i].creator # EscrowAdmin => list[i].address \in catalog'.deployed
  <2>1. \A i \in 1 .. n : list[i].creator # EscrowAdmin => list[i].address \in catalog'.deployed
    BY <1>5, <1>8
  <2>2. creator # EscrowAdmin => address \in catalog'.deployed
    OBVIOUS
  <2> QED
    BY <1>4, <1>5, <1>7, <2>1, <2>2
<1>11. \A i, j \in 1 .. n + 1 : list[i].address = list[j].address /\ i # j =>
         EscrowAdmin \in {list[i].creator, list[j].creator}
  <2>1. \A i \in 1 .. n : old[i].address = address =>
          EscrowAdmin \in {old[i].creator, creator}
    BY <1>8
  <2>2. \A i, j \in 1 .. n : list[i].address = list[j].address /\ i # j =>
          EscrowAdmin \in {list[i].creator, list[j].creator}
    BY <1>5, <1>8
  <2>3. \A i \in 1 .. n : list[i].address = list[n + 1].address =>
          EscrowAdmin \in {list[i].creator, list[n + 1].creator}
    BY <1>5, <1>7, <2>1
  <2>4. \A i \in 1 .. n + 1 : i \in 1 .. n \/ i = n + 1
    BY <1>4
  <2> QED
    BY <2>2, <2>3, <2>4
<1> QED
  BY <1>5, <1>6, <1>9, <1>10, <1>11 DEF CatalogInv

LEMMA CatalogStep == ASSUME CatalogInv, CatalogNext PROVE CatalogInv'
<1>1. ASSUME NEW u \in EscrowUsers, NEW address \in EscrowAddresses,
             CreateEscrowInstance(u, address)
      PROVE  CatalogInv'
  <2>1. DOMAIN catalog = {"instances", "deployed"}
    BY DEF CatalogInv
  <2>2. /\ DOMAIN catalog' = {"instances", "deployed"}
        /\ catalog'.instances = Append(catalog.instances,
             [address |-> address, creator |-> u, active |-> TRUE])
        /\ catalog'.deployed = catalog.deployed \cup {address}
        /\ address \notin catalog.deployed
    BY <1>1, <2>1 DEF CreateEscrowInstance, Entered, FreeAddress
  <2> QED
    BY <2>2, CatalogEntered
<1>2. ASSUME NEW u \in EscrowUsers, NEW address \in EscrowAddresses,
             RegisterEscrow(u, address)
      PROVE  CatalogInv'
  <2>1. DOMAIN catalog = {"instances", "deployed"}
    BY DEF CatalogInv
  <2>2. /\ DOMAIN catalog' = {"instances", "deployed"}
        /\ catalog'.instances = Append(catalog.instances,
             [address |-> address, creator |-> u, active |-> TRUE])
        /\ catalog'.deployed = catalog.deployed /\ u = EscrowAdmin
    BY <1>2, <2>1 DEF RegisterEscrow, Entered
  <2> QED
    BY <2>2, CatalogEntered
<1>3. ASSUME NEW u \in EscrowUsers, NEW id \in DOMAIN catalog.instances, RemoveEscrow(u, id)
      PROVE  CatalogInv'
  <2>1. PICK old \in Seq(Entries) : old = catalog.instances
    BY DEF CatalogInv
  <2>2. PICK list : list = [old EXCEPT ![id].active = FALSE]
    OBVIOUS
  <2>3. /\ DOMAIN catalog' = {"instances", "deployed"}
        /\ catalog'.instances = list /\ catalog'.deployed = catalog.deployed
    BY <1>3, <2>1, <2>2 DEF RemoveEscrow, CatalogInv
  <2>4. PICK new \in Entries : new = [old[id] EXCEPT !.active = FALSE]
    <3>1. PICK entry \in Entries : entry = old[id]
      BY <1>3, <2>1
    <3>2. [entry EXCEPT !.active = FALSE] \in Entries
      BY DEF Entries
    <3> QED
      BY <3>1, <3>2
  <2>5. list = [old EXCEPT ![id] = new]
    BY <1>3, <2>1, <2>2, <2>4
  <2>6. list \in Seq(Entries) /\ DOMAIN list = DOMAIN old
    BY <1>3, <2>1, <2>5
  <2>7. \A i \in DOMAIN old : list[i].address = old[i].address /\ list[i].creator = old[i].creator
    BY <1>3, <2>1, <2>4, <2>5 DEF Entries
  <2> QED
    BY SMTT(30), <2>1, <2>3, <2>6, <2>7 DEF CatalogInv
<1> QED
  BY <1>1, <1>2, <1>3 DEF CatalogNext

LEMMA CatalogInitInv == CatalogInit => CatalogInv
  BY DEF CatalogInit, CatalogInv

LEMMA CatalogAnswers == ASSUME CatalogInv PROVE DeployedIsCataloged
  BY DEF CatalogInv, DeployedIsCataloged, ListEscrows

\* The escrow factory never loses an escrow it deployed, and no two entries of
\* others than the admin are for one address, through create_escrow_instance,
\* register_escrow and remove_escrow in any order.
THEOREM CatalogIsComplete == CatalogSpec => []DeployedIsCataloged
<1>1. CatalogInv /\ [CatalogNext]_<<now, catalog>> => CatalogInv'
  BY CatalogStep DEF CatalogInv
<1> QED
  BY <1>1, CatalogInitInv, CatalogAnswers, PTL DEF CatalogSpec

-----------------------------------------------------------------------------
(* The oracle.                                                                 *)

Reports == [price : Nat, timestamp : Nat]

\* Reports are stamped with the ledger they are made in.
FeedInv ==
  /\ feed.price \in [OracleAssets -> Reports]
  /\ feed.last \in [OracleAssets -> Reports]
  /\ DOMAIN feed = {"admin", "price", "last", "maxAge", "threshold"}
  /\ now \in Nat
  /\ \A a \in OracleAssets :
       /\ feed.price[a] = NoPrice <=> feed.last[a] = NoPrice
       /\ feed.last[a].timestamp <= feed.price[a].timestamp
       /\ feed.price[a].timestamp <= now

\* One asset's reports may be written when they agree.
LEMMA FeedWritten ==
  ASSUME FeedInv, NEW a \in OracleAssets, NEW report \in Reports, NEW last \in Reports,
         report = NoPrice <=> last = NoPrice, last.timestamp <= report.timestamp,
         report.timestamp <= now,
         DOMAIN feed' = DOMAIN feed, UNCHANGED now,
         feed'.price = [feed.price EXCEPT ![a] = report],
         feed'.last = [feed.last EXCEPT ![a] = last]
  PROVE  FeedInv'
<1>1. PICK p \in [OracleAssets -> Reports] : p = feed'.price
  BY DEF FeedInv
<1>2. PICK l \in [OracleAssets -> Reports] : l = feed'.last
  BY DEF FeedInv
<1>3. /\ p[a] = report /\ l[a] = last
      /\ \A b \in OracleAssets \ {a} : p[b] = feed.price[b] /\ l[b] = feed.last[b]
  BY <1>1, <1>2 DEF FeedInv
<1>4. ASSUME NEW b \in OracleAssets
      PROVE  /\ p[b] = NoPrice <=> l[b] = NoPrice
             /\ l[b].timestamp <= p[b].timestamp /\ p[b].timestamp <= now
  <2>1. CASE b = a
    BY <1>3, <2>1
  <2>2. CASE b # a
    BY <1>3, <2>2 DEF FeedInv
  <2> QED
    BY <2>1, <2>2
<1> QED
  BY <1>1, <1>2, <1>4 DEF FeedInv

LEMMA FeedReports ==
  ASSUME FeedInv, NEW a \in OracleAssets, NEW p \in OraclePrices, SetPrice(a, p)
  PROVE  FeedInv'
<1>1. p \in Nat /\ p > 0 /\ now \in Nat
  BY OracleAssumption DEF SetPrice, FeedInv
<1>2. PICK report \in Reports : report = [price |-> p, timestamp |-> now]
  BY <1>1 DEF Reports
<1>3. report.timestamp = now /\ report # NoPrice
  BY <1>1, <1>2 DEF NoPrice
<1>4. PICK old \in Reports : old = feed.last[a]
  BY DEF FeedInv
<1>5. PICK last \in Reports : last = IF old = NoPrice THEN report ELSE old
  OBVIOUS
<1>6. last # NoPrice /\ last.timestamp <= now
  <2>1. old.timestamp <= feed.price[a].timestamp /\ feed.price[a].timestamp <= now
    BY <1>4 DEF FeedInv
  <2>2. old.timestamp \in Nat /\ feed.price[a].timestamp \in Nat
    BY <1>4 DEF FeedInv, Reports
  <2> QED
    BY <1>1, <1>3, <1>5, <2>1, <2>2
<1>7. /\ feed'.price = [feed.price EXCEPT ![a] = report]
      /\ feed'.last = [feed.last EXCEPT ![a] = last]
      /\ DOMAIN feed' = DOMAIN feed /\ UNCHANGED now
  BY <1>2, <1>4, <1>5 DEF SetPrice, FeedInv
<1>8. /\ report = NoPrice <=> last = NoPrice
      /\ last.timestamp <= report.timestamp /\ report.timestamp <= now
  BY <1>1, <1>3, <1>6
<1> QED
  BY <1>7, <1>8, FeedWritten

LEMMA FeedCommits ==
  ASSUME FeedInv, NEW a \in OracleAssets, CommitPrice(a)
  PROVE  FeedInv'
<1>1. PICK report \in Reports : report = feed.price[a]
  BY DEF FeedInv
<1>2. report # NoPrice /\ report.timestamp <= now /\ report.timestamp \in Nat
  BY <1>1 DEF CommitPrice, FeedInv, Reports
<1>3. /\ feed'.price = [feed.price EXCEPT ![a] = report]
      /\ feed'.last = [feed.last EXCEPT ![a] = report]
      /\ DOMAIN feed' = DOMAIN feed /\ UNCHANGED now
  BY <1>1 DEF CommitPrice, FeedInv
<1> QED
  BY <1>2, <1>3, FeedWritten

\* The reports stay as they are, while ledgers may close.
LEMMA FeedRests ==
  ASSUME FeedInv, feed'.price = feed.price, feed'.last = feed.last,
         DOMAIN feed' = DOMAIN feed, now' = now \/ now' = now + 1
  PROVE  FeedInv'
<1>1. now' \in Nat /\ now <= now' /\ now \in Nat
  BY DEF FeedInv
<1>2. ASSUME NEW a \in OracleAssets PROVE feed.price[a].timestamp <= now'
  <2>1. PICK t \in Nat : t = feed.price[a].timestamp
    BY DEF FeedInv, Reports
  <2>2. t <= now
    BY <2>1 DEF FeedInv
  <2> QED
    BY <1>1, <2>1, <2>2
<1> QED
  BY <1>1, <1>2 DEF FeedInv

LEMMA FeedStep == ASSUME FeedInv, OracleNext PROVE FeedInv'
<1>1. ASSUME NEW age \in Ages, SetMaxAge(age) PROVE FeedInv'
  BY <1>1, FeedRests DEF SetMaxAge, FeedInv
<1>2. ASSUME NEW bps \in Deviations, SetBreakerThreshold(bps) PROVE FeedInv'
  BY <1>2, FeedRests DEF SetBreakerThreshold, FeedInv
<1>3. ASSUME NEW admin1 \in OracleAdmins, SetOracleAdmin(admin1) PROVE FeedInv'
  BY <1>3, FeedRests DEF SetOracleAdmin, FeedInv
<1>4. ASSUME LedgerCloses, UNCHANGED feed PROVE FeedInv'
  BY <1>4, FeedRests DEF LedgerCloses
<1> QED
  BY <1>1, <1>2, <1>3, <1>4, FeedReports, FeedCommits DEF OracleNext

LEMMA FeedInitInv == HostInit /\ OracleInit => FeedInv
<1> SUFFICES ASSUME HostInit, OracleInit PROVE FeedInv
  OBVIOUS
<1>1. NoPrice \in Reports /\ NoPrice.timestamp = 0
  BY DEF NoPrice, Reports
<1> QED
  BY <1>1 DEF HostInit, OracleInit, FeedInv

\* The deviation of a price, cut to its range, exceeds a limit exactly if the
\* price is that far off, unless it is too far off for the range.
LEMMA DeviationExceeds ==
  ASSUME NEW far \in Nat, NEW last \in Nat \ {0}, NEW range \in Nat \ {0}, NEW limit \in Nat,
         far < range * last
  PROVE  (far \div last) % range > limit <=> far >= (limit + 1) * last
<1>1. PICK q \in Int : q = far \div last
  BY DivIs
<1>2. q * last <= far /\ far < q * last + last
  BY <1>1, DivIs
<1>3. q >= 0 /\ q < range
  <2>1. 0 * last < (q + 1) * last /\ q * last < range * last
    BY <1>2
  <2>2. 0 < q + 1 /\ q < range
    BY <2>1, QuotientOrder
  <2> QED
    BY <2>2
<1>4. q % range = q
  BY <1>3
<1>5. ASSUME q > limit PROVE far >= (limit + 1) * last
  <2>1. (limit + 1) * last <= q * last
    BY <1>5, ProductOrder
  <2> QED
    BY <1>2, <2>1
<1>6. ASSUME far >= (limit + 1) * last PROVE q > limit
  <2>1. (limit + 1) * last < (q + 1) * last
    BY <1>2, <1>6
  <2>2. limit + 1 < q + 1
    BY <2>1, QuotientOrder
  <2> QED
    BY <2>2
<1> QED
  BY <1>1, <1>4, <1>5, <1>6

LEMMA FeedAnswers == ASSUME FeedInv PROVE BreakerIsExact
<1>1. ASSUME NEW a \in OracleAssets, NEW p \in OraclePrices, NEW limit \in Deviations,
             ~Deviates(a, p, DeviationRange - 1)
      PROVE  BreakerTrips(a, p, limit) <=> Deviates(a, p, limit)
  <2>1. PICK last \in Nat : last = feed.last[a].price
    BY DEF FeedInv, Reports
  <2>2. /\ p \in Int /\ limit \in Nat /\ WholeBps \in Nat \ {0} /\ DeviationRange \in Nat \ {0}
    BY OracleAssumption
  <2>3. CASE last = 0
    BY <2>1, <2>3 DEF BreakerTrips, Deviates
  <2>4. CASE last # 0
    <3>1. PICK far \in Nat : far = Difference(p, last) * WholeBps
      BY <2>2 DEF Difference
    <3>2. ASSUME NEW bound \in Int, bound >= 0
          PROVE  Deviates(a, p, bound) <=> far >= (bound + 1) * last
      <4>1. PICK up \in Int : up = (p - last) * WholeBps
        BY <2>2
      <4>2. PICK down \in Int : down = (last - p) * WholeBps
        BY <2>2
      <4>3. PICK edge \in Nat : edge = (bound + 1) * last /\ edge > 0
        BY <2>4, <3>2
      <4>4. up = -down
        BY <2>2, <4>1, <4>2
      <4>5. p < last => far = down /\ down >= 0
        BY <2>2, <3>1, <4>2 DEF Difference
      <4>6. p >= last => far = up /\ up >= 0
        BY <2>2, <3>1, <4>1 DEF Difference
      <4>7. Deviates(a, p, bound) <=> up >= edge \/ down >= edge
        BY <2>1, <2>4, <4>1, <4>2, <4>3 DEF Deviates
      <4> QED
        BY <2>2, <4>3, <4>4, <4>5, <4>6, <4>7
    <3>3. far < DeviationRange * last
      <4>1. Deviates(a, p, DeviationRange - 1) <=> far >= (DeviationRange - 1 + 1) * last
        BY <2>2, <3>2
      <4> QED
        BY <1>1, <2>2, <4>1
    <3>4. Deviates(a, p, limit) <=> far >= (limit + 1) * last
      BY <2>2, <3>2
    <3>5. (far \div last) % DeviationRange > limit <=> far >= (limit + 1) * last
      BY <2>2, <2>4, <3>3, DeviationExceeds
    <3>6. BreakerTrips(a, p, limit) <=> (far \div last) % DeviationRange > limit
      BY <2>1, <2>4, <3>1 DEF BreakerTrips, DeviationBps
    <3> QED
      BY <3>4, <3>5, <3>6
  <2> QED
    BY <2>3, <2>4
<1> QED
  BY <1>1 DEF BreakerIsExact, FeedInv

\* The oracle's circuit breaker compares with a price that was reported before,
\* and trips exactly on those that deviate, for all prices and limits whose
\* deviation fits its 32 bits.
THEOREM BreakerTripsExactly == OracleSpec => []BreakerIsExact
<1>1. FeedInv /\ [OracleNext]_<<now, feed>> => FeedInv'
  BY FeedStep DEF FeedInv
<1> QED
  BY <1>1, FeedInitInv, FeedAnswers, PTL DEF OracleSpec

-----------------------------------------------------------------------------
(* The constant-product pool.                                                  *)

\* One step of the iteration of isqrt.
NextGuess(n, x) == (x + n \div x) \div 2

SolvesRoot(root, n, k) ==
  root = [x \in 1 .. k |-> IF NextGuess(n, x) < x THEN root[NextGuess(n, x)] ELSE x]

LEMMA IsqrtDefinition ==
  ASSUME NEW n
  PROVE  Isqrt(n) = IF n = 0 THEN 0 ELSE (CHOOSE root : SolvesRoot(root, n, n))[n]
  BY DEF Isqrt, SolvesRoot, NextGuess

\* r is the whole part of the square root of n.
IsRoot(r, n) == r \in Nat /\ r * r <= n /\ n < (r + 1) * (r + 1)

\* A guess is positive and never below the root; one that does not decrease is
\* not above it.
LEMMA GuessIs ==
  ASSUME NEW n \in Nat \ {0}, NEW x \in 1 .. n
  PROVE  LET y == NextGuess(n, x) IN
         /\ y \in Nat /\ y >= 1
         /\ n < (y + 1) * (y + 1)
         /\ y >= x => x * x <= n
<1>1. PICK d \in Int : d = n \div x
  BY DivIs
<1>2. d * x <= n /\ n < d * x + x
  BY <1>1, DivIs
<1>3. d >= 1
  <2>1. 0 * x < (d + 1) * x /\ 1 * x < (d + 1) * x
    BY <1>2
  <2>2. 1 < d + 1
    BY <2>1, QuotientOrder
  <2> QED
    BY <2>2
<1>4. PICK y \in Nat : y = NextGuess(n, x) /\ y >= 1 /\ y * 2 <= x + d /\ x + d < y * 2 + 2
  BY <1>1, <1>3 DEF NextGuess
<1>5. n < (y + 1) * (y + 1)
  <2>1. PICK e \in Nat : e = d + 1
    BY <1>3
  <2>2. n < x * e
    BY <1>2, <2>1
  <2>3. PICK w \in Nat : w = x + e /\ w <= 2 * (y + 1)
    BY <1>4, <2>1
  <2>4. 4 * (x * e) <= w * w
    <3>1. (x - e) * (x - e) >= 0
      OBVIOUS
    <3>2. w * w = (x - e) * (x - e) + 4 * (x * e)
      BY <2>3
    <3> QED
      BY <3>1, <3>2
  <2>5. w * w <= (2 * (y + 1)) * (2 * (y + 1))
    <3>1. PICK v \in Nat : v = 2 * (y + 1)
      OBVIOUS
    <3>2. w * w <= v * w /\ v * w <= v * v
      BY <2>3, <3>1, ProductOrder
    <3> QED
      BY <3>1, <3>2
  <2>6. (2 * (y + 1)) * (2 * (y + 1)) = 4 * ((y + 1) * (y + 1))
    OBVIOUS
  <2> QED
    BY <2>2, <2>4, <2>5, <2>6
<1>6. ASSUME y >= x PROVE x * x <= n
  <2>1. x <= d
    BY <1>4, <1>6
  <2>2. x * x <= d * x
    BY <2>1, ProductOrder
  <2> QED
    BY <1>2, <2>2
<1> QED
  BY <1>4, <1>5, <1>6

\* The iteration is well defined: up to each bound there is a function that
\* solves its equation.
LEMMA RootExists ==
  ASSUME NEW n \in Nat \ {0}
  PROVE  \E root : SolvesRoot(root, n, n)
<1> DEFINE Bad == {k \in 0 .. n : ~ \E root : SolvesRoot(root, n, k)}
<1> SUFFICES ASSUME Bad # {} PROVE FALSE
  OBVIOUS
<1>1. IsFiniteSet(Bad) /\ Bad \subseteq Int
  <2>1. IsFiniteSet(0 .. n)
    BY FS_Interval
  <2> QED
    BY <2>1, FS_Subset
<1>2. PICK m : m \in Bad /\ \A k \in Bad : m <= k
  <2> HIDE DEF Bad
  <2> QED
    BY <1>1, MinIs
<1>3. m \in 0 .. n
  BY <1>2
<1>4. m # 0
  <2>1. SolvesRoot([x \in 1 .. 0 |-> x], n, 0)
    BY DEF SolvesRoot
  <2> QED
    BY <1>2, <2>1
<1>5. PICK root : SolvesRoot(root, n, m - 1)
  <2>1. m - 1 \in 0 .. n /\ m - 1 \notin Bad
    BY <1>2, <1>3, <1>4
  <2> QED
    BY <2>1
<1> DEFINE last == IF NextGuess(n, m) < m THEN root[NextGuess(n, m)] ELSE m
           longer == [x \in 1 .. m |-> IF x < m THEN root[x] ELSE last]
<1>6. ASSUME NEW x \in 1 .. m
      PROVE  longer[x] = IF NextGuess(n, x) < x THEN longer[NextGuess(n, x)] ELSE x
  <2>1. PICK y \in Nat : y = NextGuess(n, x) /\ y >= 1
    BY <1>3, GuessIs
  <2>2. CASE x < m
    <3>1. x \in 1 .. m - 1
      BY <1>3, <2>2
    <3>2. root[x] = IF y < x THEN root[y] ELSE x
      BY <1>5, <2>1, <3>1 DEF SolvesRoot
    <3>3. y < x => y \in 1 .. m /\ y < m
      BY <1>3, <2>1, <2>2
    <3> QED
      BY <2>1, <2>2, <3>2, <3>3
  <2>3. CASE x = m
    <3>1. y < x => y \in 1 .. m /\ y < m
      BY <1>3, <2>1, <2>3
    <3> QED
      BY <1>3, <2>1, <2>3, <3>1
  <2> QED
    BY <1>3, <2>2, <2>3
<1>7. SolvesRoot(longer, n, m)
  <2>1. longer = [x \in 1 .. m |-> longer[x]]
    OBVIOUS
  <2> HIDE DEF longer
  <2> QED
    BY <1>6, <2>1 DEF SolvesRoot
<1> QED
  BY <1>2, <1>7

\* From a guess above the root the iteration comes down to it.
LEMMA RootFound ==
  ASSUME NEW n \in Nat \ {0}, NEW root, SolvesRoot(root, n, n)
  PROVE  \A x \in 1 .. n : n < (x + 1) * (x + 1) => IsRoot(root[x], n)
<1> DEFINE Bad == {x \in 1 .. n : n < (x + 1) * (x + 1) /\ ~IsRoot(root[x], n)}
<1> SUFFICES ASSUME Bad # {} PROVE FALSE
  OBVIOUS
<1>1. IsFiniteSet(Bad) /\ Bad \subseteq Int
  <2>1. IsFiniteSet(1 .. n)
    BY FS_Interval
  <2> QED
    BY <2>1, FS_Subset
<1>2. PICK m : m \in Bad /\ \A x \in Bad : m <= x
  <2> HIDE DEF Bad
  <2> QED
    BY <1>1, MinIs
<1>3. m \in 1 .. n /\ n < (m + 1) * (m + 1) /\ ~IsRoot(root[m], n)
  BY <1>2
<1>4. PICK y \in Nat :
        /\ y = NextGuess(n, m) /\ y >= 1
        /\ n < (y + 1) * (y + 1) /\ (y >= m => m * m <= n)
  BY <1>3, GuessIs
<1>5. root[m] = IF y < m THEN root[y] ELSE m
  BY <1>3, <1>4 DEF SolvesRoot
<1>6. CASE y < m
  <2>1. y \in 1 .. n /\ ~(m <= y)
    BY <1>3, <1>4, <1>6
  <2>2. IsRoot(root[y], n)
    BY <1>2, <1>4, <2>1
  <2> QED
    BY <1>3, <1>5, <1>6, <2>2
<1>7. CASE ~(y < m)
  <2>1. m \in Nat /\ root[m] = m /\ m * m <= n
    BY <1>3, <1>4, <1>5, <1>7
  <2> QED
    BY <1>3, <2>1 DEF IsRoot
<1> QED
  BY <1>6, <1>7

\* isqrt, the Babylonian iteration of the pool's first deposit, returns the whole
\* part of the square root, of every natural number.
THEOREM IsqrtIsRoot == ASSUME NEW n \in Nat PROVE IsRoot(Isqrt(n), n)
<1>1. CASE n = 0
  <2>1. Isqrt(n) = 0
    BY <1>1, IsqrtDefinition
  <2>2. IsRoot(0, 0)
    BY DEF IsRoot
  <2> QED
    BY <1>1, <2>1, <2>2
<1>2. CASE n # 0
  <2>1. PICK root : root = CHOOSE g : SolvesRoot(g, n, n)
    OBVIOUS
  <2>2. SolvesRoot(root, n, n)
    BY <1>2, <2>1, RootExists
  <2>3. n \in 1 .. n /\ n < (n + 1) * (n + 1)
    BY <1>2
  <2>4. IsRoot(root[n], n)
    BY <1>2, <2>2, <2>3, RootFound
  <2> QED
    BY <1>2, <2>1, <2>4, IsqrtDefinition
<1> QED
  BY <1>1, <1>2

CpmmStates == [reserve : [Sides -> Nat], totalShares : Nat, shares : [Providers -> Nat]]

CpmmInv == cpmm \in CpmmStates /\ Total(cpmm.shares) = cpmm.totalShares

\* The pool x after a call on the pool y: the shares are worth no less.
KeepsWorth(y, x) ==
  y.totalShares > 0 /\ x.totalShares > 0 =>
    Product(x) * y.totalShares * y.totalShares >= Product(y) * x.totalShares * x.totalShares

LEMMA CpmmFields ==
  ASSUME CpmmInv
  PROVE  /\ IsFiniteSet(Providers)
         /\ cpmm.reserve \in [Sides -> Nat] /\ cpmm.totalShares \in Nat
         /\ cpmm.reserve["a"] \in Nat /\ cpmm.reserve["b"] \in Nat
         /\ cpmm.shares \in [Providers -> Int]
         /\ \A p \in Providers : cpmm.shares[p] \in Nat /\ cpmm.shares[p] <= cpmm.totalShares
<1>1. /\ IsFiniteSet(Providers) /\ cpmm.shares \in [Providers -> Int]
      /\ cpmm.reserve \in [Sides -> Nat] /\ cpmm.totalShares \in Nat
      /\ \A p \in Providers : cpmm.shares[p] \in Nat
  BY CpmmAssumption DEF CpmmInv, CpmmStates
<1>2. \A p \in Providers : cpmm.shares[p] <= Total(cpmm.shares)
  BY <1>1, TotalType
<1> QED
  BY <1>1, <1>2 DEF CpmmInv, Sides

\* The reserves and one provider's shares may be written with the total.
LEMMA CpmmWritten ==
  ASSUME CpmmInv, NEW r \in [Sides -> Nat], NEW p \in Providers, NEW n \in Nat, NEW total \in Nat,
         total - cpmm.totalShares = n - cpmm.shares[p],
         cpmm' = [cpmm EXCEPT !.reserve = r, !.totalShares = total,
                              !.shares = [cpmm.shares EXCEPT ![p] = n]]
  PROVE  CpmmInv'
<1>1. /\ IsFiniteSet(Providers) /\ cpmm.totalShares \in Nat
      /\ cpmm.shares \in [Providers -> Int]
      /\ \A q \in Providers : cpmm.shares[q] \in Nat
  BY CpmmFields
<1>2. PICK old \in [Providers -> Int] : old = cpmm.shares /\ \A q \in Providers : old[q] \in Nat
  BY <1>1
<1>3. PICK new \in [Providers -> Nat] : new = [old EXCEPT ![p] = n]
  BY <1>2
<1>4. /\ new \in [Providers -> Int] /\ new[p] = n
      /\ \A q \in Providers \ {p} : new[q] = old[q]
  BY <1>3
<1>5. Total(new) = Total(old) + new[p] - old[p]
  BY <1>1, <1>4, TotalChange
<1>6. Total(old) = cpmm.totalShares /\ old[p] = cpmm.shares[p] /\ old[p] \in Int
  BY <1>2 DEF CpmmInv
<1>7. Total(new) = total
  BY <1>1, <1>4, <1>5, <1>6
<1>8. cpmm' \in CpmmStates /\ cpmm'.shares = new /\ cpmm'.totalShares = total
  BY <1>2, <1>3 DEF CpmmInv, CpmmStates
<1> QED
  BY <1>7, <1>8 DEF CpmmInv

\* If neither reserve falls faster than the shares, their worth does not.
LEMMA WorthOfBoth ==
  ASSUME NEW a \in Nat, NEW b \in Nat, NEW s \in Nat, NEW a1 \in Nat, NEW b1 \in Nat, NEW s1 \in Nat,
         a1 * s >= a * s1, b1 * s >= b * s1
  PROVE  (a1 * b1) * s * s >= (a * b) * s1 * s1
<1>1. PICK u \in Nat : u = a1 * s
  OBVIOUS
<1>2. PICK v \in Nat : v = b1 * s
  OBVIOUS
<1>3. PICK u0 \in Nat : u0 = a * s1
  OBVIOUS
<1>4. PICK v0 \in Nat : v0 = b * s1
  OBVIOUS
<1>5. u * v >= u0 * v0
  <2>1. u0 * v0 <= u * v0
    BY <1>1, <1>3, ProductOrder
  <2>2. u * v0 <= u * v
    BY <1>2, <1>4, ProductOrder
  <2> QED
    BY <2>1, <2>2
<1>6. u * v = (a1 * b1) * s * s
  BY <1>1, <1>2
<1>7. u0 * v0 = (a * b) * s1 * s1
  BY <1>3, <1>4
<1> QED
  BY <1>5, <1>6, <1>7

LEMMA CpmmAdds ==
  ASSUME CpmmInv, NEW p \in Providers, NEW a \in LiquidityAmounts, NEW b \in LiquidityAmounts,
         AddLiquidity(p, a, b)
  PROVE  CpmmInv' /\ KeepsWorth(cpmm, cpmm')
<1>1. a \in Nat \ {0} /\ b \in Nat \ {0}
  BY CpmmAssumption DEF AddLiquidity
<1>2. PICK ra \in Nat, rb \in Nat, s \in Nat, old \in Nat :
        /\ ra = cpmm.reserve["a"] /\ rb = cpmm.reserve["b"]
        /\ s = cpmm.totalShares /\ old = cpmm.shares[p]
  BY CpmmFields
<1>3. s # 0 => ra # 0 /\ rb # 0
  BY <1>2 DEF AddLiquidity
\* The shares that are minted.
<1>4. PICK m \in Nat : m = SharesForLiquidity(a, b) /\ (s # 0 => m * ra <= a * s /\ m * rb <= b * s)
  <2>1. CASE s = 0
    <3>1. a * b \in Nat
      BY <1>1
    <3>2. Isqrt(a * b) \in Nat
      BY <3>1, IsqrtIsRoot DEF IsRoot
    <3> QED
      BY <1>2, <2>1, <3>2 DEF SharesForLiquidity
  <2>2. CASE s # 0
    <3>1. PICK x \in Int : x = (a * s) \div ra
      BY <1>1, <1>3, <2>2
    <3>2. PICK y \in Int : y = (b * s) \div rb
      BY <1>1, <1>3, <2>2
    <3>3. x * ra <= a * s /\ a * s < x * ra + ra /\ y * rb <= b * s /\ b * s < y * rb + rb
      BY <1>1, <1>3, <2>2, <3>1, <3>2, DivIs
    <3>4. x >= 0 /\ y >= 0
      <4>1. a * s >= 0 /\ b * s >= 0
        BY <1>1
      <4>2. 0 * ra < (x + 1) * ra /\ 0 * rb < (y + 1) * rb
        <5>1. (x + 1) * ra = x * ra + ra /\ (y + 1) * rb = y * rb + rb
          OBVIOUS
        <5> QED
          BY <1>1, <3>3, <4>1, <5>1
      <4>3. 0 < x + 1 /\ 0 < y + 1
        BY <1>3, <2>2, <4>2, QuotientOrder
      <4> QED
        BY <4>3
    <3>5. ShareOf("a", a) = x /\ ShareOf("b", b) = y
      BY <1>2, <3>1, <3>2 DEF ShareOf
    <3>6. SharesForLiquidity(a, b) = IF x < y THEN x ELSE y
      BY <1>2, <2>2, <3>5 DEF SharesForLiquidity
    <3>7. CASE x < y
      <4>1. x * rb <= y * rb
        BY <3>7, ProductOrder
      <4>2. x * rb <= b * s
        BY <1>1, <3>3, <4>1
      <4> QED
        BY <3>3, <3>4, <3>6, <3>7, <4>2
    <3>8. CASE ~(x < y)
      <4>1. y * ra <= x * ra
        BY <3>8, ProductOrder
      <4>2. y * ra <= a * s
        BY <1>1, <3>3, <4>1
      <4> QED
        BY <3>3, <3>4, <3>6, <3>8, <4>2
    <3> QED
      BY <3>7, <3>8
  <2> QED
    BY <2>1, <2>2
<1>5. PICK r \in [Sides -> Nat] :
        /\ r = [x \in Sides |-> cpmm.reserve[x] + (IF x = "a" THEN a ELSE b)]
        /\ r["a"] = ra + a /\ r["b"] = rb + b
  <2>1. PICK f : f = [x \in Sides |-> cpmm.reserve[x] + (IF x = "a" THEN a ELSE b)]
    OBVIOUS
  <2>2. DOMAIN f = Sides /\ f["a"] = ra + a /\ f["b"] = rb + b
    BY <1>2, <2>1 DEF Sides
  <2>3. f \in [Sides -> Nat]
    BY <1>1, <2>1, <2>2 DEF Sides
  <2> QED
    BY <2>1, <2>2, <2>3
<1>6. PICK total \in Nat : total = s + m
  OBVIOUS
<1>7. PICK new \in Nat : new = old + m
  OBVIOUS
<1>8. cpmm' = [cpmm EXCEPT !.reserve = r, !.totalShares = total,
                           !.shares = [cpmm.shares EXCEPT ![p] = new]]
  BY <1>2, <1>4, <1>5, <1>6, <1>7 DEF AddLiquidity, CpmmInv, CpmmStates
<1>9. CpmmInv'
  <2>1. total - cpmm.totalShares = new - cpmm.shares[p]
    BY <1>2, <1>6, <1>7
  <2> QED
    BY <1>8, <2>1, CpmmWritten
<1>10. cpmm'.reserve = r /\ cpmm'.totalShares = total
  BY <1>8 DEF CpmmInv, CpmmStates
<1>11. ASSUME s > 0
       PROVE  ((ra + a) * (rb + b)) * s * s >= (ra * rb) * total * total
  <2>1. (ra + a) * s >= ra * total /\ (rb + b) * s >= rb * total
    <3>1. (ra + a) * s = ra * s + a * s /\ ra * total = ra * s + m * ra
      BY <1>1, <1>6
    <3>2. (rb + b) * s = rb * s + b * s /\ rb * total = rb * s + m * rb
      BY <1>1, <1>6
    <3> QED
      BY <1>1, <1>4, <1>11, <3>1, <3>2
  <2>2. ra + a \in Nat /\ rb + b \in Nat
    BY <1>1
  <2> QED
    BY <2>1, <2>2, WorthOfBoth
<1>12. KeepsWorth(cpmm, cpmm')
  BY <1>2, <1>5, <1>10, <1>11 DEF KeepsWorth, Product
<1> QED
  BY <1>9, <1>12

\* A share of a reserve, rounded down, is at most the reserve, and leaves at
\* least the rest of it.
LEMMA PartTaken ==
  ASSUME NEW r \in Nat, NEW s \in Nat \ {0}, NEW n \in Nat, n <= s
  PROVE  LET q == (n * r) \div s IN
         /\ q \in Int /\ 0 <= q /\ q <= r
         /\ (r - q) * s >= r * (s - n)
<1>1. PICK q \in Int : q = (n * r) \div s
  OBVIOUS
<1>2. q * s <= n * r /\ n * r < q * s + s
  BY <1>1, DivIs
<1>3. q >= 0
  <2>1. n * r >= 0
    OBVIOUS
  <2>2. 0 * s < (q + 1) * s
    BY <1>2, <2>1
  <2>3. 0 < q + 1
    BY <2>2, QuotientOrder
  <2> QED
    BY <2>3
<1>4. q <= r
  <2>1. n * r <= s * r
    BY ProductOrder
  <2>2. q * s <= r * s
    BY <1>2, <2>1
  <2> QED
    BY <2>2, QuotientOrder
<1>5. (r - q) * s = r * s - q * s /\ r * (s - n) = r * s - n * r
  OBVIOUS
<1>6. (r - q) * s >= r * (s - n)
  BY <1>2, <1>5
<1> QED
  BY <1>1, <1>3, <1>4, <1>6

LEMMA CpmmRemoves ==
  ASSUME CpmmInv, NEW p \in Providers, NEW n \in 1 .. cpmm.shares[p], RemoveLiquidity(p, n)
  PROVE  CpmmInv' /\ KeepsWorth(cpmm, cpmm')
<1>1. PICK ra \in Nat, rb \in Nat, s \in Nat, old \in Nat :
        /\ ra = cpmm.reserve["a"] /\ rb = cpmm.reserve["b"]
        /\ s = cpmm.totalShares /\ old = cpmm.shares[p] /\ old <= s
  BY CpmmFields
<1>2. n \in Nat /\ n >= 1 /\ n <= old /\ n <= s /\ s \in Nat \ {0}
  BY <1>1
<1>3. PICK qa \in Int : qa = (n * ra) \div s /\ 0 <= qa /\ qa <= ra /\ (ra - qa) * s >= ra * (s - n)
  <2>1. ra \in Nat
    OBVIOUS
  <2> QED
    BY ONLY <1>2, <2>1, PartTaken
<1>4. PICK qb \in Int : qb = (n * rb) \div s /\ 0 <= qb /\ qb <= rb /\ (rb - qb) * s >= rb * (s - n)
  <2>1. rb \in Nat
    OBVIOUS
  <2> QED
    BY ONLY <1>2, <2>1, PartTaken
<1>5. PICK a1 \in Nat, b1 \in Nat : a1 = ra - qa /\ b1 = rb - qb
  <2>1. qa <= ra /\ qb <= rb
    BY <1>3, <1>4
  <2>2. ra - qa \in Nat /\ rb - qb \in Nat
    BY <2>1
  <2> QED
    BY <2>2
<1>6. PICK total \in Nat, new \in Nat : total = s - n /\ new = old - n
  BY <1>1, <1>2
<1>7. PICK r \in [Sides -> Nat] :
        /\ r = [x \in Sides |-> cpmm.reserve[x] - PartOf(x, n)]
        /\ r["a"] = a1 /\ r["b"] = b1
  <2>1. PICK f : f = [x \in Sides |-> cpmm.reserve[x] - PartOf(x, n)]
    OBVIOUS
  <2>2. DOMAIN f = Sides /\ f["a"] = a1 /\ f["b"] = b1
    BY <1>1, <1>3, <1>4, <1>5, <2>1 DEF Sides, PartOf
  <2>3. f \in [Sides -> Nat]
    BY <2>1, <2>2 DEF Sides
  <2> QED
    BY <2>1, <2>2, <2>3
<1>8. cpmm' = [cpmm EXCEPT !.reserve = r, !.totalShares = total,
                           !.shares = [cpmm.shares EXCEPT ![p] = new]]
  BY <1>1, <1>6, <1>7 DEF RemoveLiquidity, CpmmInv, CpmmStates
<1>9. CpmmInv'
  <2>1. total - cpmm.totalShares = new - cpmm.shares[p]
    BY <1>1, <1>2, <1>6
  <2> QED
    BY <1>8, <2>1, CpmmWritten
<1>10. cpmm'.reserve = r /\ cpmm'.totalShares = total
  BY <1>8 DEF CpmmInv, CpmmStates
<1>11. (a1 * b1) * s * s >= (ra * rb) * total * total
  <2>1. a1 * s >= ra * total /\ b1 * s >= rb * total
    BY <1>3, <1>4, <1>5, <1>6
  <2> QED
    BY <2>1, WorthOfBoth
<1>12. KeepsWorth(cpmm, cpmm')
  BY <1>1, <1>7, <1>10, <1>11 DEF KeepsWorth, Product
<1> QED
  BY <1>9, <1>12

\* What a swap pays out is there, and leaves no smaller a product: the fee only
\* adds to the reserve that is paid into.
LEMMA SwapPays ==
  ASSUME NEW x \in Nat \ {0}, NEW y \in Nat, NEW amount \in Nat, NEW net \in Nat, net <= amount
  PROVE  LET out == (y * net) \div (x + net) IN
         /\ out \in Int /\ 0 <= out /\ out <= y
         /\ (x + amount) * (y - out) >= x * y
<1>1. PICK d \in Nat \ {0} : d = x + net
  OBVIOUS
<1>2. PICK out \in Int : out = (y * net) \div d
  OBVIOUS
<1>3. out * d <= y * net /\ y * net < out * d + d
  <2>1. y * net \in Int
    OBVIOUS
  <2> QED
    BY <1>2, <2>1, DivIs
<1>4. out >= 0
  <2>1. y * net >= 0
    OBVIOUS
  <2>2. 0 * d < (out + 1) * d
    BY <1>3, <2>1
  <2>3. 0 < out + 1
    BY <2>2, QuotientOrder
  <2> QED
    BY <2>3
<1>5. out <= y
  <2>1. net * y <= d * y
    BY <1>1, ProductOrder
  <2>2. out * d <= y * d
    BY <1>3, <2>1
  <2> QED
    BY <2>2, QuotientOrder
<1>6. PICK z \in Nat : z = y - out
  BY <1>5
<1>7. d * z <= (x + amount) * z
  BY <1>1, ProductOrder
<1>8. d * z = x * y + net * y - out * d
  BY <1>1, <1>6
<1>9. (x + amount) * z >= x * y
  BY <1>3, <1>7, <1>8
<1> QED
  BY <1>1, <1>2, <1>4, <1>5, <1>6, <1>9

LEMMA CpmmSwaps ==
  ASSUME CpmmInv, NEW side \in Sides, NEW amount \in SwapAmounts, Swap(side, amount)
  PROVE  CpmmInv' /\ KeepsWorth(cpmm, cpmm')
<1>1. amount \in Nat \ {0} /\ CpmmFeeBps \in 0 .. 1000
  BY CpmmAssumption DEF Swap
<1>2. PICK other \in Sides : other = Other(side) /\ other # side
  <2>1. \E o \in Sides : o # side
    BY DEF Sides
  <2> QED
    BY <2>1 DEF Other
<1>3. PICK x \in Nat \ {0}, y \in Nat \ {0}, s \in Nat :
        x = cpmm.reserve[side] /\ y = cpmm.reserve[other] /\ s = cpmm.totalShares
  BY <1>2, CpmmFields DEF Swap
\* What remains of the amount after the fee.
<1>4. PICK net \in Nat : net = (amount * (10000 - CpmmFeeBps)) \div 10000 /\ net <= amount
  <2>1. PICK keep \in Nat : keep = 10000 - CpmmFeeBps /\ keep <= 10000
    BY <1>1
  <2>2. PICK q \in Int : q = (amount * keep) \div 10000 /\ 0 <= q /\ q <= amount
    <3>1. PICK q \in Int : q = (keep * amount) \div 10000 /\ 0 <= q /\ q <= amount
      BY <1>1, <2>1, PartTaken
    <3>2. keep * amount = amount * keep
      BY <1>1
    <3> QED
      BY <3>1, <3>2
  <2> QED
    BY <2>1, <2>2
<1>5. PICK out \in Int :
        /\ out = (y * net) \div (x + net) /\ 0 <= out /\ out <= y
        /\ (x + amount) * (y - out) >= x * y
  BY <1>1, <1>4, SwapPays
<1>6. AmountOut(side, amount) = out
  BY <1>2, <1>3, <1>4, <1>5 DEF AmountOut
<1>7. PICK x1 \in Nat, y1 \in Nat : x1 = x + amount /\ y1 = y - out
  BY <1>1, <1>5
<1>8. PICK r \in [Sides -> Nat] :
        r = [cpmm.reserve EXCEPT ![side] = x1, ![other] = y1]
  BY CpmmFields
<1>9. r[side] = x1 /\ r[other] = y1
  BY <1>2, <1>8, CpmmFields
<1>10. /\ cpmm' \in CpmmStates /\ cpmm'.reserve = r
       /\ cpmm'.shares = cpmm.shares /\ cpmm'.totalShares = s
  <2>1. cpmm' = [cpmm EXCEPT !.reserve = r]
    BY <1>2, <1>3, <1>6, <1>7, <1>8 DEF Swap, CpmmInv, CpmmStates
  <2> QED
    BY <1>3, <2>1 DEF CpmmInv, CpmmStates
<1>11. CpmmInv'
  BY <1>3, <1>10 DEF CpmmInv
<1>12. x1 * y1 >= x * y
  BY <1>5, <1>7
<1>13. Product(cpmm') = x1 * y1 /\ Product(cpmm) = x * y
  <2>1. (side = "a" /\ other = "b") \/ (side = "b" /\ other = "a")
    BY <1>2 DEF Sides
  <2>2. x1 * y1 = y1 * x1 /\ x * y = y * x
    OBVIOUS
  <2> QED
    BY <1>3, <1>9, <1>10, <2>1, <2>2 DEF Product
<1>14. (x1 * y1) * s * s >= (x * y) * s * s
  <2>1. PICK u \in Nat, v \in Nat, w \in Nat : u = x1 * y1 /\ v = x * y /\ w = s * s
    OBVIOUS
  <2>2. v * w <= u * w
    BY <1>12, <2>1, ProductOrder
  <2>3. (x1 * y1) * s * s = u * w /\ (x * y) * s * s = v * w
    BY <2>1
  <2> QED
    BY <2>2, <2>3
<1>15. KeepsWorth(cpmm, cpmm')
  BY <1>3, <1>10, <1>13, <1>14 DEF KeepsWorth
<1> QED
  BY <1>11, <1>15

LEMMA CpmmStep == ASSUME CpmmInv, CpmmNext PROVE CpmmInv' /\ KeepsWorth(cpmm, cpmm')
  BY CpmmAdds, CpmmRemoves, CpmmSwaps DEF CpmmNext

LEMMA CpmmInitInv == CpmmInit => CpmmInv
<1> SUFFICES ASSUME CpmmInit PROVE CpmmInv
  OBVIOUS
<1>1. cpmm.shares \in [Providers -> Nat] /\ \A p \in Providers : cpmm.shares[p] = 0
  BY DEF CpmmInit
<1>2. cpmm \in CpmmStates /\ cpmm.totalShares = 0
  BY DEF CpmmInit, CpmmStates
<1>3. Total(cpmm.shares) = 0
  <2>1. DOMAIN cpmm.shares = Providers /\ IsFiniteSet(Providers)
    BY <1>1, CpmmAssumption
  <2>2. SumOver(cpmm.shares, Providers) = 0
    BY <1>1, <2>1, SumZero
  <2> QED
    BY <2>1, <2>2 DEF Total
<1> QED
  BY <1>2, <1>3 DEF CpmmInv

\* No call on the constant-product pool makes the shares of others worth less: the
\* rounding of add_liquidity, remove_liquidity and swap always favours the pool.
THEOREM PoolSharesKeepTheirWorth == CpmmSpec => SharesKeepTheirWorth
<1>1. CpmmInv /\ [CpmmNext]_<<now, cpmm>> => CpmmInv'
  BY CpmmStep DEF CpmmInv
<1>2. CpmmInv /\ [CpmmNext]_<<now, cpmm>> => [KeepsWorth(cpmm, cpmm')]_cpmm
  BY CpmmStep
<1>3. [][KeepsWorth(cpmm, cpmm')]_cpmm => SharesKeepTheirWorth
  BY DEF KeepsWorth, SharesKeepTheirWorth
<1> QED
  BY <1>1, <1>2, <1>3, CpmmInitInv, PTL DEF CpmmSpec

-----------------------------------------------------------------------------
(* The contracts side by side.                                                 *)

\* A call is one contract's: each of them takes a step of its own or rests.
LEMMA OneIsCalled ==
  ASSUME [ContractsNext]_contracts
  PROVE  /\ [Next]_vars
         /\ BackstopNext \/ UNCHANGED backstop
         /\ StakingNext \/ UNCHANGED staking
         /\ FarmNext \/ UNCHANGED farm
         /\ StrategyVaultNext \/ UNCHANGED strategyVault
         /\ UsdcVaultNext \/ UNCHANGED usdcVault
         /\ WpiNext \/ UNCHANGED wpi
         /\ LpNext \/ UNCHANGED lp
         /\ CpmmNext \/ UNCHANGED cpmm
         /\ FactoryNext \/ UNCHANGED factory
         /\ RouterNext \/ UNCHANGED router
         /\ CatalogNext \/ UNCHANGED catalog
         /\ FeesNext \/ UNCHANGED fees
         /\ OracleNext \/ UNCHANGED feed
<1>1. CASE CallsEscrow(Next)
  BY <1>1 DEF CallsEscrow, others, custody, vaults, tokens, exchange, services
<1>2. CASE CallsCustody /\ UNCHANGED <<system, vars, vaults, tokens, exchange, services>>
  BY <1>2 DEF CallsCustody, vaults, tokens, exchange, services
<1>3. CASE CallsVaults /\ UNCHANGED <<system, vars, custody, tokens, exchange, services>>
  BY <1>3 DEF CallsVaults, custody, tokens, exchange, services
<1>4. CASE CallsTokens /\ UNCHANGED <<system, vars, custody, vaults, exchange, services>>
  BY <1>4 DEF CallsTokens, custody, vaults, exchange, services
<1>5. CASE CallsExchange /\ UNCHANGED <<system, vars, custody, vaults, tokens, services>>
  BY <1>5 DEF CallsExchange, custody, vaults, tokens, services
<1>6. CASE CallsServices /\ UNCHANGED <<system, vars, custody, vaults, tokens, exchange>>
  BY <1>6 DEF CallsServices, custody, vaults, tokens, exchange
<1>7. CASE UNCHANGED contracts
  BY <1>7 DEF contracts, others, custody, vaults, tokens, exchange, services
<1> QED
  BY <1>1, <1>2, <1>3, <1>4, <1>5, <1>6, <1>7 DEF ContractsNext

\* The escrow manager is not disturbed by the others: seen alone, it behaves as
\* its own specification says.
THEOREM EscrowAmongOthers == ContractsSpec => Spec
<1>1. ContractsInit => Init
  BY DEF ContractsInit
<1>2. [ContractsNext]_contracts => [Next]_vars
  BY OneIsCalled
<1> QED
  BY <1>1, <1>2, PTL DEF ContractsSpec, Spec

\* What the contracts that issue shares or tokens need.
IssuersInv == VaultInv /\ UsdcInv /\ WpiInv /\ LpInv /\ RouterInv

LEMMA IssuersStep ==
  ASSUME IssuersInv, [ContractsNext]_contracts PROVE IssuersInv'
<1>1. /\ StrategyVaultNext \/ UNCHANGED strategyVault
      /\ UsdcVaultNext \/ UNCHANGED usdcVault
      /\ WpiNext \/ UNCHANGED wpi
      /\ LpNext \/ UNCHANGED lp
      /\ FeesNext \/ UNCHANGED fees
  BY OneIsCalled
<1>2. VaultInv /\ UsdcInv /\ WpiInv /\ LpInv /\ RouterInv
  BY DEF IssuersInv
<1>3. VaultInv'
  BY <1>1, <1>2, VaultStep DEF VaultInv
<1>4. UsdcInv'
  BY <1>1, <1>2, UsdcStep DEF UsdcInv, UsdcBooks
<1>5. WpiInv'
  BY <1>1, <1>2, WpiStep DEF WpiInv, WpiSupply
<1>6. LpInv'
  BY <1>1, <1>2, LpStep DEF LpInv, LpSupply
<1>7. RouterInv'
  BY <1>1, <1>2, RouterStep DEF RouterInv, AddsUp
<1> QED
  BY <1>3, <1>4, <1>5, <1>6, <1>7 DEF IssuersInv

\* Whatever the vaults' users, the token holders and the fee router's callers do,
\* and in whatever order: the strategy vault can pay every share; every unit
\* deposited in the USDC vault is held, released or taken by its admin; the
\* balances of the LP token add up to its supply, those of wPI to its supply and
\* what holders sent to themselves; and a fee is split without loss.
THEOREM AmountsStayAccountedFor == ContractsSpec => []AmountsAccountedFor
<1>1. ContractsInit => IssuersInv
  BY VaultInitInv, UsdcInitInv, WpiInitInv, LpInitInv, RouterInitInv
    DEF ContractsInit, IssuersInv
<1>2. IssuersInv /\ [ContractsNext]_contracts => IssuersInv'
  BY IssuersStep
<1>3. IssuersInv => AmountsAccountedFor
  BY VaultRedeems, RouterSplits DEF IssuersInv, AmountsAccountedFor, UsdcInv, WpiInv, LpInv
<1> QED
  BY <1>1, <1>2, <1>3, PTL DEF ContractsSpec

\* No call changes the ledger number; only the closing of a ledger does.
LEMMA TimePasses ==
  ASSUME [ContractsNext]_contracts
  PROVE  UNCHANGED now \/ LedgerCloses
<1>1. CASE CallsCustody
  <2>1. BackstopNext => UNCHANGED now \/ LedgerCloses
    BY DEF BackstopNext, DepositToBackstop, WithdrawFromBackstop, ClaimFromBackstop,
      RequestClaim, AbsorbBadDebt, PauseBackstop
  <2>2. StakingNext => UNCHANGED now
    BY DEF StakingNext, RegisterNode, AddStake, Unstake, Slash, ClaimRewards,
      DistributeRewards
  <2>3. FarmNext => UNCHANGED now \/ LedgerCloses
    BY DEF FarmNext, StakeInFarm, UnstakeFromFarm, ClaimFromFarm, SetRewardPerLedger,
      FundFarm
  <2> QED
    BY <1>1, <2>1, <2>2, <2>3 DEF CallsCustody
<1>2. CASE CallsVaults
  BY <1>2 DEF CallsVaults, StrategyVaultNext, SetStrategy, SetDepositCap,
    PauseStrategyVault, DepositToVault, WithdrawFromVault, UsdcVaultNext, DepositUsdc,
    ReleaseUsdc, AdminWithdrawUsdc, SetReserveMinimum, PauseUsdcVault, SetUsdcAdmin
<1>3. CASE CallsTokens
  BY <1>3 DEF CallsTokens, WpiNext, TransferWpi, TransferWpiFrom, ApproveWpi, MintWpi,
    BurnWpi, SetWpiAdmin, PauseWpi, LpNext, TransferLp, TransferLpFrom, ApproveLp, MintLp,
    BurnLp, PauseLp
<1>4. CASE CallsExchange
  <2>1. CpmmNext => UNCHANGED now
    BY DEF CpmmNext, AddLiquidity, RemoveLiquidity, Swap
  <2>2. StableNext => UNCHANGED now
    BY DEF StableNext, AddStableLiquidity, RemoveStableLiquidity, StableSwap, SetStableFee
  <2>3. FactoryNext => UNCHANGED now
    BY DEF FactoryNext, CreatePool, RegisterPool, RemovePool, ReactivatePool
  <2>4. RouterNext => UNCHANGED now
    BY DEF RouterNext, RegisterRoute
  <2> QED
    BY <1>4, <2>1, <2>2, <2>3, <2>4 DEF CallsExchange
<1>5. CASE CallsServices
  BY <1>5 DEF CallsServices, CatalogNext, CreateEscrowInstance, RegisterEscrow,
    RemoveEscrow, FeesNext, SetFeeConfig, RouteFees, SetFeeAdmin, OracleNext, CommitPrice,
    SetPrice, SetMaxAge, SetBreakerThreshold, SetOracleAdmin
<1>6. CASE UNCHANGED now
  BY <1>6
<1> QED
  BY <1>1, <1>2, <1>3, <1>4, <1>5, <1>6 DEF ContractsNext, CallsEscrow, contracts

\* What the contracts that keep deposits need.
CustodyInv == BackstopInv /\ StakingInv /\ FarmInv

LEMMA CustodyStep ==
  ASSUME CustodyInv, [ContractsNext]_contracts PROVE CustodyInv'
<1>1. /\ BackstopNext \/ UNCHANGED backstop
      /\ StakingNext \/ UNCHANGED staking
      /\ FarmNext \/ UNCHANGED farm
  BY OneIsCalled
<1>2. BackstopInv /\ StakingInv /\ FarmInv
  BY DEF CustodyInv
<1>3. now \in Nat /\ now' \in Nat /\ now <= now'
  <2>1. now \in Nat
    BY <1>2 DEF BackstopInv
  <2> QED
    BY <2>1, TimePasses DEF LedgerCloses
<1>4. BackstopInv'
  BY <1>1, <1>2, <1>3, BackstopStep DEF BackstopInv
<1>5. StakingInv'
  BY <1>1, <1>2, StakingStep DEF StakingInv, StakingBooks
<1>6. FarmInv'
  <2>1. ASSUME UNCHANGED farm PROVE FarmInv'
    <3>1. FarmGood(farm)'
      BY <1>2, <2>1
        DEF FarmInv, FarmGood, FarmStates, Staked, Pendings, Pending, Earned, Emission
    <3>2. farm.lastLedger \in Nat /\ farm.lastLedger <= now
      BY <1>2 DEF FarmInv, FarmGood, FarmStates
    <3> QED
      BY <1>3, <2>1, <3>1, <3>2 DEF FarmInv
  <2> QED
    BY <1>1, <1>2, <2>1, FarmStep
<1> QED
  BY <1>4, <1>5, <1>6 DEF CustodyInv

\* The books of the backstop, of node staking and of the farm hold among the
\* others as they do alone.
THEOREM CustodyBooksHold ==
  ContractsSpec => [](BackstopBooks /\ StakingBooks /\ RewardsWithinEmission)
<1>1. ContractsInit => CustodyInv
  BY BackstopInitInv, StakingInitInv, FarmInitInv DEF ContractsInit, CustodyInv
<1>2. CustodyInv /\ [ContractsNext]_contracts => CustodyInv'
  BY CustodyStep
<1>3. CustodyInv => BackstopBooks /\ StakingBooks /\ RewardsWithinEmission
  BY BackstopPays, FarmEmits DEF CustodyInv, StakingInv
<1> QED
  BY <1>1, <1>2, <1>3, PTL DEF ContractsSpec

\* What the contracts that others ask need.
AnswersInv == FactoryInv /\ PathsInv /\ CatalogInv /\ FeedInv

LEMMA AnswersStep ==
  ASSUME AnswersInv, [ContractsNext]_contracts PROVE AnswersInv'
<1>1. /\ FactoryNext \/ UNCHANGED factory
      /\ RouterNext \/ UNCHANGED router
      /\ CatalogNext \/ UNCHANGED catalog
      /\ OracleNext \/ UNCHANGED feed
  BY OneIsCalled
<1>2. FactoryInv /\ PathsInv /\ CatalogInv /\ FeedInv
  BY DEF AnswersInv
<1>3. FactoryInv'
  BY <1>1, <1>2, FactoryStep DEF FactoryInv
<1>4. PathsInv'
  BY <1>1, <1>2, PathsStep DEF PathsInv
<1>5. CatalogInv'
  BY <1>1, <1>2, CatalogStep DEF CatalogInv
<1>6. FeedInv'
  BY <1>1, <1>2, TimePasses, FeedStep, FeedRests DEF LedgerCloses
<1> QED
  BY <1>3, <1>4, <1>5, <1>6 DEF AnswersInv

\* Whatever is created, registered, removed and reported, and in whatever order:
\* the pool factory finds the one pool of a pair, the router a path of at most two
\* pools if there is one, the escrow factory has every escrow it deployed, and the
\* oracle's breaker trips on the prices that deviate.
THEOREM AnswersAreAlwaysRight == ContractsSpec => []AnswersAreRight
<1>1. ContractsInit => AnswersInv
  BY FactoryInitInv, PathsInitInv, CatalogInitInv, FeedInitInv DEF ContractsInit, AnswersInv
<1>2. AnswersInv /\ [ContractsNext]_contracts => AnswersInv'
  BY AnswersStep
<1>3. AnswersInv => AnswersAreRight
  BY FactoryAnswers, PathsRight, CatalogAnswers, FeedAnswers DEF AnswersInv, AnswersAreRight
<1> QED
  BY <1>1, <1>2, <1>3, PTL DEF ContractsSpec

\* The constant-product pool's shares keep their worth among the others too.
THEOREM PoolSharesKeepTheirWorthAmongOthers == ContractsSpec => SharesKeepTheirWorth
<1>1. ContractsInit => CpmmInv
  BY CpmmInitInv DEF ContractsInit
<1>2. CpmmInv /\ [ContractsNext]_contracts => CpmmInv'
  BY OneIsCalled, CpmmStep DEF CpmmInv
<1>3. CpmmInv /\ [ContractsNext]_contracts => [KeepsWorth(cpmm, cpmm')]_cpmm
  BY OneIsCalled, CpmmStep
<1>4. [][KeepsWorth(cpmm, cpmm')]_cpmm => SharesKeepTheirWorth
  BY DEF KeepsWorth, SharesKeepTheirWorth
<1> QED
  BY <1>1, <1>2, <1>3, <1>4, PTL DEF ContractsSpec
=============================================================================
