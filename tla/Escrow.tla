------------------------------- MODULE Escrow -------------------------------
(***************************************************************************)
(* The escrow manager: milestone escrows of one asset in one contract.     *)
(* A funder deposits, the receiver submits milestones, each milestone's    *)
(* approver accepts or rejects it, the money of accepted milestones is     *)
(* released to the receiver, and what remains can be refunded after the    *)
(* deadline.  Either party may dispute, and an arbitrator then decides.    *)
(*                                                                         *)
(* The contract checks the signature of the role that each call names;     *)
(* an action here is a call with that signature that succeeds.  A call     *)
(* that fails changes nothing.  Milestone amounts are any integers: the    *)
(* contract does not look at their sign.                                   *)
(***************************************************************************)
EXTENDS Integers, Sequences, FiniteSets, FiniteSetsExt, Sums

CONSTANTS
  Admins,      \* addresses that may administer the contract
  Plans,       \* milestone amounts that an escrow may be created with
  Amounts,     \* amounts that are deposited
  MaxEscrows,  \* bound on the number of escrows
  MaxDeposit,  \* bound on the deposits of one escrow
  MaxLedger    \* bound on the ledger sequence

ASSUME EscrowAssumption ==
  /\ Plans \subseteq Seq(Int) \ {<<>>}
  /\ Amounts \subseteq Nat \ {0}
  /\ MaxEscrows \in Nat /\ MaxDeposit \in Nat /\ MaxLedger \in Nat

VARIABLES
  ledger,  \* the ledger sequence
  admin,   \* DataKey::Admin
  paused,  \* DataKey::Paused
  count,   \* DataKey::EscrowCount
  escrow,  \* DataKey::EscrowState of each id
  vault,   \* tokens that the contract holds
  paid,    \* history: what the receiver and the funder of each escrow were paid
  ruled    \* history: escrows that an arbitrator has resolved

settings == <<admin, paused>>
vars == <<ledger, settings, count, escrow, vault, paid, ruled>>

Ids == 0 .. MaxEscrows - 1

MilestoneStatuses == {"Pending", "Submitted", "Approved", "Rejected"}

NoEscrow ==
  [status |-> "None", plan |-> <<>>, milestones |-> <<>>, deadline |-> 0,
   deposited |-> 0, released |-> 0, completed |-> 0]

EscrowStates ==
  [status : {"None", "Active", "Completed", "Refunded", "Disputed"},
   plan : Plans \union {<<>>}, milestones : Seq(MilestoneStatuses),
   deadline : 0 .. MaxLedger, deposited : 0 .. MaxDeposit, released : Int, completed : Nat]

TypeOK ==
  /\ ledger \in 0 .. MaxLedger
  /\ admin \in Admins
  /\ paused \in BOOLEAN
  /\ count \in 0 .. MaxEscrows
  /\ escrow \in [Ids -> EscrowStates]
  /\ \A e \in Ids :
       /\ Len(escrow[e].milestones) = Len(escrow[e].plan)
       /\ escrow[e].completed <= Len(escrow[e].plan)
  /\ vault \in Int
  /\ paid \in [Ids -> [receiver : Int, funder : Int]]
  /\ ruled \subseteq Ids

Init ==
  /\ ledger = 0
  /\ admin \in Admins
  /\ paused = FALSE
  /\ count = 0
  /\ escrow = [e \in Ids |-> NoEscrow]
  /\ vault = 0
  /\ paid = [e \in Ids |-> [receiver |-> 0, funder |-> 0]]
  /\ ruled = {}

-----------------------------------------------------------------------------
(* What an escrow owes.                                                    *)

\* Fault: the refund forgets what was released.
RemainingGross(x) == x.deposited

Remaining(x) == x.deposited - x.released

Approved(milestones) == {i \in DOMAIN milestones : milestones[i] = "Approved"}

\* What the approved milestones of a plan are worth.
Worth(plan, milestones) == SumOver(plan, Approved(milestones))

ApprovedAmount(x) == Worth(x.plan, x.milestones)

\* Fault: the release forgets what was released before.
DueGross(x) == ApprovedAmount(x)

\* release_amount in release_funds.
Due(x) == ApprovedAmount(x) - x.released

\* Fault: an escrow is complete one milestone early.
AllCompletedEarly(x) == x.completed + 1 >= Len(x.plan)

AllCompleted(x) == x.completed = Len(x.plan)

AllRejected(x) == \A i \in DOMAIN x.plan : x.milestones[i] = "Rejected"

\* Fault: one rejected milestone is enough.
RefundableEarly(x) == (\E i \in DOMAIN x.plan : x.milestones[i] = "Rejected") \/ ledger >= x.deadline

\* Fault: the deadline does not help the funder.
RefundableNever(x) == AllRejected(x)

Refundable(x) == AllRejected(x) \/ ledger >= x.deadline

Funded(x, amount) == [x EXCEPT !.deposited = @ + amount]

\* Fault: a milestone is approved whatever came of it before.
AnswerableAgain(x, i) == x.milestones[i] # "Pending"

\* approve_milestone and reject_milestone: only what was submitted.
Answerable(x, i) == x.milestones[i] = "Submitted"

-----------------------------------------------------------------------------
(* The calls.                                                              *)

Active(e) == ~paused /\ escrow[e].status = "Active"

CreateEscrow(plan, deadline) ==
  /\ ~paused
  /\ count < MaxEscrows
  /\ deadline > ledger
  /\ count' = count + 1
  /\ escrow' = [escrow EXCEPT ![count] =
       [NoEscrow EXCEPT !.status = "Active", !.plan = plan, !.deadline = deadline,
          !.milestones = [i \in DOMAIN plan |-> "Pending"]]]
  /\ UNCHANGED <<ledger, settings, vault, paid, ruled>>

FundEscrow(e, amount) ==
  /\ Active(e)
  /\ escrow[e].deposited + amount <= MaxDeposit
  /\ escrow' = [escrow EXCEPT ![e] = Funded(@, amount)]
  /\ vault' = vault + amount
  /\ UNCHANGED <<ledger, settings, count, paid, ruled>>

SubmitMilestone(e, i) ==
  /\ Active(e)
  /\ i \in DOMAIN escrow[e].plan
  /\ escrow[e].milestones[i] = "Pending"
  /\ escrow' = [escrow EXCEPT ![e].milestones[i] = "Submitted"]
  /\ UNCHANGED <<ledger, settings, count, vault, paid, ruled>>

ApproveMilestone(e, i) ==
  /\ Active(e)
  /\ i \in DOMAIN escrow[e].plan
  /\ Answerable(escrow[e], i)
  /\ escrow' = [escrow EXCEPT ![e].milestones[i] = "Approved", ![e].completed = @ + 1]
  /\ UNCHANGED <<ledger, settings, count, vault, paid, ruled>>

RejectMilestone(e, i) ==
  /\ Active(e)
  /\ i \in DOMAIN escrow[e].plan
  /\ Answerable(escrow[e], i)
  /\ escrow' = [escrow EXCEPT ![e].milestones[i] = "Rejected"]
  /\ UNCHANGED <<ledger, settings, count, vault, paid, ruled>>

\* The asset's transfer fails when the contract does not hold the amount.
PayOut(amount) == vault >= amount /\ vault' = vault - amount

ReleaseFunds(e) ==
  LET due == Due(escrow[e])
  IN /\ Active(e)
     /\ due > 0
     /\ due <= escrow[e].deposited - escrow[e].released
     /\ escrow' = [escrow EXCEPT
          ![e].released = @ + due,
          ![e].status = IF AllCompleted(escrow[e]) THEN "Completed" ELSE @]
     /\ PayOut(due)
     /\ paid' = [paid EXCEPT ![e].receiver = @ + due]
     /\ UNCHANGED <<ledger, settings, count, ruled>>

Refund(e) ==
  LET remaining == Remaining(escrow[e])
  IN /\ Active(e)
     /\ remaining > 0
     /\ Refundable(escrow[e])
     /\ escrow' = [escrow EXCEPT ![e].released = @ + remaining, ![e].status = "Refunded"]
     /\ PayOut(remaining)
     /\ paid' = [paid EXCEPT ![e].funder = @ + remaining]
     /\ UNCHANGED <<ledger, settings, count, ruled>>

\* The funder or the receiver disputes.
Dispute(e) ==
  /\ Active(e)
  /\ escrow' = [escrow EXCEPT ![e].status = "Disputed"]
  /\ UNCHANGED <<ledger, settings, count, vault, paid, ruled>>

\* The arbitrator gives all that remains to one of the parties.
Resolve(e, party) ==
  LET remaining == Remaining(escrow[e])
  IN /\ ~paused
     /\ escrow[e].status = "Disputed"
     /\ remaining > 0
     /\ escrow' = [escrow EXCEPT
          ![e].released = @ + remaining,
          ![e].status = IF party = "receiver" THEN "Completed" ELSE "Refunded"]
     /\ PayOut(remaining)
     /\ paid' = [paid EXCEPT ![e][party] = @ + remaining]
     /\ ruled' = ruled \union {e}
     /\ UNCHANGED <<ledger, settings, count>>

SetPaused(caller, value) ==
  /\ caller = admin
  /\ paused' = value
  /\ UNCHANGED <<ledger, admin, count, escrow, vault, paid, ruled>>

SetAdmin(caller, successor) ==
  /\ caller = admin
  /\ admin' = successor
  /\ UNCHANGED <<ledger, paused, count, escrow, vault, paid, ruled>>

CloseLedger ==
  /\ ledger < MaxLedger
  /\ ledger' = ledger + 1
  /\ UNCHANGED <<settings, count, escrow, vault, paid, ruled>>

Parties == {"receiver", "funder"}

Milestones == UNION {DOMAIN plan : plan \in Plans}

Next ==
  \/ \E plan \in Plans, deadline \in 0 .. MaxLedger : CreateEscrow(plan, deadline)
  \/ \E e \in Ids, amount \in Amounts : FundEscrow(e, amount)
  \/ \E e \in Ids, i \in Milestones : SubmitMilestone(e, i)
  \/ \E e \in Ids, i \in Milestones : ApproveMilestone(e, i)
  \/ \E e \in Ids, i \in Milestones : RejectMilestone(e, i)
  \/ \E e \in Ids : ReleaseFunds(e)
  \/ \E e \in Ids : Refund(e)
  \/ \E e \in Ids : Dispute(e)
  \/ \E e \in Ids, party \in Parties : Resolve(e, party)
  \/ \E caller \in Admins, value \in BOOLEAN : SetPaused(caller, value)
  \/ \E caller, successor \in Admins : SetAdmin(caller, successor)
  \/ CloseLedger

Spec == Init /\ [][Next]_vars

-----------------------------------------------------------------------------
(* Properties.                                                             *)

Unpaid == [e \in Ids |-> escrow[e].deposited - escrow[e].released]

\* The contract holds exactly what its escrows have not paid out: no escrow
\* is paid with the deposits of another, although all of them share the
\* contract's balance (fund_escrow, release_funds, refund, resolve).
VaultHoldsRemaining == vault = Total(Unpaid)

\* An escrow pays no more than was deposited in it, and everything that it
\* books as released has reached one of its two parties.
PaysItsDeposits ==
  \A e \in Ids :
    /\ escrow[e].released = paid[e].receiver + paid[e].funder
    /\ escrow[e].released <= escrow[e].deposited

NoDebts(plan) == \A i \in DOMAIN plan : plan[i] >= 0

\* Without a ruling, a receiver is never paid more than the approved
\* milestones are worth, however releases and approvals interleave.  A plan
\* with a negative milestone is excepted: approving that one later lowers
\* the worth of what was already released (release_funds).
ReceiverEarned ==
  \A e \in Ids \ ruled :
    NoDebts(escrow[e].plan) => paid[e].receiver <= ApprovedAmount(escrow[e])

\* Nobody is paid out of another's money: escrows do not share deposits and a
\* receiver gets no more than the approved work (fund_escrow, release_funds,
\* refund, resolve).
MoneyAddsUp == VaultHoldsRemaining /\ ReceiverEarned

\* Without a ruling, money goes back to the funder only after the deadline or
\* when every milestone was rejected, and then all of it (refund).
RefundJustified ==
  \A e \in Ids \ ruled :
    paid[e].funder > 0 =>
      /\ AllRejected(escrow[e]) \/ ledger >= escrow[e].deadline
      /\ escrow[e].status = "Refunded"
      /\ escrow[e].released = escrow[e].deposited

\* Without a ruling, an escrow is completed only when every milestone was
\* approved and the receiver was paid for all of them: milestones_completed,
\* which decides it, is kept apart from the statuses it counts.
CompletedIsEarned ==
  \A e \in Ids \ ruled :
    escrow[e].status = "Completed" =>
      /\ \A i \in DOMAIN escrow[e].plan : escrow[e].milestones[i] = "Approved"
      /\ paid[e].receiver = ApprovedAmount(escrow[e])

\* A deposit is not locked for ever: after the deadline it reaches one of the
\* parties, unless a dispute or a pause holds it, or the escrow is completed
\* with more than its milestones were worth (refund).
DepositsComeBack ==
  \A e \in Ids :
    (escrow[e].status = "Active" /\ Remaining(escrow[e]) > 0 /\ ledger >= escrow[e].deadline)
      ~> (escrow[e].status # "Active" \/ Remaining(escrow[e]) = 0 \/ paused)
=============================================================================
