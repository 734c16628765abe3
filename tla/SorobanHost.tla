---------------------------- MODULE SorobanHost ----------------------------
(***************************************************************************)
(* What the contracts take from their host: the ledger sequence number,    *)
(* and the rule of the token contract they call.  A transfer of a negative *)
(* amount, or of more than the payer holds, traps, and a call that traps   *)
(* changes nothing: an action whose transfer traps has no step.            *)
(***************************************************************************)
EXTENDS Integers, FiniteSets, FiniteSetsExt, Functions, Sums

CONSTANT MaxNow  \* bound on the ledger sequence number

ASSUME HostAssumption == MaxNow \in Nat

VARIABLE now     \* env.ledger().sequence(), counted from the deployment

HostInit == now = 0

LedgerCloses == now < MaxNow /\ now' = now + 1

\* A token account that holds "held" can pay this amount.
CanPay(held, amount) == 0 <= amount /\ amount <= held
=============================================================================
