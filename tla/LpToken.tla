------------------------------ MODULE LpToken ------------------------------
(***************************************************************************)
(* The LP token: balances, allowances, and an admin that mints and burns.  *)
(* A transfer reads the balance of the receiver after it has written that  *)
(* of the sender, so that a transfer to oneself changes nothing.           *)
(*                                                                         *)
(* An action is a call, signed by the role it names, that succeeds.  There *)
(* is no call that changes the admin.                                      *)
(***************************************************************************)
EXTENDS SorobanHost

CONSTANTS
  LpHolders,
  LpAmounts,   \* amounts that callers pass
  MaxLp        \* bound on the supply

ASSUME LpAssumption ==
  IsFiniteSet(LpHolders) /\ LpAmounts \subseteq Int /\ MaxLp \in Nat

VARIABLE lp  \* the contract's storage

LpInit ==
  lp =
    [paused |-> FALSE, supply |-> 0,
     balance |-> [h \in LpHolders |-> 0],
     allowance |-> [h \in LpHolders |-> [s \in LpHolders |-> 0]]]

\* Fault: the balance of the receiver is read before the sender's is written.
LpMovedStale(balance, from, to, amount) ==
  [[balance EXCEPT ![from] = @ - amount] EXCEPT ![to] = balance[to] + amount]

LpMoved(balance, from, to, amount) ==
  [[balance EXCEPT ![from] = @ - amount] EXCEPT ![to] = @ + amount]

CanMoveLp(from, amount) == ~lp.paused /\ amount > 0 /\ lp.balance[from] >= amount

TransferLp(from, to, amount) ==
  /\ CanMoveLp(from, amount)
  /\ lp' = [lp EXCEPT !.balance = LpMoved(@, from, to, amount)]
  /\ UNCHANGED now

TransferLpFrom(spender, from, to, amount) ==
  /\ CanMoveLp(from, amount)
  /\ lp.allowance[from][spender] >= amount
  /\ lp' = [lp EXCEPT
       !.allowance[from][spender] = @ - amount,
       !.balance = LpMoved(@, from, to, amount)]
  /\ UNCHANGED now

\* The amount's sign is not looked at.
ApproveLp(owner, spender, amount) ==
  /\ ~lp.paused
  /\ lp' = [lp EXCEPT !.allowance[owner][spender] = amount]
  /\ UNCHANGED now

\* mint and burn do not look at the pause.
MintLp(to, amount) ==
  /\ amount > 0 /\ lp.supply + amount <= MaxLp
  /\ lp' = [lp EXCEPT !.balance[to] = @ + amount, !.supply = @ + amount]
  /\ UNCHANGED now

BurnLp(from, amount) ==
  /\ amount > 0 /\ lp.balance[from] >= amount
  /\ lp' = [lp EXCEPT !.balance[from] = @ - amount, !.supply = @ - amount]
  /\ UNCHANGED now

PauseLp(p) ==
  /\ lp' = [lp EXCEPT !.paused = p]
  /\ UNCHANGED now

LpNext ==
  \/ \E from, to \in LpHolders, a \in LpAmounts :
       \/ TransferLp(from, to, a)
       \/ \E s \in LpHolders : TransferLpFrom(s, from, to, a)
       \/ ApproveLp(from, to, a)
  \/ \E h \in LpHolders, a \in LpAmounts : MintLp(h, a) \/ BurnLp(h, a)
  \/ \E p \in BOOLEAN : PauseLp(p)

LpSpec == HostInit /\ LpInit /\ [][LpNext]_<<now, lp>>

-----------------------------------------------------------------------------
(* Properties.                                                             *)

\* No balance is negative and the balances add up to the supply, whatever is
\* sent, also by a holder to itself or by a spender to the owner.
LpSupply ==
  /\ \A h \in LpHolders : lp.balance[h] >= 0
  /\ Total(lp.balance) = lp.supply
=============================================================================
