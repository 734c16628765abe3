------------------------------ MODULE WpiToken ------------------------------
(***************************************************************************)
(* The wPI token: balances, allowances, and an admin that mints and burns. *)
(* transfer_internal reads both balances before it writes either, so that  *)
(* a transfer to oneself adds the amount to the balance.                   *)
(*                                                                         *)
(* An action is a call, signed by the role it names, that succeeds.        *)
(***************************************************************************)
EXTENDS SorobanHost

CONSTANTS
  WpiHolders,
  WpiAmounts,   \* amounts that callers pass
  WpiAdmins,
  FirstWpiAdmin,
  MaxWpi        \* bound on the supply, and on what holders send to themselves

ASSUME WpiAssumption ==
  /\ IsFiniteSet(WpiHolders) /\ WpiAmounts \subseteq Int
  /\ FirstWpiAdmin \in WpiAdmins /\ MaxWpi \in Nat

VARIABLE wpi  \* the contract's storage, and a history

WpiInit ==
  wpi =
    [admin |-> FirstWpiAdmin, paused |-> FALSE, supply |-> 0,
     balance |-> [h \in WpiHolders |-> 0],
     allowance |-> [h \in WpiHolders |-> [s \in WpiHolders |-> 0]],
     selfSent |-> 0]  \* history: sent by holders to themselves

\* transfer_internal: the balance of "to" as it was before the call is written
\* last.
WpiMoved(x, from, to, amount) ==
  [x EXCEPT
     !.balance = [x.balance EXCEPT ![from] = @ - amount, ![to] = x.balance[to] + amount],
     !.selfSent = IF from = to THEN @ + amount ELSE @]

CanMoveWpi(from, to, amount) ==
  /\ ~wpi.paused
  /\ 0 <= amount /\ amount <= wpi.balance[from]
  /\ from = to => wpi.selfSent + amount <= MaxWpi

TransferWpi(from, to, amount) ==
  /\ CanMoveWpi(from, to, amount)
  /\ wpi' = WpiMoved(wpi, from, to, amount)
  /\ UNCHANGED now

TransferWpiFrom(spender, from, to, amount) ==
  /\ amount <= wpi.allowance[from][spender]
  /\ CanMoveWpi(from, to, amount)
  /\ wpi' = WpiMoved([wpi EXCEPT !.allowance[from][spender] = @ - amount], from, to, amount)
  /\ UNCHANGED now

\* The amount's sign is not looked at: an allowance may be negative.
ApproveWpi(owner, spender, amount) ==
  /\ ~wpi.paused
  /\ wpi' = [wpi EXCEPT !.allowance[owner][spender] = amount]
  /\ UNCHANGED now

\* mint and burn do not look at the pause.
MintWpi(admin, to, amount) ==
  /\ admin = wpi.admin /\ amount > 0
  /\ wpi.supply + amount <= MaxWpi
  /\ wpi' = [wpi EXCEPT !.balance[to] = @ + amount, !.supply = @ + amount]
  /\ UNCHANGED now

BurnWpi(admin, from, amount) ==
  /\ admin = wpi.admin /\ amount > 0
  /\ wpi.balance[from] >= amount
  /\ wpi' = [wpi EXCEPT !.balance[from] = @ - amount, !.supply = @ - amount]
  /\ UNCHANGED now

SetWpiAdmin(admin, new) ==
  /\ admin = wpi.admin
  /\ wpi' = [wpi EXCEPT !.admin = new]
  /\ UNCHANGED now

PauseWpi(admin, p) ==
  /\ admin = wpi.admin
  /\ wpi' = [wpi EXCEPT !.paused = p]
  /\ UNCHANGED now

WpiNext ==
  \/ \E from, to \in WpiHolders, a \in WpiAmounts :
       \/ TransferWpi(from, to, a)
       \/ \E s \in WpiHolders : TransferWpiFrom(s, from, to, a)
       \/ ApproveWpi(from, to, a)
  \/ \E admin \in WpiAdmins :
       \/ \E h \in WpiHolders, a \in WpiAmounts : MintWpi(admin, h, a) \/ BurnWpi(admin, h, a)
       \/ \E new \in WpiAdmins : SetWpiAdmin(admin, new)
       \/ \E p \in BOOLEAN : PauseWpi(admin, p)

WpiSpec == HostInit /\ WpiInit /\ [][WpiNext]_<<now, wpi>>

-----------------------------------------------------------------------------
(* Properties.                                                             *)

\* No balance is negative, and the balances add up to the supply and what was
\* sent by holders to themselves.  Such a transfer creates tokens that total_supply
\* does not count (transfer_internal); no other call parts the two.
WpiSupply ==
  /\ \A h \in WpiHolders : wpi.balance[h] >= 0
  /\ Total(wpi.balance) = wpi.supply + wpi.selfSent
=============================================================================
