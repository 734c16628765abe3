----------------------------- MODULE UsdcVault -----------------------------
(***************************************************************************)
(* The USDC side of the bridge to Stellar: users deposit USDC, the admin   *)
(* releases it to those who redeem, or withdraws it, and neither leaves    *)
(* the vault with less than the reserve minimum, which is read from and    *)
(* compared with the token account itself.                                 *)
(*                                                                         *)
(* An action is a call, signed by the role it names, that succeeds.  What  *)
(* each user deposited is only ever added to: no call reduces it.          *)
(***************************************************************************)
EXTENDS SorobanHost

CONSTANTS
  UsdcUsers,
  UsdcAmounts,  \* amounts that callers pass
  Minimums,     \* reserve minimums that the admin sets
  UsdcAdmins,
  FirstUsdcAdmin,
  MaxUsdc       \* bound on the deposits

ASSUME UsdcAssumption ==
  /\ IsFiniteSet(UsdcUsers) /\ UsdcAmounts \subseteq Int /\ Minimums \subseteq Int
  /\ FirstUsdcAdmin \in UsdcAdmins /\ MaxUsdc \in Nat

VARIABLE usdcVault  \* the contract's storage, its token account and a history

UsdcVaultInit ==
  usdcVault =
    [admin |-> FirstUsdcAdmin, paused |-> FALSE, reserve |-> 0,
     deposits |-> [u \in UsdcUsers |-> 0],
     totalDeposited |-> 0, totalReleased |-> 0,
     vault |-> 0,         \* USDC that the contract holds
     adminTook |-> 0]     \* history: paid by admin_withdraw

\* What may leave the vault: no more than it holds above the reserve minimum.
Spendable(amount) ==
  /\ amount > 0
  /\ usdcVault.vault >= amount
  /\ usdcVault.vault - amount >= usdcVault.reserve

DepositUsdc(u, amount) ==
  /\ ~usdcVault.paused
  /\ amount > 0 /\ usdcVault.totalDeposited + amount <= MaxUsdc
  /\ usdcVault' = [usdcVault EXCEPT
       !.deposits[u] = @ + amount, !.totalDeposited = @ + amount, !.vault = @ + amount]
  /\ UNCHANGED now

ReleaseUsdc(admin, amount) ==
  /\ admin = usdcVault.admin /\ ~usdcVault.paused
  /\ Spendable(amount)
  /\ usdcVault' = [usdcVault EXCEPT !.vault = @ - amount, !.totalReleased = @ + amount]
  /\ UNCHANGED now

\* admin_withdraw: the pause does not stop it, and no total counts it.
AdminWithdrawUsdc(admin, amount) ==
  /\ admin = usdcVault.admin
  /\ Spendable(amount)
  /\ usdcVault' = [usdcVault EXCEPT !.vault = @ - amount, !.adminTook = @ + amount]
  /\ UNCHANGED now

SetReserveMinimum(admin, minimum) ==
  /\ admin = usdcVault.admin
  /\ usdcVault' = [usdcVault EXCEPT !.reserve = minimum]
  /\ UNCHANGED now

PauseUsdcVault(admin, p) ==
  /\ admin = usdcVault.admin
  /\ usdcVault' = [usdcVault EXCEPT !.paused = p]
  /\ UNCHANGED now

SetUsdcAdmin(admin, new) ==
  /\ admin = usdcVault.admin
  /\ usdcVault' = [usdcVault EXCEPT !.admin = new]
  /\ UNCHANGED now

UsdcVaultNext ==
  \/ \E u \in UsdcUsers, a \in UsdcAmounts : DepositUsdc(u, a)
  \/ \E admin \in UsdcAdmins :
       \/ \E a \in UsdcAmounts : ReleaseUsdc(admin, a) \/ AdminWithdrawUsdc(admin, a)
       \/ \E m \in Minimums : SetReserveMinimum(admin, m)
       \/ \E p \in BOOLEAN : PauseUsdcVault(admin, p)
       \/ \E new \in UsdcAdmins : SetUsdcAdmin(admin, new)

UsdcVaultSpec == HostInit /\ UsdcVaultInit /\ [][UsdcVaultNext]_<<now, usdcVault>>

-----------------------------------------------------------------------------
(* Properties.                                                             *)

\* The deposits of the users add up to the total, and what was released, what
\* the admin took and what is left is what was deposited: the counters the
\* contract keeps account for every USDC but the admin's own withdrawals
\* (release, admin_withdraw).  It is not said that the vault covers what the users
\* deposited: after either call it does not.
UsdcBooks ==
  /\ Total(usdcVault.deposits) = usdcVault.totalDeposited
  /\ usdcVault.vault >= 0
  /\ usdcVault.vault + usdcVault.totalReleased + usdcVault.adminTook
       = usdcVault.totalDeposited
=============================================================================
