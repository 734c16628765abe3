--------------------------- MODULE StrategyVault ---------------------------
(***************************************************************************)
(* A vault of one asset for one strategy: it issues shares for deposits up *)
(* to a cap and pays shares back, also while it is paused.  No asset ever  *)
(* moves to the strategy; the admin only names it.                         *)
(*                                                                         *)
(* An action is a call, signed by the role it names, that succeeds.        *)
(***************************************************************************)
EXTENDS SorobanHost

CONSTANTS
  Savers,
  VaultAmounts,  \* amounts that depositors pass
  Caps,          \* deposit caps that the admin sets
  FirstCap,      \* the cap at the deployment
  Strategies

ASSUME StrategyVaultAssumption ==
  /\ IsFiniteSet(Savers) /\ VaultAmounts \subseteq Int /\ Caps \subseteq Int
  /\ FirstCap \in Caps \cap (Nat \ {0}) /\ "none" \notin Strategies

VARIABLE strategyVault  \* the contract's storage and its token account

StrategyVaultInit ==
  strategyVault =
    [strategy |-> "none", cap |-> FirstCap, paused |-> FALSE,
     totalAssets |-> 0, totalShares |-> 0, shares |-> [s \in Savers |-> 0],
     vault |-> 0]  \* asset tokens that the contract holds

SharesForAssets(amount) ==
  IF strategyVault.totalShares = 0 THEN amount
  ELSE (amount * strategyVault.totalShares) \div strategyVault.totalAssets

AssetsForShares(n) == (n * strategyVault.totalAssets) \div strategyVault.totalShares

SetStrategy(s) ==
  /\ ~strategyVault.paused
  /\ strategyVault.totalAssets = 0 /\ strategyVault.strategy = "none"
  /\ strategyVault' = [strategyVault EXCEPT !.strategy = s]
  /\ UNCHANGED now

SetDepositCap(cap) ==
  /\ cap > 0 /\ cap >= strategyVault.totalAssets
  /\ strategyVault' = [strategyVault EXCEPT !.cap = cap]
  /\ UNCHANGED now

PauseStrategyVault(p) ==
  /\ strategyVault' = [strategyVault EXCEPT !.paused = p]
  /\ UNCHANGED now

DepositToVault(s, amount) ==
  /\ ~strategyVault.paused
  /\ amount > 0 /\ strategyVault.totalAssets + amount <= strategyVault.cap
  /\ SharesForAssets(amount) > 0
  /\ strategyVault' = [strategyVault EXCEPT
       !.shares[s] = @ + SharesForAssets(amount),
       !.totalAssets = @ + amount,
       !.totalShares = @ + SharesForAssets(amount),
       !.vault = @ + amount]
  /\ UNCHANGED now

\* Withdrawals do not look at the pause.
WithdrawFromVault(s, n) ==
  /\ n > 0 /\ n <= strategyVault.shares[s]
  /\ LET assets == AssetsForShares(n) IN
       /\ assets > 0 /\ CanPay(strategyVault.vault, assets)
       /\ strategyVault' = [strategyVault EXCEPT
            !.shares[s] = @ - n,
            !.totalAssets = @ - assets,
            !.totalShares = @ - n,
            !.vault = @ - assets]
  /\ UNCHANGED now

StrategyVaultNext ==
  \/ \E s \in Strategies : SetStrategy(s)
  \/ \E cap \in Caps : SetDepositCap(cap)
  \/ \E p \in BOOLEAN : PauseStrategyVault(p)
  \/ \E s \in Savers, a \in VaultAmounts : DepositToVault(s, a)
  \/ \E s \in Savers : \E n \in 1 .. strategyVault.shares[s] : WithdrawFromVault(s, n)

StrategyVaultSpec ==
  HostInit /\ StrategyVaultInit /\ [][StrategyVaultNext]_<<now, strategyVault>>

-----------------------------------------------------------------------------
(* Properties.                                                             *)

\* The vault never holds more than the cap; the shares of the savers add up to
\* the total, and the tokens to the assets; and whatever part of its shares a
\* saver takes back, alone or after everyone else, paused or not, is worth
\* something that the vault can pay, so that no saver is trapped.
SharesRedeemable ==
  /\ strategyVault.totalAssets <= strategyVault.cap
  /\ Total(strategyVault.shares) = strategyVault.totalShares
  /\ strategyVault.vault = strategyVault.totalAssets
  /\ \A s \in Savers : \A n \in 1 .. strategyVault.shares[s] :
       AssetsForShares(n) > 0 /\ CanPay(strategyVault.vault, AssetsForShares(n))
=============================================================================
