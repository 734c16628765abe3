-------------------------- MODULE LiquidityMining --------------------------
(***************************************************************************)
(* A farm: users stake LP tokens and earn a rate of tokens per ledger,     *)
(* shared by the staked amounts.  The farm keeps what one staked token has *)
(* earned since the start, in millionths; a user's pending reward is what  *)
(* the whole stake has earned less what was earned when it was last        *)
(* settled.  Stakes and rewards are the same token, in one account: the    *)
(* farm is funded by plain transfers, and nothing keeps stakes apart.      *)
(*                                                                         *)
(* An action is a call, signed by the role it names, that succeeds.        *)
(***************************************************************************)
EXTENDS SorobanHost

CONSTANTS
  Farmers,
  FarmAmounts,  \* amounts that callers pass
  Rates,        \* rates that the admin sets
  FirstRate,    \* the rate at the deployment
  MaxStake,     \* bound on total_staked
  MaxFunding    \* bound on the tokens sent to fund the farm

ASSUME FarmAssumption ==
  /\ IsFiniteSet(Farmers) /\ FarmAmounts \subseteq Int
  /\ IsFiniteSet(Rates) /\ Rates \subseteq Int /\ FirstRate \in Rates \cap Nat
  /\ MaxStake \in Nat /\ MaxFunding \in Nat

VARIABLE farm  \* FarmInfo, the stakes, the token account and two histories

Scale == 1000000

FarmInit ==
  farm =
    [rate |-> FirstRate, totalStaked |-> 0, lastLedger |-> 0, perShare |-> 0,
     stakes |-> [f \in Farmers |-> [amount |-> 0, debt |-> 0]],
     vault |-> 0,   \* tokens that the contract holds
     funded |-> 0,  \* history: tokens sent to fund it
     paid |-> 0]    \* history: rewards paid

-----------------------------------------------------------------------------
(* Accrual.                                                                *)

\* Fault: the ledgers already accounted for are counted again.
AccruedFromStart(x) ==
  IF x.totalStaked = 0 THEN x
  ELSE [x EXCEPT !.perShare = @ + (x.rate * now * Scale) \div x.totalStaked, !.lastLedger = now]

\* accrue_rewards: an empty farm stays as it is, its last ledger too.
Accrued(x) ==
  IF x.totalStaked = 0 THEN x
  ELSE [x EXCEPT
          !.perShare = @ + (x.rate * (now - x.lastLedger) * Scale) \div x.totalStaked,
          !.lastLedger = now]

\* What an amount has earned since the start, rounded down.
Earned(x, amount) == (amount * x.perShare) \div Scale

\* The reward pending in an accrued farm; it may be zero or less.
Pending(x, f) == Earned(x, x.stakes[f].amount) - x.stakes[f].debt

\* The farm after a user's stake is set and its reward settled.
Settled(x, f, amount) ==
  LET pending == Pending(x, f)
      due == IF pending > 0 THEN pending ELSE 0
  IN [x EXCEPT
        !.stakes[f] = [amount |-> amount, debt |-> Earned(x, amount)],
        !.totalStaked = @ + amount - x.stakes[f].amount,
        !.vault = @ + amount - x.stakes[f].amount - due,
        !.paid = @ + due]

-----------------------------------------------------------------------------
(* The calls.                                                              *)

\* Each transfer of a call is covered by the account: the one out after the one
\* in for a stake, both one after the other for an unstake.
StakeInFarm(f, amount) ==
  /\ amount > 0 /\ farm.totalStaked + amount <= MaxStake
  /\ farm' = Settled(Accrued(farm), f, farm.stakes[f].amount + amount)
  /\ farm'.vault >= 0
  /\ UNCHANGED now

UnstakeFromFarm(f, amount) ==
  /\ amount > 0 /\ farm.stakes[f].amount >= amount
  /\ farm' = Settled(Accrued(farm), f, farm.stakes[f].amount - amount)
  /\ farm'.vault >= 0
  /\ UNCHANGED now

ClaimFromFarm(f) ==
  /\ Pending(Accrued(farm), f) > 0
  /\ farm' = Settled(Accrued(farm), f, farm.stakes[f].amount)
  /\ farm'.vault >= 0
  /\ UNCHANGED now

\* The rate takes effect from the last accrual on: for an empty farm, from the
\* ledger at which it was left empty.
SetRewardPerLedger(rate) ==
  /\ rate >= 0
  /\ farm' = [Accrued(farm) EXCEPT !.rate = rate]
  /\ UNCHANGED now

\* Tokens sent to the contract's address; the contract has no call for it.
FundFarm(amount) ==
  /\ amount > 0 /\ farm.funded + amount <= MaxFunding
  /\ farm' = [farm EXCEPT !.vault = @ + amount, !.funded = @ + amount]
  /\ UNCHANGED now

FarmNext ==
  \/ \E f \in Farmers, a \in FarmAmounts : StakeInFarm(f, a) \/ UnstakeFromFarm(f, a)
  \/ \E f \in Farmers : ClaimFromFarm(f)
  \/ \E r \in Rates : SetRewardPerLedger(r)
  \/ \E a \in FarmAmounts : FundFarm(a)
  \/ LedgerCloses /\ UNCHANGED farm

FarmSpec == HostInit /\ FarmInit /\ [][FarmNext]_<<now, farm>>

-----------------------------------------------------------------------------
(* Properties.                                                             *)

\* What all users together were paid and could claim now is no more than the
\* highest rate for every ledger since the start, and a unit of rounding for each
\* user and ledger (a debt is rounded down, which favours the user), whoever
\* staked, left and came back when, and however the rate changed; and the account
\* is the stakes and the funds less what was paid, so that rewards beyond the
\* funds come out of the stakes.
RewardsWithinEmission ==
  /\ farm.paid + Total([f \in Farmers |-> Pending(Accrued(farm), f)])
       <= now * (Max(Rates) + Cardinality(Farmers))
  /\ farm.totalStaked = Total([f \in Farmers |-> farm.stakes[f].amount])
  /\ farm.vault = farm.totalStaked + farm.funded - farm.paid
=============================================================================
