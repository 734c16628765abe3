---------------------------- MODULE NodeStaking ----------------------------
(***************************************************************************)
(* Stakes of node operators.  A stake earns its reward at once, when it is *)
(* made.  claim_rewards pays rewards from the pool that the admin funds;   *)
(* unstake pays what is accrued along with the stake, whether the pool     *)
(* holds it or not.  Slashed stake goes to the admin.                      *)
(*                                                                         *)
(* An action is a call, signed by the role it names, that succeeds.  The   *)
(* contract does not look at the sign of added stake, of distributed       *)
(* rewards or of a slash: the token transfer refuses the negative ones.    *)
(* SlashedAmount and the time of registration are written and never read,  *)
(* so they are left out.                                                   *)
(***************************************************************************)
EXTENDS SorobanHost

CONSTANTS
  Operators,
  StakeAmounts,   \* amounts that callers pass
  MinStake,       \* DataKey::MinStake
  RewardRateBps,  \* DataKey::RewardRateBps, parts of 10000
  MaxStaking,     \* bound on the stakes
  MaxPool,        \* bound on the reward pool
  MaxRewards      \* bound on the rewards of a node that stakes more

ASSUME StakingAssumption ==
  /\ IsFiniteSet(Operators) /\ StakeAmounts \subseteq Int /\ MinStake \in Int
  /\ RewardRateBps \in Nat /\ MaxStaking \in Nat /\ MaxPool \in Nat /\ MaxRewards \in Nat

VARIABLE staking  \* the contract's storage, its token account and a history

NoNode == [registered |-> FALSE, staked |-> 0, rewards |-> 0, active |-> FALSE]

StakingInit ==
  staking =
    [nodes |-> [o \in Operators |-> NoNode],
     totalStaked |-> 0, totalNodes |-> 0, rewardPool |-> 0,
     vault |-> 0,     \* tokens that the contract holds
     overdrawn |-> 0] \* history: rewards paid by unstake, outside the pool

-----------------------------------------------------------------------------
(* The calls.                                                              *)

RewardFor(amount) == (amount * RewardRateBps) \div 10000

\* The transfer of a stake into the contract.
CanStake(amount) == amount >= 0 /\ staking.totalStaked + amount <= MaxStaking

RegisterNode(o, amount) ==
  /\ ~staking.nodes[o].registered
  /\ amount >= MinStake /\ CanStake(amount)
  /\ staking' = [staking EXCEPT
       !.nodes[o] = [registered |-> TRUE, staked |-> amount,
                     rewards |-> RewardFor(amount), active |-> TRUE],
       !.totalStaked = @ + amount, !.totalNodes = @ + 1, !.vault = @ + amount]
  /\ UNCHANGED now

AddStake(o, amount) ==
  /\ staking.nodes[o].registered /\ staking.nodes[o].active
  /\ CanStake(amount) /\ staking.nodes[o].rewards < MaxRewards
  /\ staking' = [staking EXCEPT
       !.nodes[o].staked = @ + amount, !.nodes[o].rewards = @ + RewardFor(amount),
       !.totalStaked = @ + amount, !.vault = @ + amount]
  /\ UNCHANGED now

\* A node with less stake; unstake and slash decide anew whether it is active.
Reduced(node, amount) ==
  [node EXCEPT !.staked = @ - amount, !.active = node.staked - amount >= MinStake]

\* unstake: the reward pool is not touched.
Unstake(o, amount) ==
  /\ staking.nodes[o].registered
  /\ amount > 0 /\ staking.nodes[o].staked >= amount
  /\ LET rewards == staking.nodes[o].rewards IN
       /\ CanPay(staking.vault, amount + rewards)
       /\ staking' = [staking EXCEPT
            !.nodes[o] = [Reduced(@, amount) EXCEPT !.rewards = 0],
            !.totalStaked = @ - amount, !.vault = @ - amount - rewards,
            !.overdrawn = @ + rewards]
  /\ UNCHANGED now

\* Fault: rewards that the pool does not cover are paid out of the stakes.
PayableAll(rewards) == rewards

\* claim_rewards pays no more than the pool; the rest stays accrued.
Payable(rewards) == IF rewards <= staking.rewardPool THEN rewards ELSE staking.rewardPool

ClaimRewards(o) ==
  /\ staking.nodes[o].registered /\ staking.nodes[o].rewards > 0
  /\ LET paid == Payable(staking.nodes[o].rewards) IN
       /\ CanPay(staking.vault, paid)
       /\ staking' = [staking EXCEPT
            !.nodes[o].rewards = @ - paid, !.rewardPool = @ - paid, !.vault = @ - paid]
  /\ UNCHANGED now

DistributeRewards(amount) ==
  /\ amount >= 0 /\ staking.rewardPool + amount <= MaxPool
  /\ staking' = [staking EXCEPT !.rewardPool = @ + amount, !.vault = @ + amount]
  /\ UNCHANGED now

Slash(o, amount) ==
  /\ staking.nodes[o].registered
  /\ LET node == staking.nodes[o]
         slashed == IF amount <= node.staked THEN amount ELSE node.staked
     IN /\ CanPay(staking.vault, slashed)
        /\ staking' = [staking EXCEPT
             !.nodes[o] = Reduced(@, slashed),
             !.totalStaked = @ - slashed, !.vault = @ - slashed]
  /\ UNCHANGED now

StakingNext ==
  \/ \E o \in Operators, a \in StakeAmounts :
       RegisterNode(o, a) \/ AddStake(o, a) \/ Unstake(o, a) \/ Slash(o, a)
  \/ \E o \in Operators : ClaimRewards(o)
  \/ \E a \in StakeAmounts : DistributeRewards(a)

StakingSpec == HostInit /\ StakingInit /\ [][StakingNext]_<<now, staking>>

-----------------------------------------------------------------------------
(* Properties.                                                             *)

\* TotalStaked is the sum of the stakes and TotalNodes the number of nodes; a
\* node is active exactly while its stake is at least the minimum; and the
\* tokens held are the stakes and the reward pool, less the rewards that unstake
\* has paid outside the pool.  The pool pays no claim that it does not hold, so
\* as long as no unstake has met accrued rewards, every node can take its whole
\* stake out at once.
StakingBooks ==
  /\ staking.totalStaked = Total([o \in Operators |-> staking.nodes[o].staked])
  /\ staking.totalNodes = Cardinality({o \in Operators : staking.nodes[o].registered})
  /\ staking.rewardPool >= 0 /\ staking.vault >= 0
  /\ staking.vault + staking.overdrawn = staking.totalStaked + staking.rewardPool
  /\ \A o \in Operators : LET node == staking.nodes[o] IN
       /\ node.staked >= 0 /\ node.rewards >= 0
       /\ node.active <=> node.registered /\ node.staked >= MinStake
=============================================================================
