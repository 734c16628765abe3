---------------------------- MODULE LiquidationBot ----------------------------
(***************************************************************************)
(* The liquidation bot beside the lending pool.  In rounds it goes through *)
(* its accounts; of each it reads the position and the health factor, in   *)
(* two simulations that may see different ledgers, plans a repayment, and  *)
(* submits it to the pool, which may have changed again by then.  A call   *)
(* that fails is caught, and the round goes on with the next account.      *)
(*                                                                         *)
(* The bot runs in execute mode, over accounts that its configuration      *)
(* names; the liquidator holds whatever it repays.                         *)
(***************************************************************************)
EXTENDS LendingPool

CONSTANTS
  Watched,     \* accounts that the bot goes through
  MaxRepay,    \* maxRepayRaw
  BotBonus,    \* bonusBps
  Slippage,    \* slippageBps
  MaxEvents    \* bound on others' calls, the oracle's reports and network failures

ASSUME BotAssumption ==
  /\ Watched \subseteq Users
  /\ MaxRepay \in Nat /\ BotBonus \in Nat /\ Slippage \in 0 .. Basis
  /\ MaxEvents \in Nat

VARIABLES
  todo,      \* accounts left in this round
  stage,     \* what the bot is doing
  account,   \* the account it is at
  seen,      \* position and health of that account, as far as they were read
  plan,      \* the repayment it has submitted
  events     \* calls of others, reports and network failures, for their bound

botVars == <<todo, stage, account, seen, plan>>
vars == <<poolVars, botVars, events>>

NoPosition == [deposit |-> 0, borrow |-> 0, collateral |-> 0]
Nothing == [parts |-> {}, position |-> NoPosition, health |-> 0]
NoPlan == [repay |-> 0, minimum |-> 0]

\* What a position without debt reports as its health: i128::MAX.
Highest == 1000 * Basis

BotInit ==
  /\ todo = {} /\ stage = "Choosing" /\ account \in Watched
  /\ seen = Nothing /\ plan = NoPlan /\ events = 0

Init == PoolInit /\ BotInit

-----------------------------------------------------------------------------
(* The decision.                                                           *)

\* get_health_factor answers 0 when the health cannot be computed.
HealthReported(x) ==
  IF x.borrow = 0 THEN Highest ELSE IF Priced THEN Health(x) ELSE 0

Least(a, b) == IF a < b THEN a ELSE b

\* Fault: the repayment is not limited by the collateral it would seize.
RepayUncapped(x) == Least(x.borrow, MaxRepay)

RepayPlanned(x) ==
  LET affordable == IF x.collateral > 0 THEN (x.collateral * Basis) \div (Basis + BotBonus) ELSE 0
  IN Least(x.borrow, Least(MaxRepay, affordable))

\* planLiquidation: what to submit for a position and a health that were read.
PlanFor(x) ==
  LET repay == RepayPlanned(x)
      expected == (repay * (Basis + BotBonus)) \div Basis
  IN [repay |-> repay, minimum |-> (expected * (Basis - Slippage)) \div Basis]

WorthSubmitting(x, health) == health < Basis /\ RepayPlanned(x) > 0

-----------------------------------------------------------------------------
(* The steps of a round.                                                   *)

NextRound ==
  /\ stage = "Choosing" /\ todo = {}
  /\ todo' = Watched
  /\ UNCHANGED <<poolVars, events, stage, account, seen, plan>>

Choose(u) ==
  /\ stage = "Choosing" /\ u \in todo
  /\ todo' = todo \ {u}
  /\ account' = u
  /\ stage' = "Reading"
  /\ UNCHANGED <<poolVars, events, seen, plan>>

ReadPosition ==
  /\ stage = "Reading" /\ "position" \notin seen.parts
  /\ seen' = [seen EXCEPT !.parts = @ \union {"position"}, !.position = position[account]]
  /\ UNCHANGED <<poolVars, events, todo, stage, account, plan>>

ReadHealth ==
  /\ stage = "Reading" /\ "health" \notin seen.parts
  /\ seen' = [seen EXCEPT !.parts = @ \union {"health"}, !.health = HealthReported(position[account])]
  /\ UNCHANGED <<poolVars, events, todo, stage, account, plan>>

Decide ==
  /\ stage = "Reading" /\ seen.parts = {"position", "health"}
  /\ IF WorthSubmitting(seen.position, seen.health)
     THEN stage' = "Submitting" /\ plan' = PlanFor(seen.position)
     ELSE stage' = "Choosing" /\ plan' = NoPlan
  /\ seen' = Nothing
  /\ UNCHANGED <<poolVars, events, todo, account>>

MoveOn == stage' = "Choosing" /\ seen' = Nothing /\ plan' = NoPlan /\ UNCHANGED <<todo, account>>

Execute ==
  /\ stage = "Submitting"
  /\ Liquidate(account, plan.repay, plan.minimum)
  /\ MoveOn /\ UNCHANGED events

Refused ==
  /\ stage = "Submitting"
  /\ ~LiquidationAccepted(account, plan.repay, plan.minimum)
  /\ MoveOn /\ UNCHANGED <<poolVars, events>>

Fail ==
  /\ stage \in {"Reading", "Submitting"}
  /\ events < MaxEvents
  /\ events' = events + 1
  /\ MoveOn /\ UNCHANGED poolVars

\* Somebody else liquidates.
OtherLiquidates(u, amount) == Liquidate(u, amount, 0)

BotStep ==
  NextRound \/ (\E u \in Watched : Choose(u)) \/ ReadPosition \/ ReadHealth \/ Decide \/ Execute \/ Refused

Others ==
  /\ events < MaxEvents
  /\ events' = events + 1
  /\ PoolCall \/ \E u \in Users, amount \in Offers : OtherLiquidates(u, amount)
  /\ UNCHANGED botVars

Next ==
  \/ Others
  \/ Time /\ UNCHANGED <<botVars, events>>
  \/ BotStep
  \/ Fail

Spec == Init /\ [][Next]_vars

\* The bot loops for ever.
FairSpec == Spec /\ WF_vars(BotStep)

-----------------------------------------------------------------------------
(* Properties.                                                             *)

\* Whatever moved between reading, planning and execution - the price, the
\* configured bonus, the position, another liquidator - a liquidation of the
\* bot repays no more than its limit, and brings no less than the minimum that
\* its plan named (planLiquidation, min_collateral).
BotGetsItsMinimum ==
  [][stage = "Submitting" /\ position' # position /\ stage' = "Choosing" =>
       LET x == position[account]
           y == position'[account]
       IN /\ x.borrow - y.borrow \in 1 .. MaxRepay
          /\ x.collateral - y.collateral >= plan.minimum]_vars

\* What the bot can liquidate: the prices are fresh, the position uncovered,
\* its collateral buys at least one unit of debt, the pool holds it, and the
\* bonus is the one that the bot expects.
WithinReach(u) ==
  /\ ~paused /\ config.bonus = BotBonus /\ MaxRepay > 0
  /\ (oracle => \A t \in {"debt", CollateralToken} : ledger - market[t].timestamp <= MaxAge)
  /\ (distinct => oracle)
  /\ ~Covered(position[u]) /\ position[u].borrow > 0
  /\ position[u].collateral * Basis >= Basis + BotBonus
  /\ position[u].collateral <= vault[CollateralToken]

\* No position stays within reach of the bot for ever: torn reads, refused
\* submissions and failed calls only delay it, and each liquidation brings
\* the debt down until the position is covered or too small.
BadDebtIsCollected == \A u \in Watched : []<>~WithinReach(u)
=============================================================================
