----------------------------- MODULE LendingPool -----------------------------
(***************************************************************************)
(* The lending pool: accounts deposit and borrow the pool's debt asset     *)
(* against collateral, and whoever finds a position under water may repay  *)
(* its debt for a bonus in collateral.                                     *)
(*                                                                         *)
(* The collateral is the debt asset itself, or a token of its own when the *)
(* pool was deployed with set_collateral_token; a registered oracle prices *)
(* both.  An action is a call that succeeds, made by the account it names; *)
(* a call that fails changes nothing.  initialize and the two calls that   *)
(* choose the assets are made once, at deployment.  The collateral factor  *)
(* is stored and never read, and is left out.                              *)
(***************************************************************************)
EXTENDS Integers, FiniteSets, FiniteSetsExt, Functions, Sums

CONSTANTS
  Users,          \* accounts of the pool
  Deployed,       \* parameters that the pool may be deployed with
  Configs,        \* parameters that the admin may choose later
  Prices,         \* prices that the oracle may report, for each token
  Basis,          \* basis points in a whole: 10_000
  RateScale,      \* ledgers that the interest rate is quoted for: 100_000
  MaxAge,         \* oracle_max_age
  Amounts,        \* amounts of the debt asset that calls name
  Pledges,        \* amounts of collateral that calls name
  Offers,         \* repayments that liquidators other than the bot offer
  MaxCash,        \* bound on the debt asset that the pool takes in
  MaxCollateral,  \* bound on the collateral of an account
  MaxLedger       \* bound on the ledger sequence

Tokens == {"debt", "collateral"}

ASSUME LendingAssumption ==
  /\ IsFiniteSet(Users)
  /\ Basis \in Nat \ {0} /\ RateScale \in Nat \ {0} /\ MaxAge \in Nat \ {0}
  /\ Deployed \subseteq Configs
  /\ Configs \subseteq [threshold : Nat, bonus : Nat, rate : Nat, reserve : 0 .. Basis]
  /\ Prices \in [Tokens -> SUBSET (Nat \ {0})]
  /\ Amounts \subseteq Nat \ {0} /\ Pledges \subseteq Nat \ {0} /\ Offers \subseteq Nat \ {0}
  /\ MaxCash \in Nat /\ MaxCollateral \in Nat /\ MaxLedger \in Nat

VARIABLES
  ledger,    \* the ledger sequence
  distinct,  \* whether the collateral is a token of its own
  paused,    \* POOL_PAUSED
  config,    \* LIQUIDATION_THRESHOLD, LIQUIDATION_BONUS, INTEREST_RATE, RESERVE_FACTOR
  oracle,    \* whether PRICE_ORACLE is set
  market,    \* what the oracle last reported for each token, and when
  pool,      \* PoolState
  position,  \* UserPosition of each account
  vault      \* what the pool holds of each token

settings == <<distinct, paused, config, oracle>>
poolVars == <<ledger, settings, market, pool, position, vault>>

TypeOK ==
  /\ ledger \in 0 .. MaxLedger
  /\ distinct \in BOOLEAN /\ paused \in BOOLEAN /\ oracle \in BOOLEAN
  /\ config \in Configs
  /\ market \in [Tokens -> [price : Nat \ {0}, timestamp : 0 .. MaxLedger]]
  /\ pool \in [supply : Int, borrows : Nat, reserves : Nat, accrued : 0 .. MaxLedger]
  /\ position \in [Users -> [deposit : Nat, borrow : Nat, collateral : Int]]
  /\ vault \in [Tokens -> Nat]

PoolInit ==
  /\ ledger = 0
  /\ distinct \in BOOLEAN
  /\ oracle = distinct  \* required for a distinct token, and may be set later
  /\ paused = FALSE
  /\ config \in Deployed
  /\ market \in [Tokens -> [price : UNION Range(Prices), timestamp : {0}]]
  /\ \A t \in Tokens : market[t].price \in Prices[t]
  /\ pool = [supply |-> 0, borrows |-> 0, reserves |-> 0, accrued |-> 0]
  /\ position = [u \in Users |-> [deposit |-> 0, borrow |-> 0, collateral |-> 0]]
  /\ vault = [t \in Tokens |-> 0]

-----------------------------------------------------------------------------
(* Arithmetic.  Division rounds towards zero.                              *)

Magnitude(n) == IF n < 0 THEN -n ELSE n

Quotient(n, d) ==
  LET q == Magnitude(n) \div Magnitude(d) IN IF (n < 0) = (d < 0) THEN q ELSE -q

TotalAssets == pool.supply + pool.borrows + pool.reserves

\* What a deposit adds to the supply.
BTokens(amount) ==
  IF pool.supply = 0 THEN amount ELSE Quotient(amount * pool.supply, TotalAssets)

\* What so many b-tokens are worth.
Underlying(shares) == Quotient(shares * TotalAssets, pool.supply)

Repaid(x, amount) == IF amount < x.borrow THEN amount ELSE x.borrow

\* Fault: the seizure is rounded up.
SeizedRoundedUp(repaid) == (repaid * (Basis + config.bonus) + Basis - 1) \div Basis

Seized(repaid) == (repaid * (Basis + config.bonus)) \div Basis

Interest ==
  (pool.borrows * config.rate * (ledger - pool.accrued)) \div (Basis * RateScale)

-----------------------------------------------------------------------------
(* The health of a position.                                               *)

CollateralToken == IF distinct THEN "collateral" ELSE "debt"

\* Fault: the age of a price is not looked at.
FreshAlways(t) == TRUE

\* read_oracle_price: the price is no older than the maximum age.
Fresh(t) == ledger - market[t].timestamp <= MaxAge

\* calculate_health_factor has prices to work with.
Priced == IF oracle THEN Fresh(CollateralToken) /\ Fresh("debt") ELSE ~distinct

PriceOf(t) == IF oracle THEN market[t].price ELSE 1

Health(x) ==
  Quotient(x.collateral * PriceOf(CollateralToken) * config.threshold * Basis,
           x.borrow * PriceOf("debt") * Basis)

Healthy(x) == x.borrow > 0 => Priced /\ Health(x) >= Basis

Liquidatable(x) == x.borrow # 0 /\ Priced /\ Health(x) < Basis

-----------------------------------------------------------------------------
(* The calls of an account.                                                *)

\* A transfer out of the pool: the token refuses a negative amount and one
\* that the pool does not hold.
PayOut(t, amount) ==
  /\ amount \in 0 .. vault[t]
  /\ vault' = [vault EXCEPT ![t] = @ - amount]

Deposit(u, amount) ==
  /\ ~paused
  /\ vault["debt"] + amount <= MaxCash
  /\ pool.supply = 0 \/ TotalAssets # 0  \* else the division fails
  /\ position' = [position EXCEPT ![u].deposit = @ + amount]
  /\ pool' = [pool EXCEPT !.supply = @ + BTokens(amount)]
  /\ vault' = [vault EXCEPT !["debt"] = @ + amount]
  /\ UNCHANGED <<ledger, settings, market>>

Withdraw(u, shares) ==
  /\ ~paused
  /\ pool.supply # 0  \* else the division fails
  /\ shares <= position[u].deposit
  /\ Healthy(position[u])
  /\ position' = [position EXCEPT ![u].deposit = @ - shares]
  /\ pool' = [pool EXCEPT !.supply = @ - shares]
  /\ PayOut("debt", Underlying(shares))
  /\ UNCHANGED <<ledger, settings, market>>

\* Fault: a borrow is not added to the total.
LentUnbooked(amount) == pool

Lent(amount) == [pool EXCEPT !.borrows = @ + amount]

Borrow(u, amount) ==
  LET after == [position[u] EXCEPT !.borrow = @ + amount]
  IN /\ ~paused
     /\ amount <= pool.supply - pool.borrows
     /\ Healthy(after)
     /\ position' = [position EXCEPT ![u] = after]
     /\ pool' = Lent(amount)
     /\ PayOut("debt", amount)
     /\ UNCHANGED <<ledger, settings, market>>

Repay(u, amount) ==
  LET repaid == Repaid(position[u], amount)
  IN /\ ~paused
     /\ position' = [position EXCEPT ![u].borrow = @ - repaid]
     /\ pool' = [pool EXCEPT !.borrows = @ - repaid]
     /\ vault' = [vault EXCEPT !["debt"] = @ + repaid]
     /\ UNCHANGED <<ledger, settings, market>>

\* The amount may be negative; no token moves.
SetCollateral(u, amount) ==
  LET after == [position[u] EXCEPT !.collateral = amount]
  IN /\ ~paused
     /\ amount <= position[u].deposit
     /\ Healthy(after)
     /\ position' = [position EXCEPT ![u] = after]
     /\ UNCHANGED <<ledger, settings, market, pool, vault>>

DepositCollateral(u, amount) ==
  /\ ~paused
  /\ position[u].collateral + amount <= MaxCollateral
  /\ vault[CollateralToken] + amount <= MaxCash
  /\ position' = [position EXCEPT ![u].collateral = @ + amount]
  /\ vault' = [vault EXCEPT ![CollateralToken] = @ + amount]
  /\ UNCHANGED <<ledger, settings, market, pool>>

\* Fault: the position is checked as it was before the withdrawal.
CheckedBefore(x, amount) == Healthy(x)

\* withdraw_collateral: the health factor is checked after the withdrawal.
CheckedAfter(x, amount) == Healthy([x EXCEPT !.collateral = @ - amount])

WithdrawCollateral(u, amount) ==
  /\ ~paused
  /\ amount <= position[u].collateral
  /\ CheckedAfter(position[u], amount)
  /\ position' = [position EXCEPT ![u].collateral = @ - amount]
  /\ PayOut(CollateralToken, amount)
  /\ UNCHANGED <<ledger, settings, market, pool>>

\* Fault: the minimum is compared with what the asked repayment would seize.
WorthItAsAsked(x, amount, minimum) == Seized(amount) >= minimum

WorthIt(x, amount, minimum) == Seized(Repaid(x, amount)) >= minimum

\* The repayment comes in before the collateral goes out.
VaultHolds(x, amount) ==
  Seized(Repaid(x, amount))
    <= vault[CollateralToken] + (IF distinct THEN 0 ELSE Repaid(x, amount))

LiquidationAccepted(u, amount, minimum) ==
  /\ ~paused
  /\ Liquidatable(position[u])
  /\ WorthIt(position[u], amount, minimum)
  /\ Seized(Repaid(position[u], amount)) <= position[u].collateral
  /\ VaultHolds(position[u], amount)

Liquidate(u, amount, minimum) ==
  LET repaid == Repaid(position[u], amount)
      seized == Seized(repaid)
      paidIn == [vault EXCEPT !["debt"] = @ + repaid]
  IN /\ LiquidationAccepted(u, amount, minimum)
     /\ position' = [position EXCEPT ![u].borrow = @ - repaid, ![u].collateral = @ - seized]
     /\ pool' = [pool EXCEPT !.borrows = @ - repaid]
     /\ vault' = [paidIn EXCEPT ![CollateralToken] = @ - seized]
     /\ UNCHANGED <<ledger, settings, market>>

\* Interest goes to the totals; the debts of the accounts stay as they are.
AccrueInterest ==
  /\ ~paused
  /\ ledger > pool.accrued
  /\ pool' = [pool EXCEPT
       !.borrows = @ + Interest,
       !.reserves = @ + (Interest * config.reserve) \div Basis,
       !.accrued = ledger]
  /\ UNCHANGED <<ledger, settings, market, position, vault>>

-----------------------------------------------------------------------------
(* The admin, the oracle and the chain.                                    *)

SetPaused(value) ==
  /\ paused' = value
  /\ UNCHANGED <<ledger, distinct, config, oracle, market, pool, position, vault>>

UpdateConfig(chosen) ==
  /\ config' = chosen
  /\ UNCHANGED <<ledger, distinct, paused, oracle, market, pool, position, vault>>

\* set_price_oracle and clear_price_oracle.
SetPriceOracle(value) ==
  /\ oracle' = value
  /\ UNCHANGED <<ledger, distinct, paused, config, market, pool, position, vault>>

Report(t, price) ==
  /\ market' = [market EXCEPT ![t] = [price |-> price, timestamp |-> ledger]]
  /\ UNCHANGED <<ledger, settings, pool, position, vault>>

CloseLedger ==
  /\ ledger < MaxLedger
  /\ ledger' = ledger + 1
  /\ UNCHANGED <<settings, market, pool, position, vault>>

\* Every call but a liquidation, and the oracle's reports.
PoolCall ==
  \/ \E u \in Users, amount \in Amounts : Deposit(u, amount)
  \/ \E u \in Users, amount \in Amounts : Withdraw(u, amount)
  \/ \E u \in Users, amount \in Amounts : Borrow(u, amount)
  \/ \E u \in Users, amount \in Amounts : Repay(u, amount)
  \/ \E u \in Users, amount \in Pledges \union {-1} : SetCollateral(u, amount)
  \/ \E u \in Users, amount \in Pledges : DepositCollateral(u, amount)
  \/ \E u \in Users, amount \in Pledges : WithdrawCollateral(u, amount)
  \/ \E value \in BOOLEAN : SetPaused(value)
  \/ \E chosen \in Configs : UpdateConfig(chosen)
  \/ \E value \in BOOLEAN : SetPriceOracle(value)
  \/ \E t \in Tokens : \E price \in Prices[t] : Report(t, price)

Time == AccrueInterest \/ CloseLedger

-----------------------------------------------------------------------------
(* Properties.                                                             *)

\* Covered by what the oracle last said, however long ago.
Covered(x) ==
  x.borrow = 0
    \/ x.collateral * PriceOf(CollateralToken) * config.threshold >= x.borrow * PriceOf("debt") * Basis

\* The pool's total never falls below what its borrowers owe, although
\* borrow, repay and liquidate keep the two apart and accrue_interest moves
\* only the total: no repayment can take the total below zero.
DebtsWithinTotal == Total([u \in Users |-> position[u].borrow]) <= pool.borrows

\* The pool's records keep their types - no debt, deposit or balance turns
\* negative - and its total covers the debts (borrow, repay, liquidate).
LendingInv == TypeOK /\ DebtsWithinTotal

\* Only the market, the admin and time make a covered position uncovered: no
\* sequence of calls, the borrower's own or others', leaves a borrower that
\* was covered with less collateral than the threshold asks for.
OnlyTheMarketHurts ==
  [][\A u \in Users :
       position[u] # position'[u] /\ Covered(position[u]) => Covered(position[u])']_poolVars

\* On a pool with an oracle, no debt grows, no collateral leaves a borrower
\* and nobody is liquidated on a price older than the maximum age, whenever
\* prices were last reported and the oracle registered (read_oracle_price).
FreshPricesOnly ==
  [][\A u \in Users :
       oracle /\ (\/ position'[u].borrow > position[u].borrow
                  \/ position'[u].borrow > 0 /\ position'[u].collateral < position[u].collateral)
         => \A t \in {"debt", CollateralToken} : ledger - market[t].timestamp <= MaxAge]_poolVars

\* A liquidation - the call that takes both debt and collateral away - hits
\* only a position that is uncovered at that moment, takes no more than the
\* repaid debt and the bonus, and never more than the borrower has.
LiquidationIsDue ==
  [][\A u \in Users :
       LET repaid == position[u].borrow - position'[u].borrow
           seized == position[u].collateral - position'[u].collateral
       IN repaid > 0 /\ seized > 0 =>
            /\ ~Covered(position[u])
            /\ seized * Basis <= repaid * (Basis + config.bonus)
            /\ position'[u].collateral >= 0]_poolVars
=============================================================================
