--------------------------- MODULE LendingPoolProofs ---------------------------
(* Proofs about LendingPool and LiquidationBot: the pool's records keep their  *)
(* types and cover the debts, a call that writes a position is justified, and  *)
(* the bot gets what it planned for.                                           *)
EXTENDS LiquidationBot, SumTheorems, FiniteSetTheorems, TLAPS

Positions == [deposit : Nat, borrow : Nat, collateral : Int]

LEMMA Numbers ==
  /\ Basis \in Nat \ {0} /\ RateScale \in Nat \ {0} /\ MaxAge \in Nat \ {0}
  /\ Amounts \subseteq Nat \ {0} /\ Pledges \subseteq Nat \ {0} /\ Offers \subseteq Nat \ {0}
  /\ MaxLedger \in Nat /\ MaxRepay \in Nat /\ BotBonus \in Nat /\ Slippage \in 0 .. Basis
  /\ Watched \subseteq Users /\ IsFiniteSet(Users)
  BY LendingAssumption, BotAssumption

LEMMA ConfigFields ==
  ASSUME NEW c \in Configs
  PROVE  /\ c.threshold \in Nat /\ c.bonus \in Nat /\ c.rate \in Nat
         /\ c.reserve \in 0 .. Basis
  BY LendingAssumption

-----------------------------------------------------------------------------
(* Arithmetic.                                                                *)

LEMMA DivIs ==
  ASSUME NEW a \in Int, NEW d \in Nat \ {0}
  PROVE  /\ a \div d \in Int /\ (a \div d) * d <= a /\ a < (a \div d) * d + d
         /\ a >= 0 => a \div d >= 0
  OBVIOUS

\* A positive factor keeps the order and may be cancelled.
LEMMA Cancel ==
  ASSUME NEW a \in Int, NEW b \in Int, NEW k \in Nat \ {0}
  PROVE  (a * k <= b * k <=> a <= b) /\ (a * k < b * k <=> a < b)
  OBVIOUS

LEMMA QuotientType ==
  ASSUME NEW n \in Int, NEW d \in Int \ {0}
  PROVE  Quotient(n, d) \in Int
<1>1. Magnitude(n) \in Nat /\ Magnitude(d) \in Nat \ {0}
  BY DEF Magnitude
<1>2. Magnitude(n) \div Magnitude(d) \in Int
  BY <1>1, DivIs
<1> QED
  BY <1>2 DEF Quotient

\* Division by a positive number, towards zero.
LEMMA QuotientIs ==
  ASSUME NEW n \in Int, NEW d \in Nat \ {0}
  PROVE  /\ n >= 0 => Quotient(n, d) = n \div d
         /\ n < 0 => Quotient(n, d) <= 0
<1>1. Magnitude(d) = d /\ ~(d < 0) /\ d \in Nat \ {0}
  BY DEF Magnitude
<1>2. CASE n >= 0
  BY <1>1, <1>2 DEF Quotient, Magnitude
<1>3. CASE n < 0
  <2>1. -n \in Int /\ -n >= 0
    BY <1>3
  <2>2. (-n) \div d \in Int /\ (-n) \div d >= 0
    BY <2>1, DivIs
  <2>3. Quotient(n, d) = -((-n) \div d)
    BY <1>1, <1>3 DEF Quotient, Magnitude
  <2> QED
    BY <1>3, <2>2, <2>3
<1> QED
  BY <1>2, <1>3

\* A quotient reaches a bound exactly if the dividend does.
LEMMA QuotientReaches ==
  ASSUME NEW n \in Int, NEW d \in Nat \ {0}, NEW k \in Nat \ {0}
  PROVE  Quotient(n, d) >= k <=> n >= k * d
<1>1. CASE n < 0
  <2>1. k * d >= 0 /\ k * d \in Int
    OBVIOUS
  <2>2. Quotient(n, d) \in Int /\ Quotient(n, d) <= 0
    BY <1>1, QuotientIs, QuotientType
  <2> QED
    BY <1>1, <2>1, <2>2
<1>2. CASE n >= 0
  <2> DEFINE q == n \div d
  <2>1. q \in Int /\ q * d <= n /\ n < q * d + d /\ Quotient(n, d) = q
    BY <1>2, DivIs, QuotientIs
  <2> HIDE DEF q
  <2>2. ASSUME q >= k PROVE n >= k * d
    <3>1. k * d <= q * d /\ k * d \in Int /\ q * d \in Int
      BY <2>1, <2>2, Cancel
    <3> QED
      BY <2>1, <3>1
  <2>3. ASSUME n >= k * d PROVE q >= k
    <3>1. k * d < (q + 1) * d
      <4>1. (q + 1) * d = q * d + d /\ q * d \in Int /\ k * d \in Int
        BY <2>1
      <4> QED
        BY <2>1, <2>3, <4>1
    <3>2. k < q + 1
      BY <2>1, <3>1, Cancel
    <3> QED
      BY <2>1, <3>2
  <2> QED
    BY <2>1, <2>2, <2>3
<1> QED
  BY <1>1, <1>2

-----------------------------------------------------------------------------
(* Health and cover.                                                          *)

LEMMA PoolFields ==
  ASSUME TypeOK
  PROVE  /\ ledger \in 0 .. MaxLedger /\ config \in Configs
         /\ \A t \in Tokens : market[t].price \in Nat \ {0} /\ market[t].timestamp \in Nat
         /\ pool.supply \in Int /\ pool.borrows \in Nat /\ pool.reserves \in Nat
         /\ pool.accrued \in 0 .. MaxLedger
         /\ position \in [Users -> Positions]
         /\ \A t \in Tokens : vault[t] \in Nat
         /\ CollateralToken \in Tokens /\ "debt" \in Tokens
         /\ \A t \in Tokens : PriceOf(t) \in Nat \ {0}
<1>1. \A t \in Tokens : market[t] \in [price : Nat \ {0}, timestamp : 0 .. MaxLedger]
  BY DEF TypeOK
<1>2. \A t \in Tokens : market[t].price \in Nat \ {0} /\ market[t].timestamp \in Nat
  BY <1>1, Numbers
<1>3. CollateralToken \in Tokens /\ "debt" \in Tokens
  BY DEF CollateralToken, Tokens
<1>4. \A t \in Tokens : PriceOf(t) \in Nat \ {0}
  BY <1>2 DEF PriceOf
<1> QED
  BY <1>2, <1>3, <1>4 DEF TypeOK, Positions

\* The health factor of calculate_health_factor, rounded as it is, tells exactly
\* the positions that are covered.
THEOREM HealthTellsCover ==
  ASSUME TypeOK, NEW x \in Positions, x.borrow > 0
  PROVE  Health(x) \in Int /\ (Health(x) >= Basis <=> Covered(x))
<1>1. PICK c \in Int, b \in Nat \ {0}, p \in Nat \ {0}, q \in Nat \ {0}, h \in Nat, B \in Nat \ {0} :
        /\ c = x.collateral /\ b = x.borrow /\ p = PriceOf(CollateralToken)
        /\ q = PriceOf("debt") /\ h = config.threshold /\ B = Basis
  <2>1. x.collateral \in Int /\ x.borrow \in Nat \ {0}
    BY DEF Positions
  <2>2. PriceOf(CollateralToken) \in Nat \ {0} /\ PriceOf("debt") \in Nat \ {0}
    BY PoolFields
  <2>3. config.threshold \in Nat /\ Basis \in Nat \ {0}
    BY PoolFields, ConfigFields, Numbers
  <2> QED
    BY <2>1, <2>2, <2>3
<1>2. PICK m \in Int, n \in Nat \ {0} : m = c * p * h /\ n = b * q
  <2>1. c * p * h \in Int
    OBVIOUS
  <2>2. b * q \in Nat \ {0}
    OBVIOUS
  <2> QED
    BY <2>1, <2>2
<1>3. m * B \in Int /\ n * B \in Nat \ {0}
  OBVIOUS
<1>4. Health(x) = Quotient(m * B, n * B)
  BY <1>1, <1>2 DEF Health
<1>5. Health(x) >= B <=> m * B >= B * (n * B)
  BY <1>3, <1>4, QuotientReaches
<1>6. B * (n * B) = (n * B) * B
  OBVIOUS
<1>7. m * B >= (n * B) * B <=> m >= n * B
  BY <1>3, Cancel
<1>8. Covered(x) <=> m >= n * B
  BY <1>1, <1>2 DEF Covered
<1> QED
  BY <1>1, <1>3, <1>4, <1>5, <1>6, <1>7, <1>8, QuotientType

LEMMA HealthyIsCovered ==
  ASSUME TypeOK, NEW x \in Positions, Healthy(x)
  PROVE  Covered(x) /\ (x.borrow > 0 => Priced)
<1>1. x.borrow \in Nat
  BY DEF Positions
<1>2. CASE x.borrow = 0
  BY <1>2 DEF Covered
<1>3. CASE x.borrow > 0
  BY <1>3, HealthTellsCover DEF Healthy
<1> QED
  BY <1>1, <1>2, <1>3

LEMMA LiquidatableIsUncovered ==
  ASSUME TypeOK, NEW x \in Positions, Liquidatable(x)
  PROVE  ~Covered(x) /\ Priced /\ x.borrow > 0
<1>1. x.borrow \in Nat /\ x.borrow > 0 /\ Priced /\ Health(x) < Basis
  BY DEF Positions, Liquidatable
<1> QED
  BY <1>1, HealthTellsCover, Numbers

-----------------------------------------------------------------------------
(* A call of an account writes one position.                                  *)

PoolStates == [supply : Int, borrows : Nat, reserves : Nat, accrued : 0 .. MaxLedger]

\* The position of u becomes y, and the settings stay.
Writes(u, y) ==
  /\ position' = [position EXCEPT ![u] = y]
  /\ UNCHANGED <<ledger, distinct, paused, config, oracle, market>>

\* The pool's total follows the debt of the position.
Booked(x, y) ==
  /\ pool' \in PoolStates /\ vault' \in [Tokens -> Nat]
  /\ pool'.borrows = pool.borrows + y.borrow - x.borrow

\* What a call may make of a position: it does not uncover it, it takes fresh
\* prices to weaken it, and it takes debt and collateral away only from an
\* uncovered one, within the bonus.
Justified(x, y) ==
  /\ Covered(x) /\ x # y => Covered(y)
  /\ y.borrow > x.borrow \/ (y.borrow > 0 /\ y.collateral < x.collateral) => Priced
  /\ x.borrow > y.borrow /\ x.collateral > y.collateral =>
       /\ ~Covered(x) /\ y.collateral >= 0
       /\ (x.collateral - y.collateral) * Basis <= (x.borrow - y.borrow) * (Basis + config.bonus)

JustifiedWrite(u) ==
  \E y \in Positions : Writes(u, y) /\ Booked(position[u], y) /\ Justified(position[u], y)

LEMMA PositionFields ==
  ASSUME TypeOK, NEW u \in Users
  PROVE  /\ position[u] \in Positions
         /\ position[u].deposit \in Nat /\ position[u].borrow \in Nat
         /\ position[u].collateral \in Int
  BY PoolFields DEF Positions

\* Debt, collateral and prices decide; a deposit does not.
LEMMA CoverGrows ==
  ASSUME TypeOK, NEW x \in Positions, NEW y \in Positions,
         y.borrow <= x.borrow, y.collateral >= x.collateral, Covered(x)
  PROVE  Covered(y)
<1>1. PICK c \in Int, b \in Nat, d \in Int, e \in Nat, p \in Nat, q \in Nat :
        /\ c = x.collateral /\ b = x.borrow /\ d = y.collateral /\ e = y.borrow
        /\ p = PriceOf(CollateralToken) /\ q = PriceOf("debt")
  BY PoolFields DEF Positions
<1>2. PICK h \in Nat, B \in Nat : h = config.threshold /\ B = Basis
  BY PoolFields, ConfigFields, Numbers
<1>3. e <= b /\ d >= c
  BY <1>1
<1>4. CASE b = 0
  <2>1. e = 0
    BY <1>3, <1>4
  <2> QED
    BY <1>1, <2>1 DEF Covered
<1>5. CASE b # 0
  <2>1. c * p * h >= b * q * B
    BY <1>1, <1>2, <1>5 DEF Covered
  <2>2. c * p <= d * p /\ c * p \in Int /\ d * p \in Int
    BY <1>3
  <2>3. (c * p) * h <= (d * p) * h
    BY <2>2
  <2>4. e * q <= b * q /\ e * q \in Int /\ b * q \in Int
    BY <1>3
  <2>5. (e * q) * B <= (b * q) * B
    BY <2>4
  <2>6. d * p * h >= e * q * B
    <3>1. c * p * h \in Int /\ d * p * h \in Int /\ b * q * B \in Int /\ e * q * B \in Int
      OBVIOUS
    <3> QED
      BY <2>1, <2>3, <2>5, <3>1
  <2> QED
    BY <1>1, <1>2, <2>6 DEF Covered
<1> QED
  BY <1>4, <1>5

LEMMA PoolTyped == TypeOK => pool \in PoolStates /\ vault \in [Tokens -> Nat]
  BY DEF TypeOK, PoolStates

LEMMA PayOutTyped ==
  ASSUME TypeOK, NEW t \in Tokens, NEW amount, PayOut(t, amount)
  PROVE  amount \in Nat /\ vault' \in [Tokens -> Nat]
<1>1. amount \in 0 .. vault[t] /\ vault[t] \in Nat
  BY PoolFields DEF PayOut
<1>2. vault[t] - amount \in Nat
  BY <1>1
<1> QED
  BY <1>1, <1>2, PoolTyped DEF PayOut

LEMMA DepositJustified ==
  ASSUME TypeOK, NEW u \in Users, NEW amount \in Amounts, Deposit(u, amount)
  PROVE  JustifiedWrite(u)
<1> DEFINE x == position[u]
           y == [x EXCEPT !.deposit = @ + amount]
<1>1. amount \in Nat \ {0}
  BY Numbers
<1>2. x \in Positions /\ x.deposit \in Nat
  BY PositionFields
<1>3. y \in Positions /\ y.borrow = x.borrow /\ y.collateral = x.collateral
  BY <1>1, <1>2 DEF Positions
<1>4. BTokens(amount) \in Int
  <2>1. CASE pool.supply = 0
    BY <1>1, <2>1 DEF BTokens
  <2>2. CASE pool.supply # 0
    <3>1. amount * pool.supply \in Int
      BY <1>1, PoolFields
    <3>2. TotalAssets \in Int \ {0}
      BY <2>2, PoolFields DEF Deposit, TotalAssets
    <3> QED
      BY <2>2, <3>1, <3>2, QuotientType DEF BTokens
  <2> QED
    BY <2>1, <2>2
<1>5. Writes(u, y)
  BY DEF Deposit, Writes, settings
<1>6. Booked(x, y)
  <2>1. pool' \in PoolStates /\ pool'.borrows = pool.borrows
    BY <1>4, PoolTyped DEF Deposit, PoolStates
  <2>2. vault' \in [Tokens -> Nat]
    BY <1>1, PoolTyped DEF Deposit, Tokens
  <2> QED
    BY <1>3, <2>1, <2>2, PoolFields, PositionFields DEF Booked
<1>7. Justified(x, y)
  BY <1>2, <1>3, CoverGrows DEF Justified, Positions
<1> QED
  BY <1>3, <1>5, <1>6, <1>7 DEF JustifiedWrite

LEMMA WithdrawJustified ==
  ASSUME TypeOK, NEW u \in Users, NEW shares \in Amounts, Withdraw(u, shares)
  PROVE  JustifiedWrite(u)
<1> DEFINE x == position[u]
           y == [x EXCEPT !.deposit = @ - shares]
<1>1. shares \in Nat \ {0}
  BY Numbers
<1>2. x \in Positions /\ x.deposit \in Nat /\ shares <= x.deposit
  BY PositionFields DEF Withdraw
<1>3. y \in Positions /\ y.borrow = x.borrow /\ y.collateral = x.collateral
  BY <1>1, <1>2 DEF Positions
<1>4. Writes(u, y)
  BY DEF Withdraw, Writes, settings
<1>5. Booked(x, y)
  <2>1. pool' \in PoolStates /\ pool'.borrows = pool.borrows
    BY <1>1, PoolTyped DEF Withdraw, PoolStates
  <2>2. vault' \in [Tokens -> Nat]
    BY PayOutTyped DEF Withdraw, Tokens
  <2> QED
    BY <1>3, <2>1, <2>2, PoolFields, PositionFields DEF Booked
<1>6. Justified(x, y)
  BY <1>2, <1>3, CoverGrows DEF Justified, Positions
<1> QED
  BY <1>3, <1>4, <1>5, <1>6 DEF JustifiedWrite

LEMMA BorrowJustified ==
  ASSUME TypeOK, NEW u \in Users, NEW amount \in Amounts, Borrow(u, amount)
  PROVE  JustifiedWrite(u)
<1> DEFINE x == position[u]
           y == [x EXCEPT !.borrow = @ + amount]
<1>1. amount \in Nat \ {0}
  BY Numbers
<1>2. x \in Positions /\ x.borrow \in Nat
  BY PositionFields
<1>3. y \in Positions /\ y.borrow = x.borrow + amount /\ y.collateral = x.collateral
  BY <1>1, <1>2 DEF Positions
<1>4. Writes(u, y)
  BY DEF Borrow, Writes, settings
<1>5. Booked(x, y)
  <2>1. pool' \in PoolStates /\ pool'.borrows = pool.borrows + amount
    BY <1>1, PoolTyped DEF Borrow, Lent, PoolStates
  <2>2. vault' \in [Tokens -> Nat]
    BY PayOutTyped DEF Borrow, Tokens
  <2> QED
    BY <1>1, <1>2, <1>3, <2>1, <2>2, PoolFields DEF Booked
<1>6. Justified(x, y)
  <2>1. Healthy(y) /\ y.borrow > 0
    BY <1>1, <1>2, <1>3 DEF Borrow
  <2>2. Covered(y) /\ Priced
    BY <1>3, <2>1, HealthyIsCovered
  <2> QED
    BY <1>1, <1>2, <1>3, <2>2 DEF Justified
<1> QED
  BY <1>3, <1>4, <1>5, <1>6 DEF JustifiedWrite

LEMMA RepaidIs ==
  ASSUME NEW x \in Positions, NEW amount \in Nat
  PROVE  /\ Repaid(x, amount) \in 0 .. x.borrow /\ Repaid(x, amount) <= amount
         /\ x.borrow > 0 /\ amount > 0 => Repaid(x, amount) > 0
  BY DEF Repaid, Positions

LEMMA DebtWithinTotal ==
  ASSUME LendingInv, NEW u \in Users
  PROVE  position[u].borrow <= pool.borrows
<1> DEFINE debts == [v \in Users |-> position[v].borrow]
<1>1. \A v \in Users : position[v].borrow \in Nat
  BY PositionFields DEF LendingInv
<1>2. debts \in [Users -> Int] /\ \A v \in Users : debts[v] \in Nat
  BY <1>1
<1>3. Total(debts) <= pool.borrows
  BY DEF LendingInv, DebtsWithinTotal
<1>4. debts[u] = position[u].borrow
  OBVIOUS
<1> HIDE DEF debts
<1>5. Total(debts) \in Int /\ debts[u] <= Total(debts)
  BY <1>2, Numbers, TotalType
<1> QED
  BY <1>1, <1>3, <1>4, <1>5, PoolFields DEF LendingInv

LEMMA RepayJustified ==
  ASSUME LendingInv, NEW u \in Users, NEW amount \in Amounts, Repay(u, amount)
  PROVE  JustifiedWrite(u)
<1> DEFINE x == position[u]
           n == Repaid(x, amount)
           y == [x EXCEPT !.borrow = @ - n]
<1>1. amount \in Nat /\ TypeOK
  BY Numbers DEF LendingInv
<1>2. x \in Positions /\ x.borrow \in Nat /\ x.collateral \in Int /\ x.borrow <= pool.borrows
  BY <1>1, PositionFields, DebtWithinTotal
<1>3. n \in 0 .. x.borrow
  BY <1>1, <1>2, RepaidIs
<1> HIDE DEF n
<1>4. y \in Positions /\ y.borrow = x.borrow - n /\ y.collateral = x.collateral
  BY <1>2, <1>3 DEF Positions
<1>5. Writes(u, y)
  BY DEF Repay, Writes, settings, n
<1>6. Booked(x, y)
  <2>1. pool.borrows - n \in Nat
    BY <1>1, <1>2, <1>3, PoolFields
  <2>2. pool' = [pool EXCEPT !.borrows = @ - n] /\ vault' = [vault EXCEPT !["debt"] = @ + n]
    BY DEF Repay, n
  <2>3. pool' \in PoolStates /\ pool'.borrows = pool.borrows - n
    BY <1>1, <2>1, <2>2, PoolTyped DEF PoolStates
  <2>4. vault' \in [Tokens -> Nat]
    BY <1>1, <1>2, <1>3, <2>2, PoolTyped DEF Tokens
  <2> QED
    BY <1>1, <1>2, <1>3, <1>4, <2>3, <2>4, PoolFields DEF Booked
<1>7. Justified(x, y)
  <2>1. Covered(x) => Covered(y)
    <3>1. y.borrow <= x.borrow /\ y.collateral >= x.collateral
      BY <1>2, <1>3, <1>4
    <3> QED
      BY <1>1, <1>2, <1>4, <3>1, CoverGrows
  <2> QED
    BY <1>2, <1>3, <1>4, <2>1 DEF Justified
<1> QED
  BY <1>4, <1>5, <1>6, <1>7 DEF JustifiedWrite

LEMMA SetCollateralJustified ==
  ASSUME TypeOK, NEW u \in Users, NEW amount \in Int, SetCollateral(u, amount)
  PROVE  JustifiedWrite(u)
<1> DEFINE x == position[u]
           y == [x EXCEPT !.collateral = amount]
<1>1. x \in Positions /\ x.borrow \in Nat
  BY PositionFields
<1>2. y \in Positions /\ y.borrow = x.borrow
  BY <1>1 DEF Positions
<1>3. Writes(u, y)
  BY DEF SetCollateral, Writes, settings
<1>4. Booked(x, y)
  BY <1>1, <1>2, PoolFields, PoolTyped DEF SetCollateral, Booked
<1>5. Covered(y) /\ (y.borrow > 0 => Priced)
  BY <1>2, HealthyIsCovered DEF SetCollateral
<1>6. Justified(x, y)
  BY <1>1, <1>2, <1>5 DEF Justified
<1> QED
  BY <1>2, <1>3, <1>4, <1>6 DEF JustifiedWrite

LEMMA DepositCollateralJustified ==
  ASSUME TypeOK, NEW u \in Users, NEW amount \in Pledges, DepositCollateral(u, amount)
  PROVE  JustifiedWrite(u)
<1> DEFINE x == position[u]
           y == [x EXCEPT !.collateral = @ + amount]
<1>1. amount \in Nat
  BY Numbers
<1>2. x \in Positions /\ x.borrow \in Nat /\ x.collateral \in Int
  BY PositionFields
<1>3. y \in Positions /\ y.borrow = x.borrow /\ y.collateral = x.collateral + amount
  BY <1>1, <1>2 DEF Positions
<1>4. Writes(u, y)
  BY DEF DepositCollateral, Writes, settings
<1>5. Booked(x, y)
  <2>1. vault' \in [Tokens -> Nat]
    BY <1>1, PoolFields, PoolTyped DEF DepositCollateral
  <2> QED
    BY <1>2, <1>3, <2>1, PoolFields, PoolTyped DEF DepositCollateral, Booked
<1>6. Covered(x) => Covered(y)
  <2>1. y.borrow <= x.borrow /\ y.collateral >= x.collateral
    BY <1>1, <1>2, <1>3
  <2> QED
    BY <1>2, <1>3, <2>1, CoverGrows
<1>7. Justified(x, y)
  BY <1>1, <1>2, <1>3, <1>6 DEF Justified
<1> QED
  BY <1>3, <1>4, <1>5, <1>7 DEF JustifiedWrite

LEMMA WithdrawCollateralJustified ==
  ASSUME TypeOK, NEW u \in Users, NEW amount \in Pledges, WithdrawCollateral(u, amount)
  PROVE  JustifiedWrite(u)
<1> DEFINE x == position[u]
           y == [x EXCEPT !.collateral = @ - amount]
<1>1. amount \in Nat
  BY Numbers
<1>2. x \in Positions /\ x.borrow \in Nat /\ x.collateral \in Int
  BY PositionFields
<1>3. y \in Positions /\ y.borrow = x.borrow
  BY <1>1, <1>2 DEF Positions
<1>4. Writes(u, y)
  BY DEF WithdrawCollateral, Writes, settings
<1>5. Booked(x, y)
  <2>1. vault' \in [Tokens -> Nat]
    BY PayOutTyped, PoolFields DEF WithdrawCollateral
  <2> QED
    BY <1>2, <1>3, <2>1, PoolFields, PoolTyped DEF WithdrawCollateral, Booked
<1>6. Covered(y) /\ (y.borrow > 0 => Priced)
  BY <1>3, HealthyIsCovered DEF WithdrawCollateral, CheckedAfter
<1>7. Justified(x, y)
  BY <1>2, <1>3, <1>6 DEF Justified
<1> QED
  BY <1>3, <1>4, <1>5, <1>7 DEF JustifiedWrite

\* A seizure is the repayment and the bonus, rounded down.
LEMMA SeizedIs ==
  ASSUME TypeOK, NEW n \in Nat
  PROVE  Seized(n) \in Nat /\ Seized(n) * Basis <= n * (Basis + config.bonus)
<1>1. PICK m \in Nat : m = n * (Basis + config.bonus)
  BY PoolFields, ConfigFields, Numbers
<1>2. Seized(n) = m \div Basis /\ Basis \in Nat \ {0}
  BY <1>1, Numbers DEF Seized
<1>3. m \div Basis \in Int /\ (m \div Basis) * Basis <= m /\ m \div Basis >= 0
  BY <1>1, <1>2, DivIs
<1> QED
  BY <1>1, <1>2, <1>3

LEMMA LiquidateJustified ==
  ASSUME LendingInv, NEW u \in Users, NEW amount \in Nat, NEW minimum,
         Liquidate(u, amount, minimum)
  PROVE  JustifiedWrite(u)
<1> DEFINE x == position[u]
           n == Repaid(x, amount)
           k == Seized(n)
           y == [x EXCEPT !.borrow = @ - n, !.collateral = @ - k]
<1>1. TypeOK
  BY DEF LendingInv
<1>2. x \in Positions /\ x.borrow \in Nat /\ x.collateral \in Int /\ x.borrow <= pool.borrows
  BY <1>1, PositionFields, DebtWithinTotal
<1>3. n \in 0 .. x.borrow
  BY <1>2, RepaidIs
<1>4. k \in Nat /\ k * Basis <= n * (Basis + config.bonus) /\ k <= x.collateral
  BY <1>1, <1>3, SeizedIs DEF Liquidate, LiquidationAccepted
<1>5. ~Covered(x) /\ Priced
  BY <1>1, <1>2, LiquidatableIsUncovered DEF Liquidate, LiquidationAccepted
<1>6. k <= vault[CollateralToken] + (IF distinct THEN 0 ELSE n)
  BY DEF Liquidate, LiquidationAccepted, VaultHolds
<1>7. /\ position' = [position EXCEPT ![u].borrow = @ - n, ![u].collateral = @ - k]
      /\ pool' = [pool EXCEPT !.borrows = @ - n]
      /\ vault' = [[vault EXCEPT !["debt"] = @ + n] EXCEPT ![CollateralToken] = @ - k]
      /\ UNCHANGED <<ledger, distinct, paused, config, oracle, market>>
  BY DEF Liquidate, settings
<1> HIDE DEF n, k
<1>8. y \in Positions /\ y.borrow = x.borrow - n /\ y.collateral = x.collateral - k
  <2>1. x.borrow - n \in Nat /\ x.collateral - k \in Int
    BY <1>2, <1>3, <1>4
  <2> QED
    BY <1>2, <2>1 DEF Positions
<1>9. Writes(u, y)
  BY <1>7 DEF Writes
<1>10. Booked(x, y)
  <2>1. pool.borrows - n \in Nat
    BY <1>1, <1>2, <1>3, PoolFields
  <2>2. pool' \in PoolStates /\ pool'.borrows = pool.borrows - n
    BY <1>1, <1>7, <2>1, PoolTyped DEF PoolStates
  <2>3. vault' \in [Tokens -> Nat]
    <3>1. PICK v \in [Tokens -> Nat] : v = [vault EXCEPT !["debt"] = @ + n]
      <4>1. vault["debt"] + n \in Nat
        BY <1>1, <1>2, <1>3, PoolFields
      <4> QED
        BY <1>1, <4>1, PoolTyped
    <3>2. v[CollateralToken] = vault[CollateralToken] + (IF distinct THEN 0 ELSE n)
      BY <1>1, <1>2, <1>3, <3>1, PoolTyped, PoolFields DEF CollateralToken, Tokens
    <3>3. v[CollateralToken] - k \in Nat
      BY <1>1, <1>4, <1>6, <3>1, <3>2, PoolFields
    <3> QED
      BY <1>7, <3>1, <3>3
  <2> QED
    BY <1>1, <1>2, <1>3, <1>8, <2>2, <2>3, PoolFields DEF Booked
<1>11. Justified(x, y)
  <2>1. x.borrow - y.borrow = n /\ x.collateral - y.collateral = k /\ y.collateral >= 0
    BY <1>2, <1>3, <1>4, <1>8
  <2> QED
    BY <1>4, <1>5, <2>1 DEF Justified
<1> QED
  BY <1>8, <1>9, <1>10, <1>11 DEF JustifiedWrite

-----------------------------------------------------------------------------
(* What else happens leaves the positions alone.                              *)

LEMMA WriteKeeps ==
  ASSUME LendingInv, NEW u \in Users, JustifiedWrite(u)
  PROVE  LendingInv'
<1> DEFINE debts == [v \in Users |-> position[v].borrow]
<1>1. PICK y \in Positions : Writes(u, y) /\ Booked(position[u], y)
  BY DEF JustifiedWrite
<1>2. TypeOK /\ position \in [Users -> Positions]
  BY PoolFields DEF LendingInv
<1>3. position' = [position EXCEPT ![u] = y] /\ position' \in [Users -> Positions]
  BY <1>1, <1>2 DEF Writes
<1>4. TypeOK'
  BY <1>1, <1>2, <1>3 DEF TypeOK, Writes, Booked, PoolStates, Positions
<1>5. DebtsWithinTotal'
  <2>1. /\ debts \in [Users -> Int] /\ debts' \in [Users -> Int]
        /\ \A v \in Users \ {u} : debts'[v] = debts[v]
        /\ debts[u] = position[u].borrow /\ debts'[u] = y.borrow
    <3>1. \A v \in Users : position[v].borrow \in Int /\ position'[v].borrow \in Int
      BY <1>2, <1>3 DEF Positions
    <3>2. debts' = [v \in Users |-> position'[v].borrow]
      OBVIOUS
    <3>3. position'[u] = y /\ \A v \in Users \ {u} : position'[v] = position[v]
      BY <1>2, <1>3
    <3> QED
      BY <3>1, <3>2, <3>3
  <2>2. Total(debts) <= pool.borrows
    BY DEF LendingInv, DebtsWithinTotal
  <2>3. pool'.borrows = pool.borrows + y.borrow - position[u].borrow
    BY <1>1 DEF Booked
  <2>4. pool.borrows \in Int /\ y.borrow \in Int /\ position[u].borrow \in Int
    BY <1>2, PoolFields DEF Positions
  <2>5. debts' = [v \in Users |-> position'[v].borrow]
    OBVIOUS
  <2>6. debts = [v \in Users |-> position[v].borrow]
    OBVIOUS
  <2> HIDE DEF debts
  <2>7. Total(debts) \in Int /\ Total(debts') = Total(debts) + debts'[u] - debts[u]
    BY ONLY <2>1, Numbers, TotalType, TotalChange, u \in Users
  <2>8. Total(debts') <= pool'.borrows
    BY <2>1, <2>2, <2>3, <2>4, <2>7
  <2> QED
    BY <2>5, <2>8 DEF DebtsWithinTotal
<1> QED
  BY <1>4, <1>5 DEF LendingInv

\* Positions stay, and the total does not fall.
LEMMA RestKeeps ==
  ASSUME LendingInv, TypeOK', UNCHANGED position, pool'.borrows >= pool.borrows
  PROVE  LendingInv'
<1> DEFINE debts == [v \in Users |-> position[v].borrow]
<1>1. TypeOK /\ Total(debts) <= pool.borrows
  BY DEF LendingInv, DebtsWithinTotal
<1>2. debts \in [Users -> Int]
  BY <1>1, PositionFields
<1>3. Total(debts) \in Int
  <2> HIDE DEF debts
  <2> QED
    BY <1>2, Numbers, TotalType
<1>4. pool.borrows \in Int /\ pool'.borrows \in Int
  BY <1>1, PoolFields DEF TypeOK
<1>5. Total(debts) <= pool'.borrows
  BY <1>1, <1>3, <1>4
<1> QED
  BY <1>5 DEF LendingInv, DebtsWithinTotal

LEMMA AccrueKeeps ==
  ASSUME LendingInv, AccrueInterest PROVE LendingInv' /\ UNCHANGED position
<1>1. TypeOK /\ config \in Configs
  BY PoolFields DEF LendingInv
<1>2. Interest \in Nat
  <2>1. PICK t \in Nat : t = ledger - pool.accrued
    BY <1>1, PoolFields DEF AccrueInterest
  <2>2. pool.borrows * config.rate * t \in Nat /\ Basis * RateScale \in Nat \ {0}
    BY <1>1, PoolFields, ConfigFields, Numbers
  <2> QED
    BY <2>1, <2>2, DivIs DEF Interest
<1>3. (Interest * config.reserve) \div Basis \in Nat
  <2>1. Interest * config.reserve \in Nat
    BY <1>1, <1>2, ConfigFields
  <2> QED
    BY <2>1, Numbers, DivIs
<1>4. pool' = [pool EXCEPT
        !.borrows = @ + Interest,
        !.reserves = @ + (Interest * config.reserve) \div Basis,
        !.accrued = ledger]
      /\ UNCHANGED <<ledger, settings, market, position, vault>>
  BY DEF AccrueInterest
<1>5. pool' \in PoolStates /\ pool'.borrows >= pool.borrows
  <2>1. PICK i \in Nat, r \in Nat : i = Interest /\ r = (Interest * config.reserve) \div Basis
    BY <1>2, <1>3
  <2>2. pool' = [pool EXCEPT !.borrows = @ + i, !.reserves = @ + r, !.accrued = ledger]
    BY <1>4, <2>1
  <2>3. pool.borrows + i \in Nat /\ pool.reserves + r \in Nat /\ pool.borrows + i >= pool.borrows
    BY <1>1, PoolFields
  <2> QED
    BY <1>1, <2>2, <2>3, PoolTyped, PoolFields DEF PoolStates
<1>6. TypeOK'
  BY <1>1, <1>4, <1>5 DEF TypeOK, settings, PoolStates
<1> QED
  BY <1>4, <1>5, <1>6, RestKeeps

LEMMA OthersKeep ==
  ASSUME LendingInv,
         \/ \E value \in BOOLEAN : SetPaused(value) \/ SetPriceOracle(value)
         \/ \E chosen \in Configs : UpdateConfig(chosen)
         \/ \E t \in Tokens : \E price \in Prices[t] : Report(t, price)
         \/ CloseLedger
         \/ UNCHANGED poolVars
  PROVE  LendingInv' /\ UNCHANGED position
<1>1. TypeOK
  BY DEF LendingInv
<1>2. TypeOK' /\ UNCHANGED <<position, pool>>
  <2>1. ASSUME NEW value \in BOOLEAN, SetPaused(value) \/ SetPriceOracle(value)
        PROVE  TypeOK' /\ UNCHANGED <<position, pool>>
    BY <1>1, <2>1 DEF TypeOK, SetPaused, SetPriceOracle
  <2>2. ASSUME NEW chosen \in Configs, UpdateConfig(chosen)
        PROVE  TypeOK' /\ UNCHANGED <<position, pool>>
    BY <1>1, <2>2 DEF TypeOK, UpdateConfig
  <2>3. ASSUME NEW t \in Tokens, NEW price \in Prices[t], Report(t, price)
        PROVE  TypeOK' /\ UNCHANGED <<position, pool>>
    <3>1. price \in Nat \ {0}
      BY LendingAssumption
    <3> QED
      BY <1>1, <2>3, <3>1 DEF TypeOK, Report, settings
  <2>4. ASSUME CloseLedger PROVE TypeOK' /\ UNCHANGED <<position, pool>>
    BY <1>1, <2>4, Numbers DEF TypeOK, CloseLedger, settings
  <2>5. ASSUME UNCHANGED poolVars PROVE TypeOK' /\ UNCHANGED <<position, pool>>
    BY <1>1, <2>5 DEF TypeOK, poolVars, settings
  <2> QED
    BY <2>1, <2>2, <2>3, <2>4, <2>5
<1>3. pool'.borrows >= pool.borrows
  BY <1>1, <1>2, PoolFields
<1> QED
  BY <1>2, <1>3, RestKeeps

-----------------------------------------------------------------------------
(* The bot.                                                                   *)

BotOK ==
  /\ todo \subseteq Watched /\ account \in Watched
  /\ stage \in {"Choosing", "Reading", "Submitting"}
  /\ seen.position \in Positions
  /\ seen \in [parts : SUBSET {"position", "health"}, position : Positions, health : Int]
  /\ plan \in [repay : 0 .. MaxRepay, minimum : Nat]
  /\ stage = "Submitting" => plan.repay > 0

IndInv == LendingInv /\ BotOK

LEMMA HealthReportedType ==
  ASSUME TypeOK, NEW x \in Positions
  PROVE  HealthReported(x) \in Int
<1>1. x.borrow \in Nat
  BY DEF Positions
<1>2. CASE x.borrow = 0
  BY <1>2, Numbers DEF HealthReported, Highest
<1>3. CASE x.borrow > 0
  BY <1>3, HealthTellsCover DEF HealthReported
<1> QED
  BY <1>1, <1>2, <1>3

\* What a plan asks for is at most the debt, the limit and what the collateral
\* buys, and its minimum at most what the bot expects.
LEMMA PlanIs ==
  ASSUME NEW x \in Positions
  PROVE  /\ RepayPlanned(x) \in 0 .. MaxRepay /\ RepayPlanned(x) <= x.borrow
         /\ x.collateral > 0 => RepayPlanned(x) * (Basis + BotBonus) <= x.collateral * Basis
         /\ PlanFor(x) = [repay |-> RepayPlanned(x), minimum |-> PlanFor(x).minimum]
         /\ PlanFor(x).minimum \in Nat
         /\ PlanFor(x).minimum <= (RepayPlanned(x) * (Basis + BotBonus)) \div Basis
<1> DEFINE affordable == IF x.collateral > 0 THEN (x.collateral * Basis) \div (Basis + BotBonus) ELSE 0
<1>1. PICK B \in Nat \ {0}, W \in Nat \ {0} : B = Basis /\ W = Basis + BotBonus
  BY Numbers
<1>2. PICK c \in Int, b \in Nat, M \in Nat : c = x.collateral /\ b = x.borrow /\ M = MaxRepay
  BY Numbers DEF Positions
<1>3. affordable \in Nat /\ (c > 0 => affordable * W <= c * B)
  <2>1. CASE c > 0
    <3>1. c * B \in Nat
      BY <2>1
    <3>2. (c * B) \div W \in Int /\ ((c * B) \div W) * W <= c * B /\ (c * B) \div W >= 0
      BY <3>1, DivIs
    <3> QED
      BY <1>1, <1>2, <2>1, <3>2
  <2>2. CASE ~(c > 0)
    BY <1>2, <2>2
  <2> QED
    BY <2>1, <2>2
<1> HIDE DEF affordable
<1>4. PICK r \in Nat : r = RepayPlanned(x) /\ r <= b /\ r <= M /\ r <= affordable
  <2>1. RepayPlanned(x) = Least(b, Least(M, affordable))
    BY <1>2 DEF RepayPlanned, affordable
  <2> QED
    BY <1>3, <2>1 DEF Least
<1>5. ASSUME c > 0 PROVE r * W <= c * B
  <2>1. r * W <= affordable * W /\ r * W \in Int /\ affordable * W \in Int /\ c * B \in Int
    BY <1>3, <1>4, Cancel
  <2> QED
    BY <1>3, <1>5, <2>1
<1>6. PICK e \in Nat : e = (r * W) \div B
  BY DivIs
<1>7. PICK s \in Nat : s = B - Slippage /\ s <= B
  BY <1>1, Numbers
<1>8. (e * s) \div B \in Nat /\ (e * s) \div B <= e
  <2>1. e * s \in Nat
    OBVIOUS
  <2>2. (e * s) \div B \in Int /\ ((e * s) \div B) * B <= e * s /\ (e * s) \div B >= 0
    BY <2>1, DivIs
  <2>3. e * s <= e * B
    BY <1>7
  <2>4. ((e * s) \div B) * B \in Int /\ e * s \in Int /\ e * B \in Int
    BY <2>2
  <2>5. ((e * s) \div B) * B <= e * B
    BY <2>2, <2>3, <2>4
  <2> QED
    BY <2>2, <2>5, Cancel
<1>9. PlanFor(x) = [repay |-> r, minimum |-> (e * s) \div B]
  BY <1>1, <1>4, <1>6, <1>7 DEF PlanFor
<1> QED
  BY <1>1, <1>2, <1>4, <1>5, <1>6, <1>8, <1>9

LEMMA BotInitOK == Init => BotOK
<1> SUFFICES ASSUME Init PROVE BotOK
  OBVIOUS
<1>1. NoPosition \in Positions /\ NoPlan \in [repay : 0 .. MaxRepay, minimum : Nat]
  BY Numbers DEF NoPosition, NoPlan, Positions
<1> QED
  BY <1>1 DEF Init, BotInit, BotOK, Nothing

LEMMA NothingTyped ==
  /\ Nothing \in [parts : SUBSET {"position", "health"}, position : Positions, health : Int]
  /\ NoPlan \in [repay : 0 .. MaxRepay, minimum : Nat]
  BY Numbers DEF Nothing, NoPosition, NoPlan, Positions

LEMMA BotKeeps ==
  ASSUME IndInv, [Next]_vars PROVE BotOK'
<1>1. TypeOK /\ BotOK
  BY DEF IndInv, LendingInv
<1>2. CASE UNCHANGED botVars
  BY <1>1, <1>2 DEF BotOK, botVars
<1>3. CASE MoveOn
  BY <1>1, <1>3, NothingTyped DEF BotOK, MoveOn
<1>4. CASE NextRound
  BY <1>1, <1>4 DEF BotOK, NextRound
<1>5. ASSUME NEW u \in Watched, Choose(u) PROVE BotOK'
  BY <1>1, <1>5 DEF BotOK, Choose
<1>6. position[account] \in Positions
  BY <1>1, Numbers, PositionFields DEF BotOK
<1>7. CASE ReadPosition
  BY <1>1, <1>6, <1>7 DEF BotOK, ReadPosition
<1>8. CASE ReadHealth
  <2>1. HealthReported(position[account]) \in Int
    BY <1>1, <1>6, HealthReportedType
  <2> QED
    BY <1>1, <1>8, <2>1 DEF BotOK, ReadHealth
<1>9. CASE Decide
  <2>1. seen.position \in Positions
    BY <1>1 DEF BotOK
  <2>2. PlanFor(seen.position) \in [repay : 0 .. MaxRepay, minimum : Nat]
        /\ PlanFor(seen.position).repay = RepayPlanned(seen.position)
    BY <2>1, PlanIs
  <2>3. /\ plan' \in [repay : 0 .. MaxRepay, minimum : Nat]
        /\ stage' \in {"Choosing", "Submitting"}
        /\ stage' = "Submitting" => plan'.repay > 0
    BY <1>9, <2>2, NothingTyped DEF Decide, WorthSubmitting
  <2>4. seen' = Nothing /\ UNCHANGED <<todo, account>>
    BY <1>9 DEF Decide
  <2> QED
    BY <1>1, <2>3, <2>4, NothingTyped DEF BotOK
<1> QED
  BY <1>2, <1>3, <1>4, <1>5, <1>7, <1>8, <1>9
    DEF Next, BotStep, Others, Fail, Execute, Refused, vars

-----------------------------------------------------------------------------
(* The system.                                                                *)

\* A step writes one position for a reason, or none.
LEMMA StepIs ==
  ASSUME IndInv, [Next]_vars
  PROVE  (\E u \in Users : JustifiedWrite(u)) \/ (LendingInv' /\ UNCHANGED position)
<1>1. LendingInv /\ TypeOK /\ BotOK
  BY DEF IndInv, LendingInv
<1>2. ASSUME PoolCall
      PROVE  (\E u \in Users : JustifiedWrite(u)) \/ (LendingInv' /\ UNCHANGED position)
  <2>1. ASSUME NEW u \in Users, NEW amount \in Amounts,
               \/ Deposit(u, amount) \/ Withdraw(u, amount)
               \/ Borrow(u, amount) \/ Repay(u, amount)
        PROVE  JustifiedWrite(u)
    BY <1>1, <2>1, DepositJustified, WithdrawJustified, BorrowJustified, RepayJustified
  <2>2. ASSUME NEW u \in Users, NEW amount \in Pledges \union {-1}, SetCollateral(u, amount)
        PROVE  JustifiedWrite(u)
    <3>1. amount \in Int
      BY Numbers
    <3> QED
      BY <1>1, <2>2, <3>1, SetCollateralJustified
  <2>3. ASSUME NEW u \in Users, NEW amount \in Pledges,
               DepositCollateral(u, amount) \/ WithdrawCollateral(u, amount)
        PROVE  JustifiedWrite(u)
    BY <1>1, <2>3, DepositCollateralJustified, WithdrawCollateralJustified
  <2> QED
    BY <1>1, <1>2, <2>1, <2>2, <2>3, OthersKeep DEF PoolCall
<1>3. ASSUME NEW u \in Users, NEW amount \in Nat, NEW minimum, Liquidate(u, amount, minimum)
      PROVE  JustifiedWrite(u)
  BY <1>1, <1>3, LiquidateJustified
<1>4. ASSUME NEW u \in Users, NEW amount \in Offers, OtherLiquidates(u, amount)
      PROVE  JustifiedWrite(u)
  BY <1>3, <1>4, Numbers DEF OtherLiquidates
<1>5. ASSUME Execute PROVE JustifiedWrite(account)
  <2>1. account \in Users /\ plan.repay \in Nat
    BY <1>1, Numbers DEF BotOK
  <2> QED
    BY <1>3, <1>5, <2>1 DEF Execute
<1>6. account \in Users
  BY <1>1, Numbers DEF BotOK
<1>7. CASE Time
  BY <1>1, <1>7, AccrueKeeps, OthersKeep DEF Time
<1>8. CASE UNCHANGED poolVars
  BY <1>1, <1>8, OthersKeep
<1> QED
  BY <1>2, <1>4, <1>5, <1>6, <1>7, <1>8
    DEF Next, Others, BotStep, NextRound, Choose, ReadPosition, ReadHealth, Decide, Refused,
      Fail, vars

LEMMA InitInv == Init => IndInv
<1> SUFFICES ASSUME Init PROVE IndInv
  OBVIOUS
<1> DEFINE debts == [u \in Users |-> position[u].borrow]
<1>1. TypeOK
  <2>1. /\ ledger = 0 /\ distinct \in BOOLEAN /\ oracle = distinct /\ paused = FALSE
        /\ config \in Configs
        /\ pool = [supply |-> 0, borrows |-> 0, reserves |-> 0, accrued |-> 0]
        /\ position = [u \in Users |-> [deposit |-> 0, borrow |-> 0, collateral |-> 0]]
        /\ vault = [t \in Tokens |-> 0]
    BY LendingAssumption DEF Init, PoolInit
  <2>2. market \in [Tokens -> [price : Nat \ {0}, timestamp : 0 .. MaxLedger]]
    <3>1. /\ market \in [Tokens -> [price : UNION Range(Prices), timestamp : {0}]]
          /\ \A t \in Tokens : market[t].price \in Prices[t]
      BY DEF Init, PoolInit
    <3>2. \A t \in Tokens : market[t].price \in Nat \ {0} /\ market[t].timestamp = 0
      BY <3>1, LendingAssumption
    <3>3. 0 \in 0 .. MaxLedger
      BY Numbers
    <3>4. ASSUME NEW t \in Tokens PROVE market[t] \in [price : Nat \ {0}, timestamp : 0 .. MaxLedger]
      <4>1. market[t] \in [price : UNION Range(Prices), timestamp : {0}]
        BY <3>1
      <4>2. PICK p : p = market[t].price /\ market[t] = [price |-> p, timestamp |-> 0]
        BY <4>1
      <4> QED
        BY <3>2, <3>3, <4>2
    <3> QED
      BY <3>1, <3>4
  <2>3. pool \in PoolStates /\ position \in [Users -> Positions] /\ vault \in [Tokens -> Nat]
    BY <2>1, Numbers DEF PoolStates, Positions
  <2> QED
    BY <2>1, <2>2, <2>3, Numbers DEF TypeOK, PoolStates, Positions
<1>2. debts \in [Users -> Int] /\ \A u \in Users : debts[u] = 0
  BY DEF Init, PoolInit
<1>3. Total(debts) = 0
  <2> HIDE DEF debts
  <2> QED
    BY <1>2, Numbers, TotalType
<1>4. DebtsWithinTotal
  BY <1>3 DEF DebtsWithinTotal, Init, PoolInit
<1> QED
  BY <1>1, <1>4, BotInitOK DEF IndInv, LendingInv

LEMMA NextInv == IndInv /\ [Next]_vars => IndInv'
<1> SUFFICES ASSUME IndInv, [Next]_vars PROVE IndInv'
  OBVIOUS
<1>1. LendingInv'
  BY StepIs, WriteKeeps DEF IndInv
<1> QED
  BY <1>1, BotKeeps DEF IndInv

\* No sequence of calls makes a debt, a deposit or a balance of the pool negative,
\* and its total covers the debts whatever is borrowed, repaid and liquidated, by
\* whomever and in whatever order (borrow, repay, liquidate, accrue_interest).
THEOREM PoolStaysSound == Spec => []LendingInv
<1>1. IndInv => LendingInv
  BY DEF IndInv
<1> QED
  BY <1>1, InitInv, NextInv, PTL DEF Spec

\* In every step each position that changes was written for a reason.
LEMMA EachJustified ==
  ASSUME IndInv, [Next]_vars, NEW u \in Users, position'[u] # position[u]
  PROVE  /\ position'[u] \in Positions /\ Justified(position[u], position'[u])
         /\ Writes(u, position'[u])
<1>1. PICK v \in Users : JustifiedWrite(v)
  BY StepIs
<1>2. PICK y \in Positions : Writes(v, y) /\ Justified(position[v], y)
  BY <1>1 DEF JustifiedWrite
<1>3. position \in [Users -> Positions]
  BY PoolFields DEF IndInv, LendingInv
<1>4. v = u /\ position'[u] = y
  BY <1>2, <1>3 DEF Writes
<1> QED
  BY <1>2, <1>4

\* Only the market, the admin and time uncover a position: no call does, not the
\* borrower's own and not a liquidation (require_healthy, liquidate).
THEOREM CallsNeverUncover == Spec => OnlyTheMarketHurts
<1>1. ASSUME IndInv, [Next]_vars, NEW u \in Users,
             position[u] # position'[u], Covered(position[u])
      PROVE  Covered(position[u])'
  <2>1. Covered(position'[u]) /\ Writes(u, position'[u])
    BY <1>1, EachJustified DEF Justified
  <2> QED
    BY <2>1 DEF Writes, Covered, PriceOf, CollateralToken
<1>2. IndInv /\ [Next]_vars =>
        [\A u \in Users :
           position[u] # position'[u] /\ Covered(position[u]) => Covered(position[u])']_poolVars
  BY <1>1
<1> QED
  BY <1>2, InitInv, NextInv, PTL DEF Spec, OnlyTheMarketHurts

\* No debt grows, no collateral leaves a borrower and nobody is liquidated on a
\* stale price (read_oracle_price).
THEOREM PricesAlwaysFresh == Spec => FreshPricesOnly
<1>1. ASSUME IndInv, [Next]_vars, NEW u \in Users, oracle,
             \/ position'[u].borrow > position[u].borrow
             \/ position'[u].borrow > 0 /\ position'[u].collateral < position[u].collateral
      PROVE  \A t \in {"debt", CollateralToken} : ledger - market[t].timestamp <= MaxAge
  <2>1. position'[u] # position[u]
    <3>1. position[u].borrow \in Int /\ position[u].collateral \in Int
      BY <1>1, PositionFields DEF IndInv, LendingInv
    <3> QED
      BY <1>1, <3>1
  <2>2. Justified(position[u], position'[u])
    BY <1>1, <2>1, EachJustified
  <2>3. Priced
    BY <1>1, <2>2 DEF Justified
  <2> QED
    BY <1>1, <2>3 DEF Priced, Fresh
<1>2. IndInv /\ [Next]_vars =>
        [\A u \in Users :
           oracle /\ (\/ position'[u].borrow > position[u].borrow
                      \/ position'[u].borrow > 0 /\ position'[u].collateral < position[u].collateral)
             => \A t \in {"debt", CollateralToken} : ledger - market[t].timestamp <= MaxAge]_poolVars
  BY <1>1
<1> QED
  BY <1>2, InitInv, NextInv, PTL DEF Spec, FreshPricesOnly

\* A liquidation hits only an uncovered position and takes no more than the
\* repayment and the bonus, and no more than there is (liquidate).
THEOREM LiquidationsAreDue == Spec => LiquidationIsDue
<1>1. ASSUME IndInv, [Next]_vars, NEW u \in Users,
             position[u].borrow - position'[u].borrow > 0,
             position[u].collateral - position'[u].collateral > 0
      PROVE  /\ ~Covered(position[u])
             /\ (position[u].collateral - position'[u].collateral) * Basis
                  <= (position[u].borrow - position'[u].borrow) * (Basis + config.bonus)
             /\ position'[u].collateral >= 0
  <2>1. position[u].borrow \in Int /\ position[u].collateral \in Int
    BY <1>1, PositionFields DEF IndInv, LendingInv
  <2>2. position'[u] # position[u]
    BY <1>1, <2>1
  <2>3. position'[u] \in Positions /\ Justified(position[u], position'[u])
    BY <1>1, <2>2, EachJustified
  <2>4. position'[u].borrow \in Int /\ position'[u].collateral \in Int
    BY <2>3 DEF Positions
  <2>5. position[u].borrow > position'[u].borrow /\ position[u].collateral > position'[u].collateral
    BY <1>1, <2>1, <2>4
  <2> QED
    BY <2>3, <2>5 DEF Justified
<1>2. IndInv /\ [Next]_vars =>
        [\A u \in Users :
           LET repaid == position[u].borrow - position'[u].borrow
               seized == position[u].collateral - position'[u].collateral
           IN repaid > 0 /\ seized > 0 =>
                /\ ~Covered(position[u])
                /\ seized * Basis <= repaid * (Basis + config.bonus)
                /\ position'[u].collateral >= 0]_poolVars
  BY <1>1
<1> QED
  BY <1>2, InitInv, NextInv, PTL DEF Spec, LiquidationIsDue

\* Whatever moved since it read, a liquidation of the bot repays at least one unit
\* and no more than its limit, and brings no less than the minimum of its plan
\* (planLiquidation, min_collateral).
THEOREM BotAlwaysGetsItsMinimum == Spec => BotGetsItsMinimum
<1>1. ASSUME IndInv, [Next]_vars, stage = "Submitting", position' # position, stage' = "Choosing"
      PROVE  LET x == position[account]
                 y == position'[account]
             IN /\ x.borrow - y.borrow \in 1 .. MaxRepay
                /\ x.collateral - y.collateral >= plan.minimum
  <2> DEFINE x == position[account]
             n == Repaid(x, plan.repay)
  <2>1. TypeOK /\ BotOK
    BY <1>1 DEF IndInv, LendingInv
  <2>2. Execute
    <3>1. position' = position \/ Execute \/ UNCHANGED botVars
      BY <1>1 DEF Next, BotStep, Others, NextRound, Choose, ReadPosition, ReadHealth, Decide,
        Refused, Fail, vars, poolVars
    <3> QED
      BY <1>1, <3>1 DEF botVars
  <2>3. account \in Users /\ plan.repay \in 1 .. MaxRepay /\ MaxRepay \in Nat /\ plan.minimum \in Nat
    BY <1>1, <2>1, Numbers DEF BotOK
  <2>4. x \in Positions /\ x.borrow \in Nat /\ x.collateral \in Int
    BY <2>1, <2>3, PositionFields
  <2>5. x.borrow > 0 /\ Seized(n) >= plan.minimum
    BY <2>2, <2>4 DEF Execute, Liquidate, LiquidationAccepted, Liquidatable, WorthIt
  <2>6. n \in 1 .. MaxRepay
    BY <2>3, <2>4, <2>5, RepaidIs
  <2>7. Seized(n) \in Nat
    BY <2>1, <2>6, SeizedIs
  <2>8. position' = [position EXCEPT ![account].borrow = @ - n, ![account].collateral = @ - Seized(n)]
    BY <2>2 DEF Execute, Liquidate
  <2> HIDE DEF n
  <2>9. /\ position'[account].borrow = x.borrow - n
        /\ position'[account].collateral = x.collateral - Seized(n)
    <3>1. position \in [Users -> Positions]
      BY <2>1, PoolFields
    <3> QED
      BY <2>3, <2>8, <3>1 DEF Positions
  <2>10. x.borrow - (x.borrow - n) = n /\ x.collateral - (x.collateral - Seized(n)) = Seized(n)
    BY <2>4, <2>6, <2>7
  <2> QED
    BY <2>5, <2>6, <2>9, <2>10
<1>2. IndInv /\ [Next]_vars =>
        [stage = "Submitting" /\ position' # position /\ stage' = "Choosing" =>
           LET x == position[account]
               y == position'[account]
           IN /\ x.borrow - y.borrow \in 1 .. MaxRepay
              /\ x.collateral - y.collateral >= plan.minimum]_vars
  BY <1>1
<1> QED
  BY <1>2, InitInv, NextInv, PTL DEF Spec, BotGetsItsMinimum

\* What the bot can liquidate, it does unless something moves: of a position within
\* reach it makes a plan for at least one unit (planLiquidation), and as long as
\* nothing changes the pool accepts it (liquidate).  It is the step that the
\* progress of the bot, BadDebtIsCollected, rests on.
THEOREM PlansWithinReachSucceed ==
  ASSUME IndInv, NEW u \in Watched, WithinReach(u)
  PROVE  LET x == position[u]
             made == PlanFor(x)
         IN /\ WorthSubmitting(x, HealthReported(x))
            /\ made.repay > 0
            /\ LiquidationAccepted(u, made.repay, made.minimum)
<1> DEFINE x == position[u]
           made == PlanFor(x)
           n == RepayPlanned(x)
<1>1. TypeOK /\ u \in Users
  BY Numbers DEF IndInv, LendingInv
<1>2. x \in Positions /\ x.borrow \in Nat /\ x.collateral \in Int
  BY <1>1, PositionFields
<1>3. PICK B \in Nat \ {0}, W \in Nat \ {0}, M \in Nat :
        B = Basis /\ W = Basis + BotBonus /\ M = MaxRepay
  BY Numbers
<1>4. /\ ~paused /\ config.bonus = BotBonus /\ M > 0 /\ ~Covered(x) /\ x.borrow > 0
      /\ x.collateral * B >= W /\ x.collateral <= vault[CollateralToken]
      /\ (oracle => \A t \in {"debt", CollateralToken} : ledger - market[t].timestamp <= MaxAge)
      /\ (distinct => oracle)
  BY <1>3 DEF WithinReach
<1>5. Priced
  <2>1. oracle => Fresh(CollateralToken) /\ Fresh("debt")
    BY <1>4 DEF Fresh
  <2>2. oracle \in BOOLEAN /\ distinct \in BOOLEAN
    BY <1>1 DEF TypeOK
  <2> QED
    BY <1>4, <2>1, <2>2 DEF Priced
<1>6. Health(x) < Basis /\ Health(x) \in Int
  BY <1>1, <1>2, <1>3, <1>4, HealthTellsCover
<1>7. x.collateral > 0
  <2>1. ASSUME x.collateral <= 0 PROVE FALSE
    <3>1. x.collateral * B <= 0 /\ x.collateral * B \in Int
      BY <1>2, <2>1
    <3> QED
      BY <1>4, <3>1
  <2> QED
    BY <1>2, <2>1
<1>8. n \in 0 .. M /\ n <= x.borrow /\ n * W <= x.collateral * B
      /\ made.repay = n /\ made.minimum \in Nat /\ made.minimum <= (n * W) \div B
  <2>1. /\ RepayPlanned(x) \in 0 .. MaxRepay /\ RepayPlanned(x) <= x.borrow
        /\ x.collateral > 0 => RepayPlanned(x) * (Basis + BotBonus) <= x.collateral * Basis
        /\ PlanFor(x) = [repay |-> RepayPlanned(x), minimum |-> PlanFor(x).minimum]
        /\ PlanFor(x).minimum \in Nat
        /\ PlanFor(x).minimum <= (RepayPlanned(x) * (Basis + BotBonus)) \div Basis
    BY <1>2, PlanIs
  <2> QED
    BY <1>3, <1>7, <2>1
<1>9. n > 0
  <2>1. PICK a \in Int : a = (x.collateral * B) \div W /\ a > 0
    <3>1. PICK c \in Int : c = x.collateral * B
      BY <1>2
    <3>2. c \div W \in Int /\ c < (c \div W) * W + W
      BY DivIs
    <3>3. ASSUME c \div W <= 0 PROVE FALSE
      <4>1. (c \div W) * W <= 0 /\ (c \div W) * W \in Int
        BY <3>2, <3>3
      <4> QED
        BY <1>4, <3>1, <3>2, <4>1
    <3> QED
      BY <3>1, <3>2, <3>3
  <2>2. n = Least(x.borrow, Least(M, a))
    BY <1>3, <1>7, <2>1 DEF RepayPlanned
  <2> QED
    BY <1>2, <1>4, <2>1, <2>2 DEF Least
<1>10. WorthSubmitting(x, HealthReported(x))
  <2>1. HealthReported(x) = Health(x)
    BY <1>4, <1>5 DEF HealthReported
  <2> QED
    BY <1>6, <1>9, <2>1 DEF WorthSubmitting
<1>11. Repaid(x, n) = n
  BY <1>2, <1>8 DEF Repaid
<1>12. Seized(n) = (n * W) \div B
  BY <1>3, <1>4 DEF Seized
<1>13. Seized(n) \in Nat /\ Seized(n) <= x.collateral
  <2>1. PICK m \in Nat : m = n * W
    BY <1>8
  <2>2. m \div B \in Int /\ (m \div B) * B <= m /\ m \div B >= 0
    BY DivIs
  <2>3. (m \div B) * B <= x.collateral * B
    <3>1. (m \div B) * B \in Int /\ x.collateral * B \in Int
      BY <1>2, <2>2
    <3> QED
      BY <1>8, <2>1, <2>2, <3>1
  <2>4. m \div B <= x.collateral
    BY <1>2, <2>2, <2>3, Cancel
  <2> QED
    BY <1>12, <2>1, <2>2, <2>4
<1>14. VaultHolds(x, n)
  <2>1. vault[CollateralToken] \in Nat
    BY <1>1, PoolFields
  <2> QED
    BY <1>2, <1>4, <1>8, <1>11, <1>13, <2>1 DEF VaultHolds
<1>15. Liquidatable(x)
  BY <1>4, <1>5, <1>6 DEF Liquidatable
<1>16. LiquidationAccepted(u, made.repay, made.minimum)
  <2>1. WorthIt(x, n, made.minimum)
    BY <1>8, <1>11, <1>12 DEF WorthIt
  <2> HIDE DEF made, n
  <2> QED
    BY <1>4, <1>8, <1>11, <1>13, <1>14, <1>15, <2>1 DEF LiquidationAccepted
<1> QED
  BY <1>8, <1>9, <1>10, <1>16
=============================================================================
