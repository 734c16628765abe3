------------------------------ MODULE CpmmPool ------------------------------
(***************************************************************************)
(* A constant-product pool of two tokens.  Providers add both tokens for   *)
(* shares and take both back; traders swap one token for the other, for    *)
(* a fee that stays in the pool.                                           *)
(*                                                                         *)
(* An action is a call, signed by the role it names, that succeeds.  The   *)
(* least amount a caller accepts is left out: with any bound that the      *)
(* result meets the call does the same, and with any other it does         *)
(* nothing.  The token accounts are left out too: every transfer of a call *)
(* is what the call does to the reserves, which nothing else reads.        *)
(***************************************************************************)
EXTENDS SorobanHost

CONSTANTS
  Providers,
  LiquidityAmounts,  \* amounts of each token that a provider adds
  SwapAmounts,       \* amounts that a trader pays
  CpmmFeeBps,        \* DataKey::FeeBps, parts of 10000
  MaxReserve         \* bound on each reserve

ASSUME CpmmAssumption ==
  /\ IsFiniteSet(Providers)
  /\ LiquidityAmounts \subseteq Int /\ SwapAmounts \subseteq Int
  /\ CpmmFeeBps \in 0 .. 1000 /\ MaxReserve \in Nat

VARIABLE cpmm  \* the contract's storage

Sides == {"a", "b"}

Other(side) == CHOOSE s \in Sides : s # side

CpmmInit ==
  cpmm = [reserve |-> [s \in Sides |-> 0], totalShares |-> 0,
          shares |-> [p \in Providers |-> 0]]

-----------------------------------------------------------------------------
(* The arithmetic.                                                         *)

\* isqrt: the Babylonian iteration from n down, until it no longer decreases.
Isqrt(n) ==
  LET root[x \in 1 .. n] ==
        LET y == (x + n \div x) \div 2 IN IF y < x THEN root[y] ELSE x
  IN IF n = 0 THEN 0 ELSE root[n]

\* The shares that an amount of one side is worth.
ShareOf(side, amount) == (amount * cpmm.totalShares) \div cpmm.reserve[side]

\* Fault: the larger of the two is minted.
SharesForLiquidityMax(a, b) ==
  IF cpmm.totalShares = 0 THEN Isqrt(a * b)
  ELSE IF ShareOf("a", a) < ShareOf("b", b) THEN ShareOf("b", b) ELSE ShareOf("a", a)

SharesForLiquidity(a, b) ==
  IF cpmm.totalShares = 0 THEN Isqrt(a * b)
  ELSE IF ShareOf("a", a) < ShareOf("b", b) THEN ShareOf("a", a) ELSE ShareOf("b", b)

\* What n shares are worth of one side.
PartOf(side, n) == (n * cpmm.reserve[side]) \div cpmm.totalShares

\* get_quote, and what swap pays out of the other side.
AmountOut(side, amount) ==
  LET net == (amount * (10000 - CpmmFeeBps)) \div 10000
  IN (cpmm.reserve[Other(side)] * net) \div (cpmm.reserve[side] + net)

-----------------------------------------------------------------------------
(* The calls.                                                              *)

\* A call that divides by an empty reserve traps.  The shares may be none.
AddLiquidity(p, a, b) ==
  /\ a > 0 /\ b > 0
  /\ cpmm.reserve["a"] + a <= MaxReserve /\ cpmm.reserve["b"] + b <= MaxReserve
  /\ cpmm.totalShares # 0 => cpmm.reserve["a"] # 0 /\ cpmm.reserve["b"] # 0
  /\ cpmm' = [cpmm EXCEPT
       !.reserve = [s \in Sides |-> @[s] + (IF s = "a" THEN a ELSE b)],
       !.totalShares = @ + SharesForLiquidity(a, b),
       !.shares[p] = @ + SharesForLiquidity(a, b)]
  /\ UNCHANGED now

RemoveLiquidity(p, n) ==
  /\ n > 0 /\ n <= cpmm.shares[p]
  /\ cpmm' = [cpmm EXCEPT
       !.reserve = [s \in Sides |-> @[s] - PartOf(s, n)],
       !.totalShares = @ - n,
       !.shares[p] = @ - n]
  /\ UNCHANGED now

\* The whole amount enters the reserve, the fee included.
Swap(side, amount) ==
  /\ amount > 0 /\ cpmm.reserve[side] + amount <= MaxReserve
  /\ \A s \in Sides : cpmm.reserve[s] # 0
  /\ cpmm' = [cpmm EXCEPT
       !.reserve[side] = @ + amount,
       !.reserve[Other(side)] = @ - AmountOut(side, amount)]
  /\ UNCHANGED now

CpmmNext ==
  \/ \E p \in Providers : \E a, b \in LiquidityAmounts : AddLiquidity(p, a, b)
  \/ \E p \in Providers : \E n \in 1 .. cpmm.shares[p] : RemoveLiquidity(p, n)
  \/ \E side \in Sides, amount \in SwapAmounts : Swap(side, amount)

CpmmSpec == HostInit /\ CpmmInit /\ [][CpmmNext]_<<now, cpmm>>

-----------------------------------------------------------------------------
(* Properties.                                                             *)

Product(x) == x.reserve["a"] * x.reserve["b"]

\* No call makes the shares of those who keep theirs worth less: the product of
\* the reserves, over the square of the shares, never falls while there are
\* shares, whatever rounding, fees or liquidity at a skewed ratio do.  It also
\* says that a reserve never runs dry while there are shares, at which the next
\* addition would divide by zero.
SharesKeepTheirWorth ==
  [][ cpmm.totalShares > 0 /\ cpmm'.totalShares > 0 =>
        Product(cpmm') * cpmm.totalShares * cpmm.totalShares
          >= Product(cpmm) * cpmm'.totalShares * cpmm'.totalShares ]_cpmm
=============================================================================
