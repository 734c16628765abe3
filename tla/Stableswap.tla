----------------------------- MODULE Stableswap -----------------------------
(***************************************************************************)
(* A stable pool of two tokens on Curve's invariant                        *)
(*   Ann (x + y) + D  =  Ann D + D^3 / (4 x y),   Ann = 4 A.               *)
(* compute_d and compute_y approach D and a reserve by Newton's iteration  *)
(* on integers, and stop at a step of one or less.  Shares are issued in   *)
(* proportion to D; a swap keeps a fee on what it pays.                    *)
(*                                                                         *)
(* An action is a call, signed by the role it names, that succeeds.  The   *)
(* least amount a caller accepts and the token accounts are left out, as   *)
(* in CpmmPool.                                                            *)
(***************************************************************************)
EXTENDS SorobanHost

CONSTANTS
  StableProviders,
  StableLiquidity,   \* amounts of each token that a provider adds
  StableSwaps,       \* amounts that a trader pays
  Amplification,     \* DataKey::Amplification, A
  StableFees,        \* fees that the admin sets, parts of 10000
  MaxStable,         \* bound on each reserve
  MaxStableShares    \* bound on the shares

ASSUME StableAssumption ==
  /\ StableLiquidity \subseteq Int /\ StableSwaps \subseteq Int
  /\ Amplification \in 1 .. 1000000 /\ StableFees \subseteq Nat
  /\ MaxStable \in Nat /\ MaxStableShares \in Nat

VARIABLE stable  \* the contract's storage

Tokens == {"a", "b"}

Opposite(token) == CHOOSE t \in Tokens : t # token

StableInit ==
  stable = [reserve |-> [t \in Tokens |-> 0], totalShares |-> 0, feeBps |-> 30,
            shares |-> [p \in StableProviders |-> 0]]

-----------------------------------------------------------------------------
(* The iterations.                                                         *)

Ann == Amplification * 4

Near(x, y) == x - y \in -1 .. 1

\* Both loops end after so many steps.
MaxIterations == 256

\* Newton's iteration from a start, with the steps left: it ends at the first
\* value near the one before it.
Iterate(step, start) ==
  LET from[left \in 0 .. MaxIterations, x \in Nat] ==
        LET y == step[x]
        IN IF left = 0 THEN x ELSE IF Near(y, x) THEN y ELSE from[left - 1, y]
  IN from[MaxIterations, start]

\* compute_d: it divides by the reserves, and traps when one of two is empty.
ComputeD(x, y) ==
  LET s == x + y
      step[d \in Nat] ==
        LET dp == (((d * d) \div (2 * x)) * d) \div (2 * y)
        IN ((Ann * s + 2 * dp) * d) \div ((Ann - 1) * d + 3 * dp)
  IN IF s = 0 THEN 0 ELSE Iterate(step, s)

\* compute_y: the other reserve once the amount has come in.
ComputeY(in, amount, out) ==
  LET d == ComputeD(in, out)
      b == in + amount + d \div Ann
      c == (((d * d) \div (2 * (in + amount))) * d) \div (2 * Ann)
      step[y \in Nat] == (y * y + c) \div (2 * y + b - d)
  IN Iterate(step, out)

-----------------------------------------------------------------------------
(* The calls.                                                              *)

PoolD == ComputeD(stable.reserve["a"], stable.reserve["b"])

SharesForStable(a, b) ==
  IF stable.totalShares = 0 THEN ComputeD(a, b)
  ELSE LET d1 == ComputeD(stable.reserve["a"] + a, stable.reserve["b"] + b)
       IN ((d1 - PoolD) * stable.totalShares) \div PoolD

AddStableLiquidity(p, a, b) ==
  /\ a > 0 /\ b > 0
  /\ stable.reserve["a"] + a <= MaxStable /\ stable.reserve["b"] + b <= MaxStable
  /\ stable.totalShares # 0 => \A t \in Tokens : stable.reserve[t] # 0
  /\ stable.totalShares + SharesForStable(a, b) <= MaxStableShares
  /\ stable' = [stable EXCEPT
       !.reserve = [t \in Tokens |-> @[t] + (IF t = "a" THEN a ELSE b)],
       !.totalShares = @ + SharesForStable(a, b),
       !.shares[p] = @ + SharesForStable(a, b)]
  /\ UNCHANGED now

RemoveStableLiquidity(p, n) ==
  /\ n > 0 /\ n <= stable.shares[p]
  /\ stable' = [stable EXCEPT
       !.reserve = [t \in Tokens |-> @[t] - (n * @[t]) \div stable.totalShares],
       !.totalShares = @ - n,
       !.shares[p] = @ - n]
  /\ UNCHANGED now

\* Fault: the amount after the fee is rounded up.
PaidOutRoundedUp(gross) == (gross * (10000 - stable.feeBps) + 9999) \div 10000

PaidOut(gross) == (gross * (10000 - stable.feeBps)) \div 10000

\* How much less of the other token the invariant asks for.
Gross(token, amount) ==
  LET held == stable.reserve[Opposite(token)]
  IN held - ComputeY(stable.reserve[token], amount, held)

\* get_quote, and what swap pays.
StableQuote(token, amount) == PaidOut(Gross(token, amount))

\* A reserve that would grow by a swap out of it traps.  The fee stays in.
StableSwap(token, amount) ==
  /\ amount > 0 /\ stable.reserve[token] + amount <= MaxStable
  /\ \A t \in Tokens : stable.reserve[t] # 0
  /\ Gross(token, amount) >= 0
  /\ stable' = [stable EXCEPT
       !.reserve[token] = @ + amount,
       !.reserve[Opposite(token)] = @ - StableQuote(token, amount)]
  /\ UNCHANGED now

SetStableFee(fee) ==
  /\ fee <= 1000
  /\ stable' = [stable EXCEPT !.feeBps = fee]
  /\ UNCHANGED now

StableNext ==
  \/ \E p \in StableProviders : \E a, b \in StableLiquidity : AddStableLiquidity(p, a, b)
  \/ \E p \in StableProviders : \E n \in 1 .. stable.shares[p] : RemoveStableLiquidity(p, n)
  \/ \E t \in Tokens, amount \in StableSwaps : StableSwap(t, amount)
  \/ \E fee \in StableFees : SetStableFee(fee)

StableSpec == HostInit /\ StableInit /\ [][StableNext]_<<now, stable>>

-----------------------------------------------------------------------------
(* Properties.                                                             *)

\* The whole part of the D that solves the invariant, by its definition.
TrueD(x, y) ==
  CHOOSE d \in 0 .. x + y :
    LET Above(e) == e * e * e + 4 * x * y * (Ann - 1) * e > 4 * x * y * Ann * (x + y)
    IN ~Above(d) /\ Above(d + 1)

ReserveD(x) == TrueD(x.reserve["a"], x.reserve["b"])

\* The iteration ends at the true D or one above, and no call makes the shares of
\* those who keep theirs worth less in D: liquidity at most by the rounding of one
\* unit of D, and a swap for a fee never.  The fee makes up for the rounding of the
\* iterations: without one, a swap may pay more than the invariant allows, and
\* even the whole of a small reserve, after which no liquidity can be added.
StableSharesKeepTheirWorth ==
  [][ stable.totalShares > 0 /\ stable'.totalShares > 0 /\ stable.feeBps > 0
      /\ (\A t \in Tokens : stable.reserve[t] > 0) =>
        /\ \A t \in Tokens : stable'.reserve[t] > 0
        /\ ComputeD(stable.reserve["a"], stable.reserve["b"]) - ReserveD(stable) \in {0, 1}
        /\ stable'.totalShares = stable.totalShares => ReserveD(stable') >= ReserveD(stable)
        /\ (ReserveD(stable') + 1) * stable.totalShares
             >= ReserveD(stable) * stable'.totalShares ]_stable
=============================================================================
