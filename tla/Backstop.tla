------------------------------ MODULE Backstop ------------------------------
(***************************************************************************)
(* The backstop of a lending pool: depositors buy shares of a fund that    *)
(* covers the pool's bad debt.  A share leaves in one of two ways: by      *)
(* "withdraw", which pays a part of TOTAL_DEPOSITS, or by a claim, which   *)
(* waits claim_delay ledgers and pays a part of BACKSTOP_BALANCE.  Neither *)
(* book is the token account: bad debt lowers only the balance, and        *)
(* withdrawals lower only the deposits.                                    *)
(*                                                                         *)
(* An action is a call, signed by the role it names, that succeeds.  The   *)
(* DEPOSITORS map and the number of shares in a claim request are left     *)
(* out: the contract writes them and never reads them.                     *)
(***************************************************************************)
EXTENDS SorobanHost

CONSTANTS
  Depositors,
  BackstopAmounts,  \* amounts that callers pass
  SmallestDeposit,  \* MIN_DEPOSIT
  LargestDeposit,   \* MAX_DEPOSIT
  ClaimDelay,       \* CLAIM_DELAY, in ledgers
  MaxBackstop       \* bound on what was deposited and not claimed

ASSUME BackstopAssumption ==
  /\ IsFiniteSet(Depositors) /\ BackstopAmounts \subseteq Int
  /\ SmallestDeposit \in Int /\ LargestDeposit \in Int
  /\ ClaimDelay \in Nat /\ MaxBackstop \in Nat

VARIABLE backstop  \* the contract's storage, its token account and two histories

NoRequest == -1

BackstopInit ==
  backstop =
    [paused |-> FALSE, balance |-> 0, totalShares |-> 0, totalDeposits |-> 0,
     shares |-> [d \in Depositors |-> 0],
     requestedAt |-> [d \in Depositors |-> NoRequest],
     vault |-> 0,       \* asset tokens that the contract holds
     withdrawn |-> 0,   \* history: paid by withdraw
     absorbed |-> 0]    \* history: sent to the pool

-----------------------------------------------------------------------------
(* The calls.                                                              *)

\* Shares for a deposit; a deposit that would divide by zero traps.
SharesFor(amount) ==
  IF backstop.totalShares = 0 THEN amount
  ELSE (amount * backstop.totalShares) \div backstop.totalDeposits

DepositToBackstop(d, amount) ==
  /\ ~backstop.paused
  /\ amount > 0 /\ SmallestDeposit <= amount /\ amount <= LargestDeposit
  /\ backstop.totalShares # 0 => backstop.totalDeposits # 0
  /\ backstop.balance + backstop.absorbed + amount <= MaxBackstop
  /\ backstop' = [backstop EXCEPT
       !.shares[d] = @ + SharesFor(amount),
       !.totalShares = @ + SharesFor(amount),
       !.totalDeposits = @ + amount,
       !.balance = @ + amount,
       !.vault = @ + amount]
  /\ UNCHANGED now

\* What withdraw pays for shares.
WithdrawalWorth(s) == (s * backstop.totalDeposits) \div backstop.totalShares

\* withdraw leaves BACKSTOP_BALANCE as it is, and looks at no claim request.
WithdrawFromBackstop(d, s) ==
  /\ ~backstop.paused
  /\ s > 0 /\ s <= backstop.shares[d]
  /\ LET amount == WithdrawalWorth(s) IN
       /\ CanPay(backstop.vault, amount)
       /\ backstop' = [backstop EXCEPT
            !.shares[d] = @ - s,
            !.totalShares = @ - s,
            !.totalDeposits = @ - amount,
            !.vault = @ - amount,
            !.withdrawn = @ + amount]
  /\ UNCHANGED now

RequestClaim(d) ==
  /\ ~backstop.paused
  /\ backstop' = [backstop EXCEPT !.requestedAt[d] = now]
  /\ UNCHANGED now

ClaimWorth(s) == (s * backstop.balance) \div backstop.totalShares

\* Fault: the payout is left in the balance, as withdraw leaves it.
ClaimedUnbooked(d, s, payout) ==
  [backstop EXCEPT
     !.requestedAt[d] = NoRequest, !.shares[d] = @ - s, !.totalShares = @ - s,
     !.totalDeposits = @ - payout, !.vault = @ - payout]

Claimed(d, s, payout) ==
  [backstop EXCEPT
     !.requestedAt[d] = NoRequest, !.shares[d] = @ - s, !.totalShares = @ - s,
     !.totalDeposits = @ - payout, !.balance = @ - payout, !.vault = @ - payout]

\* The shares claimed are those of this call, whatever the request was for.
ClaimFromBackstop(d, s) ==
  /\ ~backstop.paused
  /\ backstop.requestedAt[d] # NoRequest
  /\ now >= backstop.requestedAt[d] + ClaimDelay
  /\ s > 0 /\ s <= backstop.shares[d]
  /\ LET payout == ClaimWorth(s) IN
       /\ payout > 0
       /\ CanPay(backstop.vault, payout)
       /\ backstop' = Claimed(d, s, payout)
  /\ UNCHANGED now

\* absorb_bad_debt, called by the pool.  The amount's sign is not looked at, but
\* a negative transfer traps.
AbsorbBadDebt(amount) ==
  /\ ~backstop.paused
  /\ LET covered == IF amount > backstop.balance THEN backstop.balance ELSE amount IN
       /\ CanPay(backstop.vault, covered)
       /\ backstop' = [backstop EXCEPT
            !.balance = @ - covered, !.vault = @ - covered, !.absorbed = @ + covered]
  /\ UNCHANGED now

PauseBackstop(p) ==
  /\ backstop' = [backstop EXCEPT !.paused = p]
  /\ UNCHANGED now

BackstopNext ==
  \/ \E d \in Depositors, a \in BackstopAmounts : DepositToBackstop(d, a)
  \/ \E d \in Depositors : \E s \in 1 .. backstop.shares[d] :
       WithdrawFromBackstop(d, s) \/ ClaimFromBackstop(d, s)
  \/ \E d \in Depositors : RequestClaim(d)
  \/ \E a \in BackstopAmounts : AbsorbBadDebt(a)
  \/ \E p \in BOOLEAN : PauseBackstop(p)
  \/ LedgerCloses /\ UNCHANGED backstop

BackstopSpec == HostInit /\ BackstopInit /\ [][BackstopNext]_<<now, backstop>>

-----------------------------------------------------------------------------
(* Properties.                                                             *)

\* The shares of the depositors add up to TOTAL_SHARES; BACKSTOP_BALANCE is the
\* tokens held and what withdraw took (withdraw never lowers it), and
\* TOTAL_DEPOSITS the tokens held and what the pool took (absorb_bad_debt never
\* lowers it).  So the books are exactly right until the first withdrawal and
\* the first bad debt: while nobody has withdrawn, every claim and every cover
\* that the balance allows can be paid, and while nothing was absorbed, so can
\* every withdrawal.
BackstopBooks ==
  /\ Total(backstop.shares) = backstop.totalShares
  /\ backstop.balance = backstop.vault + backstop.withdrawn
  /\ backstop.totalDeposits = backstop.vault + backstop.absorbed
  /\ backstop.vault >= 0
  /\ \A d \in Depositors : backstop.shares[d] > 0 =>
       /\ backstop.withdrawn = 0 => CanPay(backstop.vault, ClaimWorth(backstop.shares[d]))
       /\ backstop.absorbed = 0 => CanPay(backstop.vault, WithdrawalWorth(backstop.shares[d]))
=============================================================================
