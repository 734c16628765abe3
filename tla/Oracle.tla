------------------------------- MODULE Oracle -------------------------------
(***************************************************************************)
(* The price oracle: an admin reports the price of each asset and commits  *)
(* it, at another time, as the last price, with which the circuit breaker  *)
(* compares a new one.  Reporting does not consult the breaker, and neither*)
(* staleness nor the breaker reads the limits that the admin configures:   *)
(* whoever asks names its own.                                             *)
(*                                                                         *)
(* An action is a call, signed by the admin, that succeeds.  Decimals and  *)
(* confidence are data that no call looks at.                              *)
(***************************************************************************)
EXTENDS SorobanHost

CONSTANTS
  OracleAssets,
  OraclePrices,    \* prices that an admin reports, or asks the breaker about
  OracleAdmins,
  FirstOracleAdmin,
  Ages,            \* maximum ages that an admin sets
  FirstAge,        \* the one of initialize
  Deviations,      \* maximum deviations that an admin sets, or a reader names
  FirstDeviation,  \* the one of initialize
  WholeBps,        \* basis points in a whole: 10_000
  DeviationRange   \* numbers that fit into the deviation: 2^32

ASSUME OracleAssumption ==
  /\ OraclePrices \subseteq Int /\ FirstOracleAdmin \in OracleAdmins
  /\ Ages \subseteq Nat /\ FirstAge \in Ages
  /\ Deviations \subseteq Nat /\ FirstDeviation \in 1 .. WholeBps
  /\ WholeBps \in Nat \ {0} /\ DeviationRange \in Nat \ {0}

VARIABLE feed  \* the contract's storage

NoPrice == [price |-> 0, timestamp |-> 0]

OracleInit ==
  feed = [admin |-> FirstOracleAdmin,
          price |-> [a \in OracleAssets |-> NoPrice],
          last |-> [a \in OracleAssets |-> NoPrice],
          maxAge |-> FirstAge, threshold |-> FirstDeviation]

-----------------------------------------------------------------------------
(* The calls.                                                              *)

\* Only the first report of an asset is its last price as well.
SetPrice(asset, price) ==
  LET report == [price |-> price, timestamp |-> now]
  IN /\ price > 0
     /\ feed' = [feed EXCEPT
          !.price[asset] = report,
          !.last[asset] = IF @ = NoPrice THEN report ELSE @]
     /\ UNCHANGED now

CommitPrice(asset) ==
  /\ feed.price[asset] # NoPrice
  /\ feed' = [feed EXCEPT !.last[asset] = feed.price[asset]]
  /\ UNCHANGED now

SetMaxAge(age) == feed' = [feed EXCEPT !.maxAge = age] /\ UNCHANGED now

SetBreakerThreshold(bps) ==
  bps \in 1 .. WholeBps /\ feed' = [feed EXCEPT !.threshold = bps] /\ UNCHANGED now

SetOracleAdmin(admin) == feed' = [feed EXCEPT !.admin = admin] /\ UNCHANGED now

OracleNext ==
  \/ \E a \in OracleAssets :
       CommitPrice(a) \/ \E p \in OraclePrices : SetPrice(a, p)
  \/ \E age \in Ages : SetMaxAge(age)
  \/ \E bps \in Deviations : SetBreakerThreshold(bps)
  \/ \E admin \in OracleAdmins : SetOracleAdmin(admin)
  \/ LedgerCloses /\ UNCHANGED feed

OracleSpec == HostInit /\ OracleInit /\ [][OracleNext]_<<now, feed>>

-----------------------------------------------------------------------------
(* The breaker.  is_stale and get_price_fresh compare the time of a report *)
(* with an age that the reader names; they change nothing.                 *)

\* Fault: a lower price does not deviate.
DifferenceAbove(x, y) == IF x < y THEN 0 ELSE x - y

Difference(x, y) == IF x < y THEN y - x ELSE x - y

DeviationBps(last, price) == (Difference(price, last) * WholeBps) \div last

\* circuit_breaker_check: the deviation is cut to 32 bits.
BreakerTrips(asset, price, limit) ==
  LET last == feed.last[asset].price
  IN last # 0 /\ DeviationBps(last, price) % DeviationRange > limit

-----------------------------------------------------------------------------
(* Properties.                                                             *)

\* By its definition: the price is further from the last one than the limit, by a
\* whole basis point or more.
Deviates(asset, price, limit) ==
  LET last == feed.last[asset].price
  IN /\ last # 0
     /\ \/ (price - last) * WholeBps >= (limit + 1) * last
        \/ (last - price) * WholeBps >= (limit + 1) * last

\* The breaker compares with a price that was once reported, no later than the
\* current one, and an asset has a last price exactly if it has one; within the
\* range of a deviation it trips exactly on the prices that deviate.  Beyond it the
\* deviation wraps around, and the breaker may let an enormous jump pass.
BreakerIsExact ==
  \A a \in OracleAssets :
    /\ feed.price[a] = NoPrice <=> feed.last[a] = NoPrice
    /\ feed.last[a].timestamp <= feed.price[a].timestamp
    /\ \A p \in OraclePrices, limit \in Deviations :
         ~Deviates(a, p, DeviationRange - 1) =>
           (BreakerTrips(a, p, limit) <=> Deviates(a, p, limit))
=============================================================================
