----------------------------- MODULE FeeRouter -----------------------------
(***************************************************************************)
(* The fee router: the admin divides each kind of fee among liquidity      *)
(* providers, protocol, backstop and platform, and whoever collected a fee *)
(* has it paid out in these shares.                                        *)
(*                                                                         *)
(* An action is a call that succeeds.  The payer is not one of the four    *)
(* destinations, and these are four accounts.                              *)
(***************************************************************************)
EXTENDS SorobanHost

CONSTANTS
  FeeTypes,
  FeeConfigs,     \* shares that the admin tries to set
  Fees,           \* fees that are routed
  FeeAdmins,
  FirstFeeAdmin,
  FeeWhole,       \* basis points in a whole: 10_000
  Collected       \* what the payer has collected

Roles == {"lp", "protocol", "backstop", "platform"}

ASSUME FeeAssumption ==
  /\ FeeConfigs \subseteq [Roles -> Nat] /\ Fees \subseteq Int
  /\ FirstFeeAdmin \in FeeAdmins
  /\ FeeWhole \in Nat \ {0} /\ Collected \in Nat

VARIABLE fees  \* the contract's storage, and the accounts it moves fees between

\* The configuration of a kind of fee that has none.
NoShares == [r \in Roles |-> 0]

FeesInit ==
  fees = [admin |-> FirstFeeAdmin, config |-> [t \in FeeTypes |-> NoShares],
          source |-> Collected, paid |-> NoShares]

-----------------------------------------------------------------------------
(* The calls.                                                              *)

\* Fault: shares may leave a rest.
AddsUpAtMost(config) == Total(config) <= FeeWhole

AddsUp(config) == Total(config) = FeeWhole

SetFeeConfig(type, config) ==
  /\ AddsUp(config)
  /\ fees' = [fees EXCEPT !.config[type] = config]
  /\ UNCHANGED now

\* The platform gets what rounding leaves.
Split(config, fee) ==
  LET part == [r \in Roles |-> (fee * config[r]) \div FeeWhole]
  IN [part EXCEPT !["platform"] =
        fee - part["lp"] - part["protocol"] - part["backstop"]]

\* Only positive parts are paid, and their sum must be the fee, which refuses a
\* negative one.
RouteFees(type, fee) ==
  LET parts == Split(fees.config[type], fee)
      moved == [r \in Roles |-> IF parts[r] > 0 THEN parts[r] ELSE 0]
  IN /\ fees.config[type] # NoShares
     /\ Total(moved) = fee
     /\ CanPay(fees.source, fee)
     /\ fees' = [fees EXCEPT
          !.source = @ - fee,
          !.paid = [r \in Roles |-> @[r] + moved[r]]]
     /\ UNCHANGED now

\* set_admin, signed by the admin.
SetFeeAdmin(admin) == fees' = [fees EXCEPT !.admin = admin] /\ UNCHANGED now

FeesNext ==
  \/ \E t \in FeeTypes : \/ \E c \in FeeConfigs : SetFeeConfig(t, c)
                         \/ \E fee \in Fees : RouteFees(t, fee)
  \/ \E admin \in FeeAdmins : SetFeeAdmin(admin)

FeesSpec == HostInit /\ FeesInit /\ [][FeesNext]_<<now, fees>>

-----------------------------------------------------------------------------
(* Properties.                                                             *)

\* Whatever was set before, the split of a fee leaves nothing and takes nothing
\* more: no part is negative, the parts are the fee, each destination gets its
\* share rounded down and the platform less than three units above its own.
FeesSplitExactly ==
  /\ fees.source + Total(fees.paid) = Collected
  /\ \A t \in FeeTypes, fee \in Fees :
       fees.config[t] # NoShares /\ fee >= 0 =>
         LET parts == Split(fees.config[t], fee)
         IN /\ Total(parts) = fee
            /\ \A r \in Roles :
                 LET excess == parts[r] * FeeWhole - fee * fees.config[t][r]
                 IN IF r = "platform" THEN excess \in 0 .. 3 * FeeWhole - 1
                    ELSE excess \in -(FeeWhole - 1) .. 0
=============================================================================
