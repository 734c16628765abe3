---------------------------- MODULE MCContracts ----------------------------
(* Values for checking Contracts with TLC.  Milestone plans: two milestones, *)
(* and one whose amount is negative.  Shares of a fee: even, nothing for the *)
(* protocol, and two that do not make a whole.                               *)
EXTENDS Contracts, TLC

MCPlans == {<<1, 2>>, <<3, -1>>}

Shares(l, p, b, f) ==
  [r \in Roles |-> CASE r = "lp" -> l [] r = "protocol" -> p [] r = "backstop" -> b
                      [] r = "platform" -> f]

MCFeeConfigs ==
  {Shares(1, 1, 1, 1), Shares(3, 0, 1, 0), Shares(1, 0, 0, 0), Shares(2, 2, 1, 0)}

MCFees == {-1, 0, 1, 3, 5}

MCOraclePrices == {-2, 1, 2, 6}
=============================================================================
