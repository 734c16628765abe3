---------------------------- MODULE MCLiquidation ----------------------------
(* An instance of the lending pool and its liquidation bot for TLC.        *)
EXTENDS LiquidationBot

\* The second configuration lowers the threshold, and the bonus below
\* what the bot expects.
MCDeployed == {[threshold |-> 2, bonus |-> 1, rate |-> 2, reserve |-> 2]}
MCConfigs == MCDeployed \union {[threshold |-> 1, bonus |-> 0, rate |-> 2, reserve |-> 2]}
MCPrices == [t \in Tokens |-> IF t = "debt" THEN {1} ELSE {1, 2}]
=============================================================================
