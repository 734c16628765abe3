--------------------------- MODULE MCBridgeRelayer ---------------------------
(* Fee configurations for checking BridgeRelayer with TLC.                   *)
EXTENDS BridgeRelayer, TLC

MCMinimumFee == [bps |-> 0, minimum |-> 1]
MCPercentFee == [bps |-> 5000, minimum |-> 2]
MCOneFee == {MCMinimumFee}
MCFees == {MCMinimumFee, MCPercentFee}
=============================================================================
