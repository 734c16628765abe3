----------------------------- MODULE Contracts -----------------------------
(***************************************************************************)
(* The smaller contracts side by side: the escrow manager, the custody     *)
(* contracts, the tokens, the exchange, and services that others ask.      *)
(* Each is deployed by itself and keeps its own storage and token account; *)
(* none of them calls another, so that every behaviour of one is a         *)
(* behaviour of the whole in which the others rest.  A behaviour here is   *)
(* therefore that of one contract, the one under "system".                 *)
(***************************************************************************)
EXTENDS Escrow, Backstop, NodeStaking, LiquidityMining, StrategyVault, UsdcVault,
        WpiToken, LpToken, CpmmPool, Stableswap, PoolFactory, SwapRouter,
        EscrowFactory, FeeRouter, Oracle

VARIABLE system  \* the contract that is called

custody == <<backstop, staking, farm>>
vaults == <<strategyVault, usdcVault>>
tokens == <<wpi, lp>>
exchange == <<cpmm, stable, factory, router>>
services == <<catalog, fees, feed>>

others == <<custody, vaults, tokens, exchange, services>>

contracts == <<system, now, vars, others>>

Systems ==
  {"escrow", "backstop", "staking", "farm", "strategyVault", "usdcVault", "wpi", "lp",
   "cpmm", "stable", "factory", "router", "escrowFactory", "feeRouter", "oracle"}

ContractsInit ==
  /\ system \in Systems
  /\ HostInit
  /\ Init
  /\ BackstopInit /\ StakingInit /\ FarmInit
  /\ StrategyVaultInit /\ UsdcVaultInit
  /\ WpiInit /\ LpInit
  /\ CpmmInit /\ StableInit /\ FactoryInit /\ RouterInit
  /\ CatalogInit /\ FeesInit /\ OracleInit

CallsEscrow(A) == system = "escrow" /\ A /\ UNCHANGED <<system, now, others>>

CallsCustody ==
  \/ system = "backstop" /\ BackstopNext /\ UNCHANGED <<staking, farm>>
  \/ system = "staking" /\ StakingNext /\ UNCHANGED <<backstop, farm>>
  \/ system = "farm" /\ FarmNext /\ UNCHANGED <<backstop, staking>>

CallsVaults ==
  \/ system = "strategyVault" /\ StrategyVaultNext /\ UNCHANGED usdcVault
  \/ system = "usdcVault" /\ UsdcVaultNext /\ UNCHANGED strategyVault

CallsTokens ==
  \/ system = "wpi" /\ WpiNext /\ UNCHANGED lp
  \/ system = "lp" /\ LpNext /\ UNCHANGED wpi

CallsExchange ==
  \/ system = "cpmm" /\ CpmmNext /\ UNCHANGED <<stable, factory, router>>
  \/ system = "stable" /\ StableNext /\ UNCHANGED <<cpmm, factory, router>>
  \/ system = "factory" /\ FactoryNext /\ UNCHANGED <<cpmm, stable, router>>
  \/ system = "router" /\ RouterNext /\ UNCHANGED <<cpmm, stable, factory>>

CallsServices ==
  \/ system = "escrowFactory" /\ CatalogNext /\ UNCHANGED <<fees, feed>>
  \/ system = "feeRouter" /\ FeesNext /\ UNCHANGED <<catalog, feed>>
  \/ system = "oracle" /\ OracleNext /\ UNCHANGED <<catalog, fees>>

ContractsNext ==
  \/ CallsEscrow(Next)
  \/ CallsCustody /\ UNCHANGED <<system, vars, vaults, tokens, exchange, services>>
  \/ CallsVaults /\ UNCHANGED <<system, vars, custody, tokens, exchange, services>>
  \/ CallsTokens /\ UNCHANGED <<system, vars, custody, vaults, exchange, services>>
  \/ CallsExchange /\ UNCHANGED <<system, vars, custody, vaults, tokens, services>>
  \/ CallsServices /\ UNCHANGED <<system, vars, custody, vaults, tokens, exchange>>

\* A funder who may have money back from an escrow asks for it.
ContractsSpec ==
  /\ ContractsInit /\ [][ContractsNext]_contracts
  /\ \A e \in Ids : WF_contracts(CallsEscrow(Refund(e)))

-----------------------------------------------------------------------------
(* Properties.                                                             *)

\* Every amount is accounted for, though not each is where its owner may expect
\* it.  The shares of the strategy vault (deposit, withdraw) add up to those it
\* issued, and it can pay each of them.  The balances of the LP token add up to its
\* supply, whatever is sent, also by a holder to itself; those of wPI to the
\* supply and what holders sent to themselves, which transfer_internal creates: no
\* other call makes or loses a token.  What the USDC vault holds, has released and
\* has paid to its admin is what was deposited: deposits are not covered after
\* release or admin_withdraw.  The parts into which route_fees splits a fee add up
\* to it.
AmountsAccountedFor == SharesRedeemable /\ UsdcBooks /\ WpiSupply /\ LpSupply /\ FeesSplitExactly

\* What a contract answers is right.  The pool factory keeps one pool for each
\* pair, and the escrow factory one entry of its creator for each escrow, through
\* creation, removal and registration; the router's find_path finds a way over at
\* most two pools whenever there is one; the oracle's circuit breaker trips on the
\* prices that deviate.
AnswersAreRight ==
  PairHasOnePool /\ DeployedIsCataloged /\ RoutesAreRight /\ BreakerIsExact
=============================================================================
