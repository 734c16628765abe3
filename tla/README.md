# Suban: a verification development

TLA+ models of the Suban stack (Soroban contracts, the Arc bridge contract, the
off-chain workers and the event indexer), checked with TLC and, where a result
should hold for every configuration, proved with TLAPS.  Every definition is a
translation of the source; `PROJECT.json` names the lines of each.

## 1. The system

Suban runs a DeFi stack on a Stellar/Soroban network (Pi) with a PUSD bridge to
an EVM chain (Arc).

| Component | State it keeps | Operations | Interacts with | What makes it correct |
|---|---|---|---|---|
| `bridge-multisig` (Rust) | signers, threshold, proposals, votes, executed nonces, volume window, pause | propose, approve (executes at the quorum), administration | wPi token, USDC | a quorum stays reachable, votes count once, one payment per nonce, totals match what executed |
| `bridge-burn-mint` (Rust) | signers, threshold, nonces, processed hashes, per-chain totals and caps, volume window | burn, mint, administration | PUSD token; its burn events drive the relayer | books balance, each source transaction pays once, caps hold whatever the order of calls |
| `arc-bridge` (Solidity: `ArcBridge`, `PUSDToken`) | validators (array and flags), threshold, processed hashes, totals, nonces, volume window, supply | mint, burn, administration | relayer | the same, and the two records of the validators agree |
| `bridge-relayer` (TypeScript) | in memory: last ledger and block seen, status of each event | poll, take the fee, submit mints, wait for receipts | both bridge contracts | a burn is paid at most once and never beyond its amount, and is paid in the end |
| `event-indexer` (TypeScript, SQLite) | events, ledgers, checkpoints, webhook outbox, API keys and quotas, derived financial tables | poll RPC and Horizon, deliver webhooks, serve queries, reset checkpoints | RPC, Horizon, subscribers | a checkpoint vouches for what lies below it; deliveries are retried within their limit and settle |
| `escrow` (Rust) | escrows with milestones and counters, one balance per asset | create, fund, submit, approve, reject, release, refund, dispute, resolve | asset token | no escrow pays with another's deposits; the receiver earns what it gets; deposits come back |
| `escrow-factory` (Rust) | registry of escrow contracts | deploy, look up | escrow | an entry is an initialized contract |
| `lending-pool` (Rust) | totals, positions, parameters, collateral asset, oracle | deposit, withdraw, pledge, borrow, repay, liquidate, accrue | oracle, tokens | only the market uncovers a position; liquidations are due; prices are fresh; totals cover debts |
| `liquidation-bot` (TypeScript) | accounts to look at | read, assess, plan, submit | lending-pool, event-indexer | never gets less than its minimum; collects bad debt in the end |
| `backstop` (Rust) | shares, deposits, balance, delayed claims | deposit, withdraw, claim, absorb | lending-pool | shares are worth what is there |
| `cpmm-pool`, `stableswap`, `lp-token` (Rust) | reserves, LP shares | add, remove, swap | tokens | value per share never falls by rounding |
| `pool-factory`, `swap-router`, `fee-router` (Rust) | registries of pools, routes, fee shares | register, swap over a route, split a fee | pools | a route is all or nothing; the split adds up |
| `node-staking`, `liquidity-mining` (Rust) | stakes, reward pool, reward index | stake, unstake, claim, fund | tokens | rewards come from the pool, and out of stakes only where `unstake` takes them |
| `strategy-vault`, `usdc-vault`, `wpi-token` (Rust) | shares, balances, allowances | deposit, withdraw, transfer, mint, burn | tokens | shares are covered; supply is the sum of balances, but for what wPI holders send to themselves |
| `oracle` (Rust) | reported and committed price of each asset, with its ledger; maximum age, breaker threshold | set, commit, query | lending-pool | the breaker trips exactly on the prices that deviate |
| `pause-registry`, `event-registry`, `identity` (Rust) | flags, a log, attestations | set, append, register | no contract of the repository reads them | - |
| `hub-*` crates, `sdk`, frontend, tools, deployment | none of the protocol's | types, client calls, views | all | - |

What is hard in it: on the contracts, long sequences of legal calls (quorums
that change while proposals are pending, windows, replay protection, rounding);
between the chains, a relayer that may crash, poll a failing node, submit twice
or late; in the indexer, timers that overlap, pages that split a ledger,
checkpoints written by two actors, and deliveries repeated after a restart; in
lending, plans made on a state that has moved when they execute.  `PROJECT.json`
lists each hazard at its line.

## 2. The plan

Built, in this order: the bridge (the two contract ends, the multisig, the
relayer that composes them), the indexer's outbox and ingestion and the process
that composes them, the escrow manager, the lending pool with its bot; then the contracts that stand by
themselves, composed in `Contracts`: custody (`Backstop`, `NodeStaking`,
`LiquidityMining`), vaults (`StrategyVault`, `UsdcVault`), tokens (`WpiToken`,
`LpToken`), exchange (`CpmmPool`, `Stableswap`, `PoolFactory`, `SwapRouter`) and
services (`EscrowFactory`, `FeeRouter`, `Oracle`).

Every safety property that a run checks has a theorem, but for the one of the
stable pool (section 5).  What is left to model: the quota windows of
`apiKeys.ts`, the indexer's pool projections (`financial.ts`), and the SDK's
`quote.ts`, against the pools.

## 3. The models

A contract call is atomic and a call that returns an error, or traps, is rolled
back by the host, so in every contract module one action is one successful call,
with its whole effect, and its guards are the code's checks in one conjunction.
Time is the ledger sequence (or the block time on Arc), advanced by an action of
its own.  Amounts are integers, negative ones included where the code does not
refuse them; i128 overflow, which traps, is not modelled.  Definitions commented
`Fault:` are deliberate mistakes, used only to show that a property can fail.

**`BridgeMultisig`**: `lib.rs` of bridge-multisig.  `Propose`, `Vote` and
`ApproveAndExecute` (the two outcomes of `approve`) and one action per admin
call.  Nonces are the `u64` that the code keeps of a 32-byte deposit id; `NonceOf` is the
map, so that two ids may share a nonce.

**`Sums`** has the sum of a table of amounts, which the books of every module
are stated with; `SumTheorems` proves what sums obey.

**`BridgeBurnMint`**: `BurnPusd`, `MintPusd` and administration; the holders of
PUSD are one balance.  `counted` marks mints made while a cap was set, the only
ones the breaker counts, and `window` the window a mint was counted in (history, as
in `ArcBridge`).  A burn names its transaction, and one transaction may
burn several times.

**`ArcBridge`**: `ArcBridge.sol` with its token `PUSDToken.sol`: validators as
an array and as flags, user and chain nonces, the token's pause, maximum and
bridge address, each of which may refuse a call.

**`BridgeRelayer`** composes the two contracts (INSTANCE of both, with the
configuration in which the relayer alone is the quorum, as its code signs alone) with the
process: `Start`, `PollBegin`/`PollEnd`/`PollError` around the awaited
`getEvents`, `Prepare` (nonce and gas), `Send`/`SubmitFails`, `Complete`/
`WaitFails`, crashes that lose memory and keep what was sent, and Arc executing
or reverting what was sent.  Each step ends where the code awaits.
**`PusdTransfer`** is the promise it implements: per burn, an amount paid that
never goes down, at most once, and at most the amount burned.

**`IndexerProcess`**: the process that the two parts of the indexer run in, and
the number of times it died.

**`WebhookOutbox`**: rows of `webhook_deliveries` (durable) and rounds of
`dispatchOnce` (memory) with the rows they read; `setInterval` starts a round
whatever the others do, finitely many at a time; `Answer`, `Abort`, subscriptions
deleted while a round holds their deliveries; the new events of a page, enqueued in
one step since the code awaits nothing in between, and a crash, perhaps in the middle of a
page.

**`EventIngest`**: streams of contracts and of Horizon, their checkpoints,
bootstrap, pages, the `INSERT OR IGNORE` and the announcement that follows a new
row, the loop over the contracts with failing requests, an operator's resets and
crashes between two commits.

**`EventIndexer`** composes the two (`index.ts`): `PageStep` is the page of a
contract with what its new rows enqueue, `Dies` the one crash that takes both
down, in a page with the events enqueued that were dealt with so far; the other steps are
those of one part while the other rests.  The specifications of the two parts, each
written for an environment that does anything it may, are the abstract ones that the
composition implements.

**`Escrow`**: one action per call of the escrow manager; several escrows share
one balance; `paid` and `ruled` are history.

**`LendingPool`** and **`LiquidationBot`**: calls of accounts, liquidators and
the admin, a free oracle and the passage of ledgers; the bot reads position and
health in two requests at possibly different ledgers, plans (`risk.ts`),
submits, and catches every failure.

**`SorobanHost`** is what the next modules take from the host: the ledger
sequence and the rule by which a transfer traps.  Accounts, and the rates of the farm,
are finite sets, as addresses and 128-bit numbers are.  **`Backstop`**, **`NodeStaking`**
and **`LiquidityMining`** keep their books apart from the token account that
backs them, as the code does, so that the properties compare the two.
**`StrategyVault`**, **`UsdcVault`**, **`WpiToken`** and **`LpToken`** are one action per
call; a transfer writes the two balances it read before, in the code's order.
**`CpmmPool`** and **`Stableswap`** do the code's integer arithmetic, division by
division, with Newton's iterations as recursive functions of at most 256 steps;
the D that the stable pool's iteration finds is compared with D by its
definition.  **`PoolFactory`**, **`EscrowFactory`** and **`SwapRouter`** are
registries with the queries that read them; the router swaps nothing, it finds a
path.  **`FeeRouter`** splits fees, and **`Oracle`** has the breaker with the width
of its deviation (`DeviationRange` stands for 2^32).

**`Contracts`** composes them with `Escrow`.  None of these contracts calls
another, and no two share storage or a token account, so a behaviour of all of
them is an interleaving of independent ones and no property relates two: `system`
picks, in the initial state, the one contract that is called, and TLC explores
the sum of their state spaces and not the product.

## 4. The runs

| Run | What it checks | Bounds |
|---|---|---|
| `bridge_multisig` | types, reachable quorum, distinct voters, nonces, totals | three accounts, every signer vector without repetition, two proposals for two deposit ids with one nonce, cap on or off, three ledgers |
| `burn_mint` | types and identity of burns, books, mints backed by a quorum and within both caps | two signers, two chains, two hashes, two burns, two mints, windows of one and two ledgers, three ledgers |
| `arc_bridge` | types, validators, nonces, books, signatures, volume | two accounts, one chain, two users, two mints of one hash with different amounts, two burns |
| `relayer` | implements `PusdTransfer`; no inflation; completed means minted; burns arrive and settle | two burns, each with or without enough left after the fee; every fault may happen any number of times |
| `webhook_outbox` | attempts counted, retries within the limit, delivered stays, deliveries settle | two subscriptions, one event, two rounds at once, two attempts, one crash |
| `event_ingest` | no gap, announced once, indexed in the end | one contract and Horizon, three ledgers, two events each, pages of two, one crash, one reset |
| `contracts` | escrow: custody, earnings, refunds, completion, money comes back; the books of backstop, staking and farm; shares of both pools keep their worth; amounts are accounted for; answers are right | two escrows, plans of two milestones, one with a negative amount; two users of each contract, amounts up to four, three ledgers; reserves up to nine; three entries of each registry |
| `lending` | types and totals, cover, fresh prices, due liquidations, the bot's minimum and progress | two accounts, one watched, prices one and two, five calls of others |
| `bridge_double_execution` | fails: one deposit is paid twice | two proposals for one deposit |
| `arc_duplicate_signatures` | fails: fewer validators than the threshold sign | two validators |
| `relayer_restart` | fails: burns of a downtime arrive | one burn, one crash |
| `webhook_attempts` | fails: deliveries stop after the limit | `EventIndexer`: one event read from the chain, one subscription, two rounds, no crash |

Why they are enough.  A property on quorums needs signers to join, vote and
leave: three accounts let a vote of a removed signer count beside two others.
Races over a proposal, a delivery, a nonce or a hash need two actors.  Windows
need one length and enough ledgers for an old, a current and a new window: the
multisig's window is one ledger, the ledgers are three.  `MintCaps = {0}` in
`Arc.cfg` because `mintCap` is never read.  The relayer's `Page` is `MaxBurns`:
see section 6 for a smaller page.  In the outbox `Interval = Timeout` as with
the defaults of `config.ts`, and `Limit` is the number of deliveries: the order
of due rows does not matter below it.  In the lending run five calls of others
are a deposit, a pledge, a borrow, a price report and one more; a `Basis` of 3
instead of 10_000 keeps the rounding of every division and makes it matter at
small amounts.

In `contracts`, amounts are small so that every division rounds: reserves of one
to nine make a share, a fee or a step of Newton's iteration lose up to a whole
unit.  The fee of a pool is the default of 30 basis points, and the stable pool's
may be set to none; the fee router and the oracle have a whole of 4 basis points instead
of 10_000, for the same reason as in lending.  Sequences of calls end at the
bounds on reserves, stakes and entries, far enough for a user to enter, another
to enter, the first to leave and enter again.

Deadlock is checked in every run but `contracts`: a contract waits for calls, and
the router's list takes none once it is at its bound.

Fairness.  The relayer and the indexer are loops over timers: each step the
process takes by itself is weakly fair, ledgers close, and a supervisor restarts
a process that died.  A request to a node that may fail is
strongly fair in its success: it succeeds again and again if it is made again
and again.  Nothing is assumed of users, crashes or operators.  Arc executes or
reverts what it accepted.  A funder who may have money back asks for it
(`DepositsComeBack`, in `ContractsSpec`); the bot loops.  Where the code has a timeout (the
AbortController of a POST) its firing is fair and the receiver's answer is not.

Liveness has these conditions, each stated in the property: `BurnsArrive`
excepts faults beyond failing polls, and times when two burns are processed at
once, which may take the same account nonce; `BurnsSettle` excepts crashes; `ChainIsIndexed` excepts ledgers that the
code passes (section 6); `DepositsComeBack` excepts disputes, pauses and
completed escrows; `BadDebtIsCollected` is for the bonus the bot expects and
collateral that buys a unit of debt.

## 5. The proofs

Every theorem holds for all values of the constants that the modules' named
assumptions allow: any number of accounts, signers, escrows, deliveries, ledgers
and amounts.  The assumptions give constants their types and say that sets of
addresses are finite.  Where a theorem needs more of the configuration, it
is a named hypothesis, and the table below lists it; the code does not check any
of them.

| Hypothesis | Meaning | Needed by |
|---|---|---|
| `DistinctVectors`, `DistinctArrays` | the bridge is initialized with no signer twice | the quorum of each bridge end |
| `WindowsHaveLength` | no volume window of length zero is set | the volume caps of both mints; with length zero every mint opens a window of its own |
| `WithinReach(u)` | the account `u` may be liquidated, prices are fresh, the pool is not paused, has the bonus that the bot expects, and its collateral buys a unit of debt | `PlansWithinReachSucceed` only |
| `EventsOfContracts` | the constant `Events` of the outbox is the set of items that ingestion reads of contracts: how the two modules are put together, nothing about the code | the theorems on the composition of the indexer |
| `OneWindow` | `set_volume_cap` keeps the window length | the volume in `TotalsMatch`; without it `VolumeNearWindow` holds |

**Sums** (`SumTheorems`).  A sum over a finite set is a recursive function on
its subsets.  Its facts (adding an entry, changing one, monotonicity, a bound on
each entry, growth by at most so much per entry) are proved without induction
over data: if one failed, it would fail on a minimal subset, and taking an entry
out of that leads to a contradiction.  The maximum and minimum of a finite set
are found in the same way.

**The multisig** (`BridgeMultisigProofs`): `TypeCorrect`; `DistinctVoters` and
`NonceGuards`, with the creation and execution times against the ledger as
strengthening; `QuorumStaysReachable`, whose invariant is the stored count being
the cardinality of the signers, with the threshold's bounds; `CustodyMatches`
(the tokens paid out are the sums of the executed proposals) and the two theorems
on the breaker's counter.  `VolumeNearWindow` is what holds whatever the admin
does to the window: the counter is what executed since the window opened, where the
ledger of the opening counts in part.  When the window is made shorter, a second
window can open in the ledger in which the first one did, and the counter then misses what
executed in that ledger before; so the exact statement, `TotalsMatch`, needs
`OneWindow`.

**Burn and mint** (`BridgeBurnMintProofs`): `TypeCorrect`, `BurnsAlwaysIdentified`
(the nonce of a burn is its position), `RecordsStayUsable` (the quorum),
`BooksAlwaysBalance` (each total is the sum of its events, and a processed hash
is that of exactly one mint), `MintsAlwaysBackedAndCapped`, an action property
that needs the breaker's counter to be the sum of the mints counted in the open
window.

**Arc** (`ArcBridgeProofs`): `TypeCorrect` and, through swap and pop of the
array, that a flagged account is in the array and (for distinct arrays) listed
once; `BurnsAlwaysNumbered`, `RecordsStayCoherent`, `BooksAlwaysBalance` and
`MintsAlwaysSignedAndCapped`.  The last holds even for an array that was given an
address twice.

**The relayer** (`BridgeRelayerProofs`): `RelayerTellsTruth` and
`RelayerImplementsTransfer`, the step simulation of `PusdTransfer`.  The
inductive invariant has a part for each place where a burn can be: the events
(the nonce of a burn is its position), the mints sent and executed (each pays
for one burn of a closed ledger and no burn has two), the process (what it
tracks are such burns), what it has not sent, and the money.  That nothing is
paid twice rests on a restart beginning after the latest ledger: every burn that an
earlier process may have paid for lies below it.  The money on both chains, with
the burns that nothing was minted for, never exceeds the funds.

**The outbox** (`EventIndexerProofs`): `AttemptsAlwaysCounted` and
`DeliveredForGood`.  `RoundsInv` is about what rounds hold, `RowsInv` about what
rows count, and `LoneInv` about deliveries no two rounds ever held: only for
these is a row as the round has read it, and its attempts the posts but for those a
crash lost and the one under way.

**Ingestion** (the same module): `CheckpointsVouch` and
`AnnouncementsCounted`.  No position is beyond the head, a poll has something
left to ask for, a row is announced unless a crash came between, and the
checkpoint of each stream vouches from where the stream was put, `start`.  A poll that
writes over a reset puts the stream back where it had read its position; what lay
below was stored or passed before, and nothing stored goes away.  The argument for a
page is that the first so many of a range of items contain, with an item, all items before it, so
that only the last ledger of a full page can be cut.

**The indexer** (the same module): `IngestionUndisturbed` and
`OutboxUndisturbed` are the two step simulations.  The one of the outbox needs an invariant,
that an event is recorded by the outbox exactly if ingestion has announced it: with
it and with what is proved of ingestion (an event is announced at most once, and
only with its row) every page enqueues events that the outbox does not have.  So the
guard of `Enqueue` never holds up a page.  The hypothesis is `EventsOfContracts`.  `IndexerKeepsBothPromises` carries the
theorems of the two parts over; `DeliveriesOnlyOfRows` and `NewEventsHeard` are the
composition's own.

**The lending pool and its bot** (`LendingPoolProofs`).  `HealthTellsCover` comes
first: the health factor, with the code's truncating division, reaches
10_000 exactly if the collateral at its threshold covers the debt, so that
`Covered` and what the contract tests agree.  `PoolStaysSound`: `LendingInv` with the types
of the bot is inductive; the sum of the debts changes by what one account borrows,
repays or is relieved of, and interest only adds to the total.  `CallsNeverUncover`
takes each call that lowers collateral or raises debt to the health it requires afterwards,
and a liquidation to a position that was not covered.  `PricesAlwaysFresh` and
`LiquidationsAreDue` follow from the guards each on every path to them: all the calls
that write a position are gone through.  `BotAlwaysGetsItsMinimum` needs that a plan being
submitted asks for a unit at least.  `PlansWithinReachSucceed` is the part of the
bot's progress that needs no fairness: a plan made from the pool as it is, for an account
within reach, is worth submitting and is accepted while nothing moves.

**The contracts** (`ContractsProofs`), first each by itself.
- Escrow: `TypeCorrect`, `EscrowPaysItsDeposits`, `EscrowRefundsJustly`,
  `EscrowCompletesWhenEarned`, for plans with negative amounts too.  `IInv`
  says of each escrow that it is `Sound`; the properties alone are not
  inductive: that all milestones of a completed escrow are approved follows
  only from `completed` being the number of approved ones, kept apart in the code, and
  that a refund is of everything only from the funder having had nothing
  before.  `EscrowMoneyAddsUp`: the balance is the sum of what the escrows have not paid out.
- Custody: `BackstopBooksHold` (the two histories only grow, so that the books
  are never below the tokens); `StakingBooksHold` (needs that whoever is not
  registered has no stake); `RewardsStayWithinEmission` (no debt exceeds
  what the stake has earned, and what was paid and is pending is within the emission up
  to the last accrual, which adds, to all together, at most the rate and a unit for each farmer).
- Vaults and tokens: `VaultSharesRedeemable` (a share is worth at least a unit,
  and no assets are without a share), `UsdcIsAccountedFor` (what was deposited is
  held, released or the admin's), `WpiSupplyIsHeld` (balances against supply and
  transfers to oneself), `LpSupplyIsHeld`.
- Exchange: `PoolSharesKeepTheirWorth`, an action property of the
  constant-product pool: neither reserve falls faster than the shares in an addition or a
  removal, and a swap leaves the product no smaller.  It needs that the first
  deposit gets a number of shares; `IsqrtIsRoot` shows that and more: the iteration is well
  defined and returns the whole part of the root.
- Services: `FeesAlwaysSplitExactly`; `OnePoolForEachPair` (index and catalog are
  inverse to each other); `PathsAreFound`, about every list of pools;
  `CatalogIsComplete` (an entry of another than the admin was deployed);
  `BreakerTripsExactly` (reports are stamped in order; within the range,
  dividing and cutting change no comparison).

Then together: a step of `ContractsSpec` is a step of one contract, the others
rest, and only the closing of a ledger moves the time.  `EscrowAmongOthers`
(the composition implements the escrow's specification), `CustodyBooksHold`,
`AmountsStayAccountedFor`, `AnswersAreAlwaysRight` and
`PoolSharesKeepTheirWorthAmongOthers` are the properties of the `contracts` run.

The composition of the indexer is too large for TLC at bounds that matter: the
product of the two runs of its parts.  So it rests on these proofs and on the runs of the
parts; TLC explores it in `webhook_attempts` only, up to the counterexample.

Model-checked only: everything under fairness (`BurnsArrive`, `BurnsSettle`,
`DeliveriesSettle`, `ChainIsIndexed`, `DepositsComeBack`,
`BadDebtIsCollected`), which the prover cannot express; that the shares of the
stable pool keep their worth (`StableSharesKeepTheirWorth`), since how close 256
steps of Newton's rounded iterations come is a question of numerics.

## 6. What the code does, seen while modelling

Four disagreements with the repository's own statements have a run and a
finding in `PROJECT.json`.  The following have no run; each was read in the
source, and the models either reach the state or except it by name.

Bridges
- bridge-multisig: the volume is checked when proposing and not when executing,
  so that proposals pending together go beyond the cap (lib.rs:12 has the breaker
  halt the bridge); `approve` does not read `Paused` (lib.rs:68 has the pause stop
  its operations); and `check_volume` reads a window that is over (lib.rs:416): a
  full window refuses proposals until an execution, or the admin, opens another
  one.  With a threshold of one the proposer's vote meets it, but only `approve`
  executes.
- bridge-burn-mint: `burn_pusd` locks PUSD in the contract (lib.rs:289), the
  module's header says it burns (lib.rs:5).
- ArcBridge: `mintCap` is stored and never read (ArcBridge.sol:261) although
  PROJECT-STATUS.md:246 lists mint caps among what it implements; the constructor accepts a
  validator twice.
- relayer: the ledger advances past events that did not fit in a page
  (stellar-watcher.ts:104), where PHASE2-BRIDGE-DESIGN.md:185 has it detect
  every burn event;
  a transaction dropped from the pool is waited for without end
  (tx-builder.ts:65); two burns prepared together take one account nonce
  (tx-builder.ts:56); the EVM recipient is a placeholder and `destinationChain`
  is not compared (event-processor.ts).

Indexer
- A reset is overwritten by a poll that was awaiting its page (ingest.ts:332);
  the README's replay sequence ("missing rows are inserted") fails there.  `NoGap` and
  `ChainIsIndexed` hold nevertheless: the stream goes on from where the poll had it.
- A full page ends in the middle of a ledger and the next one starts at the ledger after
  (ingest.ts:338); an empty answer of Horizon moves the checkpoint past ledgers
  never read (ingest.ts:388); a replay from ledger 0 is taken for no checkpoint
  (ingest.ts:264).
- A crash between a row and its deliveries leaves an event unannounced
  (ingest.ts:316).  The latest indexed ledger is the maximum over the streams
  (freshness.ts:24), which hides a stalled one.  The backoff of a retry counts from
  the start of its round.  `financial.ts` nets positions over the newest page of
  events only.

Escrow
- A completed escrow that was overfunded keeps the rest (lib.rs:356); a dispute
  with nothing left to pay cannot be resolved (lib.rs:457); milestone amounts may be
  negative; `fee_bps` is stored and never applied.

Lending
- `set_collateral` credits collateral without moving a token (lib.rs:364), and
  `withdraw` pays out a deposit that was pledged so; a deposit credits its
  amount and the supply its b-tokens, so that the supply can reach zero while
  deposits remain (lib.rs:135); interest is added to the totals and to no debt;
  a seizure beyond the collateral is refused (lib.rs:426) where
  PHASE4-LIQUIDATION.md:35 says it is capped; `get_health_factor` answers 0 when
  prices are stale (lib.rs:540).
- The bot's discovery reads one page (discovery.ts:43).

Custody
- backstop: a withdrawal has no delay (lib.rs:157 says it has one; only claims
  wait).  `withdraw` lowers the deposits and not the balance, `absorb_bad_debt` the
  balance and not the deposits: `BackstopBooks` says what the two records are
  worth after each.  `initialize` can be called again, and the lending pool never
  calls `absorb_bad_debt`.
- node-staking: `unstake` pays the rewards that have accrued without taking them
  from the reward pool (lib.rs:228), out of other nodes' stakes if need be.
- liquidity-mining: while nobody stakes the index does not move and the last
  ledger stays behind, so that the first staker is paid for the empty time, at a
  new rate if it was changed meanwhile; debts are rounded in the user's favour;
  stakes and rewards share one account.  `RewardsWithinEmission` bounds what can be
  claimed nevertheless.
- strategy-vault: the strategy is set once and never called.  usdc-vault: what a
  user deposited is never lowered by a release or by `admin_withdraw`, and not covered
  after either; `AmountsAccountedFor` says where it went.

Tokens and exchange
- wpi-token: a transfer of a holder to itself adds the amount to its balance
  (lib.rs:240) and so creates tokens; `AmountsAccountedFor` does not refuse that: it
  counts them, and says that no other call parts balances and supply.
- stableswap: a swap pays all that the rounded iteration frees, where Curve keeps
  one unit back; with a fee of zero it may pay more than the invariant allows, and
  the whole of a small reserve.  With a fee it does not.
- pool-factory: a removed pool keeps its pair, and `find_pool` answers with it.
  swap-router: `register_pool` compares with neither the factory nor its own list.
- oracle: the deviation is cut to 32 bits (lib.rs:212), so that a price some
  429,497 times the last one may pass a breaker that "Returns true if price
  deviation from last known price exceeds threshold" (lib.rs:192); `set_price` and
  `commit_price` do not consult the breaker, and no query
  reads the configured age and threshold.

## 7. What is not modelled

The services that section 2 plans; minimum amounts that a caller accepts (they
only refuse a call); a second `initialize` of the backstop; what the factories
deploy, and the call that initializes it; names, decimals and kinds; recipients of
payments, event payloads and signatures' bytes (who signed is modelled, the cryptography is
not); role grants of OpenZeppelin's AccessControl, which stay as deployed; the
Arc-to-Stellar direction of the relayer beyond its outcome, since
`buildStellarMint` always throws; the registries that nothing reads
(`pause-registry`, `event-registry`, `identity`); the API's read handlers;
metrics, logging and configuration parsing; SDK, frontend, tools and deployment.
`PROJECT.json` says for every component what is left out and why.
