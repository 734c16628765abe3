---------------------------- MODULE BridgeRelayer ----------------------------
(***************************************************************************)
(* The PUSD bridge worker between its two chains: the Stellar contract,    *)
(* whose burns it watches, and the Arc contract, where it mints for them.  *)
(* The two contracts are instances of their own modules, each with the     *)
(* configuration the relayer needs: nobody pauses or reconfigures them     *)
(* and the relayer's key alone meets the threshold, as its single          *)
(* signature requires.  A mint that the Arc contract would refuse is one   *)
(* of the ways a submission fails.                                         *)
(*                                                                         *)
(* The relayer is one Node process.  Its state is in memory only: a crash  *)
(* loses what it has seen and what it was waiting for, but not what it     *)
(* has already sent.  Between two awaits a handler runs undisturbed, and   *)
(* the steps below end where the code awaits.                              *)
(***************************************************************************)
EXTENDS Integers, Sequences, SequencesExt, FiniteSets, FiniteSetsExt, Functions, Sums

CONSTANTS
  Amounts,     \* amounts that are burned
  Fees,        \* fee configurations a process may start with
  Funds,       \* PUSD in circulation on Stellar at the start
  Page,        \* events a getEvents answer holds at most
  Faults,      \* faults that may happen: "crash", "submit", "revert", "wait"
  MaxBurns,    \* bound on the number of burns
  MaxLedger    \* bound on the ledger sequence

ASSUME RelayerAssumption ==
  /\ Amounts \subseteq Nat \ {0}
  /\ Fees \subseteq [bps : Nat, minimum : Nat]
  /\ Funds \in Nat /\ Page \in Nat \ {0} /\ MaxBurns \in Nat /\ MaxLedger \in Nat
  /\ Faults \subseteq {"crash", "submit", "revert", "wait"}

VARIABLES
  \* the Stellar chain: see BridgeBurnMint
  ledger, nextNonce, chainBurned, burnEvents, circulating, locked,
  \* the Arc chain: see ArcBridge
  arcWindow, arcVolume, processedHashes, totalMinted, arcMints,
  totalBurned, arcNonces, arcBurns, balance,
  sent,        \* transactions of the relayer's account that Arc accepted
  mempool,     \* mint transactions sent to Arc and not yet executed
  reverted,    \* mint transactions that Arc executed and reverted
  \* the relayer
  up,          \* the process is running
  fee,         \* config.fees, read when the process starts
  lastLedger,  \* StellarWatcher.lastLedger
  target,      \* checkForEvents: currentLedger while getEvents is awaited
  status,      \* EventProcessor.processedEvents: the status of each event id
  prepared,    \* event ids whose transaction is prepared, with its account nonce
  waiting,     \* event ids whose transaction was sent and is waited for
  happened     \* history: the faults that have happened

stellar == <<ledger, nextNonce, chainBurned, burnEvents, circulating, locked>>
arcBooks == <<arcWindow, arcVolume, processedHashes, totalMinted, arcMints,
              totalBurned, arcNonces, arcBurns, balance>>
mint == <<sent, mempool, reverted>>
arc == <<arcBooks, mint>>
watcher == <<up, fee, lastLedger, target>>
processor == <<status, prepared, waiting>>
vars == <<stellar, arc, watcher, processor, happened>>

Idle == -2          \* target when no getEvents is awaited
Relayer == "relayer"
Chains == {"arc", "stellar"}

St == INSTANCE BridgeBurnMint WITH
        Accounts <- {}, Hashes <- {}, InitialSigners <- {<<>>}, Caps <- {0}, Windows <- {0},
        MintCaps <- {0}, MaxMints <- 0, signers <- {}, signerCount <- 0, threshold <- 1,
        volumeCap <- 0, windowLedgers <- 0, mintCap <- [c \in Chains |-> 0], paused <- ~TRUE,
        windowStart <- 0, volume <- 0, processed <- {},
        chainMinted <- [c \in Chains |-> 0], mints <- <<>>

Arc == INSTANCE ArcBridge WITH
        Accounts <- {Relayer}, Users <- {Relayer}, Hashes <- 1..MaxBurns, Nonces <- 0..MaxBurns,
        InitialValidators <- {<<Relayer, Relayer>>}, SignatureLists <- {<<Relayer>>},
        Caps <- {0}, Windows <- {0}, MintCaps <- {0}, MaxSupply <- 2 * Funds,
        MaxMints <- 2 * MaxBurns, MaxTime <- 0,
        validators <- [i \in 1..2 |-> Relayer], isValidator <- {Relayer}, threshold <- 1,
        volumeCap <- 0, volumeWindow <- 0, mintCap <- [c \in Chains |-> 0], paused <- ~TRUE,
        windowStart <- arcWindow, windowVolume <- arcVolume, nonces <- arcNonces,
        tokenPaused <- ~TRUE, tokenBridge <- ~FALSE, now <- 0, mints <- arcMints, burns <- arcBurns

EventIds == (1..MaxBurns) \X (0..MaxBurns)
MintHashes == [chain : {"stellar"}, hash : 1..MaxBurns, nonce : 0..MaxBurns, amount : Nat, to : {Relayer}]

TypeOK ==
  /\ burnEvents \in Seq([dest : Chains, amount : Amounts, nonce : Nat, tx : Nat, ledger : Nat])
  /\ mempool \subseteq MintHashes
  /\ reverted \subseteq MintHashes
  /\ processedHashes \subseteq MintHashes
  /\ up \in BOOLEAN
  /\ fee \in Fees
  /\ lastLedger \in Int
  /\ target \in Int
  /\ DOMAIN status \subseteq EventIds
  /\ Range(status) \subseteq {"processing", "completed", "failed"}
  /\ sent \in Nat
  /\ prepared \in [DOMAIN prepared -> 0..sent]
  /\ DOMAIN prepared \cap waiting = {}
  /\ DOMAIN prepared \cup waiting \subseteq {id \in DOMAIN status : status[id] = "processing"}

Init ==
  /\ ledger = 0 /\ nextNonce = 0 /\ chainBurned = [c \in Chains |-> 0]
  /\ burnEvents = <<>> /\ circulating = Funds /\ locked = 0
  /\ arcWindow = 0 /\ arcVolume = 0 /\ processedHashes = {}
  /\ totalMinted = [c \in Chains |-> 0] /\ arcMints = <<>>
  /\ totalBurned = [c \in Chains |-> 0]
  /\ arcNonces = [c \in Chains |-> [u \in {Relayer} |-> 0]]
  /\ arcBurns = <<>> /\ balance = [u \in {Relayer} |-> 0]
  /\ sent = 0 /\ mempool = {} /\ reverted = {}
  /\ up = TRUE
  /\ fee \in Fees
  /\ lastLedger = ledger - 1
  /\ target = Idle
  /\ status = <<>> /\ prepared = <<>> /\ waiting = {}
  /\ happened = {}

-----------------------------------------------------------------------------
(* The chains.  The ledger being built is not the latest one yet.           *)

LatestLedger == ledger - 1

Happens(fault) == fault \in Faults /\ happened' = happened \cup {fault}

\* For a reason the model knows, or as a fault.
Because(reason, fault) == (reason /\ UNCHANGED happened) \/ Happens(fault)

StellarBurn(amount, dest, tx) ==
  /\ ledger < MaxLedger
  /\ St!BurnPusd(amount, dest, tx)
  /\ UNCHANGED <<arc, watcher, processor, happened>>

StellarLedger ==
  /\ St!CloseLedger
  /\ UNCHANGED <<arc, watcher, processor, happened>>

ArcBurn(amount) ==
  /\ Arc!BurnPusd(Relayer, "stellar", amount)
  /\ UNCHANGED <<stellar, mint, watcher, processor, happened>>

ArcExecute(hash) ==
  /\ hash \in mempool
  /\ mempool' = mempool \ {hash}
  /\ Arc!MintPusd(hash, <<Relayer>>)
  /\ UNCHANGED <<stellar, sent, reverted, watcher, processor, happened>>

\* The transaction fails on the chain: the bridge is paused, its breaker or
\* its supply cap is met, the hash is processed already, or gas runs out.
ArcRevert(hash) ==
  /\ hash \in mempool
  /\ Because(hash \in processedHashes, "revert")
  /\ mempool' = mempool \ {hash}
  /\ reverted' = reverted \cup {hash}
  /\ UNCHANGED <<stellar, arcBooks, sent, watcher, processor>>

-----------------------------------------------------------------------------
(* StellarWatcher.                                                          *)

\* Fault: a process starts from the first ledger.
FirstLedger == -1

StartLedger == LatestLedger

Start ==
  /\ ~up
  /\ up' = TRUE
  /\ fee' \in Fees
  /\ lastLedger' = StartLedger
  /\ target' = Idle
  /\ UNCHANGED <<stellar, arc, processor, happened>>

Crash ==
  /\ up
  /\ Happens("crash")
  /\ up' = FALSE
  /\ status' = <<>> /\ prepared' = <<>> /\ waiting' = {}
  /\ lastLedger' = -1 /\ target' = Idle
  /\ UNCHANGED <<stellar, arc, fee>>

\* checkForEvents up to getEvents.
PollBegin ==
  /\ up /\ target = Idle
  /\ LatestLedger > lastLedger
  /\ target' = LatestLedger
  /\ UNCHANGED <<stellar, arc, up, fee, lastLedger, processor, happened>>

\* Fault: the ledger advances although its events were not fetched.
TargetReached == target

AfterError == lastLedger

\* getEvents fails; the next poll asks again.
PollError ==
  /\ up /\ target # Idle
  /\ lastLedger' = AfterError
  /\ target' = Idle
  /\ UNCHANGED <<stellar, arc, up, fee, processor, happened>>

\* The answer starts at lastLedger + 1, has no upper bound, and is one page.
EventsPage ==
  LET new == {i \in DOMAIN burnEvents : burnEvents[i].ledger \in (lastLedger + 1)..LatestLedger} IN
  {burnEvents[i] : i \in {j \in new : Cardinality({k \in new : k < j}) < Page}}

EventId(e) == <<e.tx, e.nonce>>

\* The rest of checkForEvents: every burn is handed to processStellarBurn,
\* which registers it, unless it is registered, before its first await.
PollEnd ==
  /\ up /\ target # Idle
  /\ LET seen == {EventId(e) : e \in EventsPage} IN
     status' = [id \in DOMAIN status \cup seen |->
                  IF id \in DOMAIN status THEN status[id] ELSE "processing"]
  /\ lastLedger' = target
  /\ target' = Idle
  /\ UNCHANGED <<stellar, arc, up, fee, prepared, waiting, happened>>

-----------------------------------------------------------------------------
(* EventProcessor.processStellarBurn after that await, with the             *)
(* TransactionBuilder and the FeeCollector.                                 *)

Fee(amount) == Max({(amount * fee.bps) \div 10000, fee.minimum})

Net(amount) == amount - Fee(amount)

BurnOf(id) == CHOOSE e \in Range(burnEvents) : EventId(e) = id

MintHash(id) ==
  LET e == BurnOf(id) IN
  [chain |-> "stellar", hash |-> e.tx, nonce |-> e.nonce, amount |-> Net(e.amount), to |-> Relayer]

\* mintPusd's arguments are encoded and its gas estimated before it is sent.
Encodable(id) == Net(BurnOf(id).amount) > 0

Unsent == {id \in DOMAIN status : status[id] = "processing" /\ id \notin waiting}

\* mintPusd prepares a transaction: the wallet asks for the account's nonce.
Prepare(id) ==
  /\ up /\ id \in Unsent \ DOMAIN prepared
  /\ Encodable(id)
  /\ prepared' = [other \in DOMAIN prepared \cup {id} |->
                    IF other = id THEN sent ELSE prepared[other]]
  /\ UNCHANGED <<stellar, arc, watcher, status, waiting, happened>>

Forget(id) == prepared' = RestrictDomain(prepared, LAMBDA other : other # id)

\* Arc takes one transaction for each nonce of the account.
Send(id) ==
  /\ up /\ id \in DOMAIN prepared
  /\ prepared[id] = sent
  /\ sent' = sent + 1
  /\ mempool' = mempool \cup {MintHash(id)}
  /\ Forget(id)
  /\ waiting' = waiting \cup {id}
  /\ UNCHANGED <<stellar, arcBooks, reverted, watcher, status, happened>>

\* Fault: the error of a rejected transaction is not caught.
NotCaught(id) == FALSE

\* Another transaction took the nonce between its reading and the sending.
NonceTaken(id) == id \in DOMAIN prepared /\ prepared[id] < sent

Refused(id) == ~Encodable(id) \/ NonceTaken(id)

\* Encoding, gas estimation, sending or the provider fails.
SubmitFails(id) ==
  /\ up /\ id \in Unsent
  /\ Because(Refused(id), "submit")
  /\ status' = [status EXCEPT ![id] = "failed"]
  /\ Forget(id)
  /\ UNCHANGED <<stellar, arc, watcher, waiting>>

\* Fault: a transaction is taken for confirmed when it was sent.
Sent(id) == id \in waiting

\* tx.wait() has a receipt of an executed transaction.
Confirmed(id) == id \in waiting /\ MintHash(id) \in processedHashes

Reverted(id) == MintHash(id) \in reverted

Complete(id) ==
  /\ up
  /\ Confirmed(id)
  /\ status' = [status EXCEPT ![id] = "completed"]
  /\ waiting' = waiting \ {id}
  /\ UNCHANGED <<stellar, arc, watcher, prepared, happened>>

\* The receipt says reverted, or tx.wait() fails while the transaction may
\* still execute; a failed event is never tried again.
WaitFails(id) ==
  /\ up /\ id \in waiting
  /\ Because(Reverted(id), "wait")
  /\ status' = [status EXCEPT ![id] = "failed"]
  /\ waiting' = waiting \ {id}
  /\ UNCHANGED <<stellar, arc, watcher, prepared>>

-----------------------------------------------------------------------------
StellarNext ==
  \/ \E amount \in Amounts, dest \in Chains \ {"stellar"}, tx \in St!BurnTransactions :
       StellarBurn(amount, dest, tx)
  \/ StellarLedger

ArcNext ==
  \/ \E amount \in Amounts : ArcBurn(amount)
  \/ \E hash \in mempool : ArcExecute(hash) \/ ArcRevert(hash)

WatcherNext == Start \/ Crash \/ PollBegin \/ PollError \/ PollEnd

ProcessorNext ==
  \E id \in DOMAIN status :
    Prepare(id) \/ Send(id) \/ SubmitFails(id) \/ Complete(id) \/ WaitFails(id)

Next == StellarNext \/ ArcNext \/ WatcherNext \/ ProcessorNext

Spec == Init /\ [][Next]_vars

\* Ledgers close and transactions are executed; setTimeout calls poll again
\* and again, an RPC node that fails at times also answers again and again,
\* handlers run on, and a process that died is started by its supervisor.
\* No fault has to happen.
Fairness ==
  /\ WF_vars(StellarLedger)
  /\ WF_vars(Start)
  /\ WF_vars(PollBegin)
  /\ SF_vars(PollEnd)
  /\ \A id \in EventIds :
       /\ WF_vars(Prepare(id))
       /\ WF_vars(Send(id) \/ (SubmitFails(id) /\ Refused(id)))
       /\ WF_vars(Complete(id) \/ (WaitFails(id) /\ Reverted(id)))
  /\ WF_vars(\E hash \in mempool : ArcExecute(hash) \/ ArcRevert(hash))

FairSpec == Spec /\ Fairness

-----------------------------------------------------------------------------
(* Properties.                                                              *)

\* What Arc minted for a burn, by the transaction and the nonce it names.
PaidFor(e) ==
  {i \in DOMAIN arcMints : arcMints[i].hash.hash = e.tx /\ arcMints[i].hash.nonce = e.nonce}

Transfer == INSTANCE PusdTransfer WITH
  burned <- [i \in DOMAIN burnEvents |-> burnEvents[i].amount],
  paid <- [i \in DOMAIN burnEvents |-> SumOver(Arc!AmountMinted, PaidFor(burnEvents[i]))]

\* The relayer and its two chains keep the bridge's promise through crashes,
\* restarts with another fee, failed submissions and transactions that
\* execute after the relayer gave them up: a burn is paid at most once and
\* never beyond its amount.
ImplementsTransfer == Transfer!Spec

\* PUSD in the hands of holders of both chains never exceeds what there was.
NoInflation == circulating + Arc!totalSupply <= Funds

\* A transfer reported completed was minted on Arc.
CompletedWasMinted ==
  \A i \in DOMAIN burnEvents :
    LET id == EventId(burnEvents[i]) IN
    id \in DOMAIN status /\ status[id] = "completed" => PaidFor(burnEvents[i]) # {}

\* What the relayer tells of a transfer is so and costs nobody: the state keeps
\* its types (status and position of event-processor.ts), no PUSD appears from
\* nothing, and completed means minted, through crashes and transactions that
\* execute after they were given up.
RelayerInv == TypeOK /\ NoInflation /\ CompletedWasMinted

Burned(i) == i \in DOMAIN burnEvents /\ Net(burnEvents[i].amount) > 0
Minted(i) == i \in DOMAIN burnEvents /\ PaidFor(burnEvents[i]) # {}

\* No two burns are being processed at once.
OneAtATime == Cardinality({id \in DOMAIN status : status[id] = "processing"}) <= 1

\* While nothing but the RPC node fails and burns are processed one at a
\* time, every burn that the fee leaves something of is minted on Arc, however
\* polls, failed polls, new ledgers and burns interleave.
BurnsArrive ==
  [](happened = {} /\ OneAtATime) => \A i \in 1..MaxBurns : Burned(i) ~> Minted(i)

\* Every burn noticed is accounted for: it is completed or failed in the end,
\* unless the process crashes, also when two transactions race for one nonce
\* of the account and when a transaction reverts or is given up.
BurnsSettle ==
  \A id \in EventIds :
    id \in DOMAIN status ~>
      \/ ~up
      \/ id \in DOMAIN status /\ status[id] \in {"completed", "failed"}

\* "If relayer offline: ... Restart relayer process, Monitor for catch-up"
\* (docs/INCIDENT-RUNBOOK.md:136): burns of the time the relayer was down are
\* minted once it is up for good.  start() begins at the latest ledger.
RestartCatchesUp == <>[]up => \A i \in 1..MaxBurns : Burned(i) ~> Minted(i)
=============================================================================
