------------------------- MODULE BridgeRelayerProofs -------------------------
(* Proofs about the relayer and the two chains it joins, for all amounts    *)
(* and fees, and any number of burns, crashes, restarts and other faults.   *)
EXTENDS BridgeRelayer, SumTheorems, FiniteSetTheorems, TLAPS

-----------------------------------------------------------------------------
(* The inductive invariant.                                                 *)

\* The burns: numbered from zero, none in a ledger to come.
BurnsInv ==
  /\ ledger \in Nat
  /\ nextNonce = Len(burnEvents) /\ Len(burnEvents) <= MaxBurns
  /\ burnEvents \in Seq([dest : Chains, amount : Amounts, nonce : Nat, tx : Nat, ledger : Nat])
  /\ \A i \in DOMAIN burnEvents :
       /\ burnEvents[i].nonce = i - 1
       /\ burnEvents[i].tx \in 1..Len(burnEvents)
       /\ burnEvents[i].ledger <= ledger

\* A mint pays for a burn of a closed ledger, and no more than was burned.
PaysABurn(hash) ==
  /\ hash.nonce + 1 \in DOMAIN burnEvents
  /\ hash.hash = burnEvents[hash.nonce + 1].tx
  /\ hash.amount \in 1..burnEvents[hash.nonce + 1].amount
  /\ burnEvents[hash.nonce + 1].ledger < ledger

ArcMint == [hash : MintHashes, signatures : {<<Relayer>>}, window : {0}]

\* The mints sent and executed: no burn has two of them.
MintsInv ==
  /\ mempool \subseteq MintHashes /\ reverted \subseteq MintHashes
  /\ arcMints \in Seq(ArcMint) /\ arcWindow = 0
  /\ processedHashes = {arcMints[j].hash : j \in DOMAIN arcMints}
  /\ \A hash \in mempool \cup processedHashes : PaysABurn(hash)
  /\ \A g, h \in mempool : g.nonce = h.nonce => g = h
  /\ \A h \in mempool, j \in DOMAIN arcMints : h.nonce # arcMints[j].hash.nonce
  /\ \A j, k \in DOMAIN arcMints : arcMints[j].hash.nonce = arcMints[k].hash.nonce => j = k

\* A mint for the i-th burn was sent to Arc, and did not revert.
Issued(i) == \E hash \in mempool \cup processedHashes : hash.nonce = i - 1

\* What the process knows are burns of closed ledgers.  A transaction it still
\* has to send, or a burn it has yet to see, was not paid by an earlier process.
ProcessInv ==
  /\ up \in BOOLEAN /\ fee \in Fees
  /\ lastLedger \in Int /\ lastLedger < ledger
  /\ target \in Int /\ (target # Idle => lastLedger < target /\ target < ledger)
  /\ \A id \in DOMAIN status :
       /\ status[id] \in {"processing", "completed", "failed"}
       /\ \E i \in DOMAIN burnEvents : EventId(burnEvents[i]) = id /\ burnEvents[i].ledger < ledger
  /\ sent \in Nat
  /\ prepared \in [DOMAIN prepared -> 0..sent]
  /\ DOMAIN prepared \cap waiting = {}
  /\ DOMAIN prepared \cup waiting \subseteq {id \in DOMAIN status : status[id] = "processing"}
  /\ ~up => DOMAIN status = {}

\* What was not sent before is not sent twice.
UnsentInv ==
  /\ \A id \in DOMAIN prepared : Net(BurnOf(id).amount) > 0
  /\ up => \A i \in DOMAIN burnEvents :
       LET id == EventId(burnEvents[i]) IN
       IF id \in DOMAIN status
       THEN status[id] = "processing" /\ id \notin waiting => ~Issued(i)
       ELSE burnEvents[i].ledger > lastLedger => ~Issued(i)

\* What is reported completed was minted.
CompletedInv ==
  \A id \in DOMAIN status :
    status[id] = "completed" =>
      \E j \in DOMAIN arcMints : arcMints[j].hash.hash = id[1] /\ arcMints[j].hash.nonce = id[2]

AmountBurned == [i \in DOMAIN burnEvents |-> burnEvents[i].amount]

\* The burns that nothing was minted for.
Unpaid == {i \in DOMAIN burnEvents : \A j \in DOMAIN arcMints : arcMints[j].hash.nonce # i - 1}

\* The PUSD on both chains, with what is burned and not minted yet, is no more
\* than there was at the start.
MoneyInv ==
  /\ circulating \in Nat
  /\ balance \in [{Relayer} -> Nat]
  /\ circulating + balance[Relayer] + SumOver(AmountBurned, Unpaid) <= Funds

IndInv == BurnsInv /\ MintsInv /\ ProcessInv /\ UnsentInv /\ CompletedInv /\ MoneyInv

-----------------------------------------------------------------------------
(* Burns, fees and mints.                                                   *)

\* An event id names one burn.
LEMMA BurnIs ==
  ASSUME NEW events, \A i, j \in DOMAIN events : events[i].nonce = events[j].nonce => i = j,
         NEW i \in DOMAIN events
  PROVE  (CHOOSE e \in Range(events) : EventId(e) = EventId(events[i])) = events[i]
<1> DEFINE Ours(e) == e \in Range(events) /\ EventId(e) = EventId(events[i])
<1>1. Ours(events[i])
  BY DEF Range
<1>2. ASSUME NEW e, Ours(e) PROVE e = events[i]
  <2>1. PICK j \in DOMAIN events : e = events[j]
    BY <1>2 DEF Range
  <2>2. events[j].nonce = events[i].nonce
    BY <1>2, <2>1 DEF EventId
  <2> QED
    BY <2>1, <2>2
<1> QED
  BY <1>1, <1>2

LEMMA DifferentNonces ==
  ASSUME BurnsInv
  PROVE  /\ \A i, j \in DOMAIN burnEvents : burnEvents[i].nonce = burnEvents[j].nonce => i = j
         /\ \A i, j \in DOMAIN burnEvents :
              EventId(burnEvents[i]) = EventId(burnEvents[j]) => i = j
<1>1. DOMAIN burnEvents = 1..Len(burnEvents) /\ Len(burnEvents) \in Nat
  BY DEF BurnsInv
<1>2. \A i \in DOMAIN burnEvents : i \in Int /\ burnEvents[i].nonce = i - 1
  BY <1>1 DEF BurnsInv
<1>3. \A i, j \in DOMAIN burnEvents :
        EventId(burnEvents[i]) = EventId(burnEvents[j]) =>
          burnEvents[i].nonce = burnEvents[j].nonce
  BY DEF EventId
<1> QED
  BY <1>2, <1>3

LEMMA BurnOfId ==
  ASSUME BurnsInv, NEW i \in DOMAIN burnEvents
  PROVE  BurnOf(EventId(burnEvents[i])) = burnEvents[i]
BY BurnIs, DifferentNonces DEF BurnOf

LEMMA BurnType ==
  ASSUME BurnsInv, NEW i \in DOMAIN burnEvents
  PROVE  /\ i \in 1..Len(burnEvents) /\ Len(burnEvents) \in Nat
         /\ burnEvents[i].amount \in Amounts /\ burnEvents[i].amount \in Nat \ {0}
         /\ burnEvents[i].dest \in Chains
         /\ burnEvents[i].nonce = i - 1 /\ burnEvents[i].tx \in 1..Len(burnEvents)
         /\ burnEvents[i].ledger \in Nat /\ burnEvents[i].ledger <= ledger
         /\ EventId(burnEvents[i]) \in EventIds
<1> DEFINE Event == [dest : Chains, amount : Amounts, nonce : Nat, tx : Nat, ledger : Nat]
<1>1. /\ i \in 1..Len(burnEvents) /\ Len(burnEvents) \in Nat /\ burnEvents[i] \in Event
  <2>1. burnEvents \in Seq(Event)
    BY DEF BurnsInv
  <2> HIDE DEF Event
  <2> QED
    BY <2>1
<1>2. /\ burnEvents[i].nonce = i - 1 /\ burnEvents[i].tx \in 1..Len(burnEvents)
      /\ burnEvents[i].ledger <= ledger /\ Len(burnEvents) <= MaxBurns
  BY DEF BurnsInv
<1>3. MaxBurns \in Nat /\ Amounts \subseteq Nat \ {0}
  BY RelayerAssumption
<1>4. EventId(burnEvents[i]) \in EventIds
  <2>1. burnEvents[i].nonce \in 0..MaxBurns /\ burnEvents[i].tx \in 1..MaxBurns
    BY <1>1, <1>2, <1>3
  <2> QED
    BY <2>1 DEF EventId, EventIds
<1> QED
  BY <1>1, <1>2, <1>3, <1>4

\* The fee is not negative.
LEMMA NetType ==
  ASSUME fee \in Fees, NEW amount \in Nat
  PROVE  Net(amount) \in Int /\ Net(amount) <= amount
<1>1. fee.bps \in Nat /\ fee.minimum \in Nat
  BY RelayerAssumption
<1> DEFINE share == (amount * fee.bps) \div 10000
<1>2. share \in Int
  BY <1>1
<1>3. Fee(amount) = Max({share, fee.minimum})
  BY DEF Fee
<1> HIDE DEF share
<1>4. Fee(amount) \in Int /\ Fee(amount) >= fee.minimum
  <2>1. PICK least \in Int : least = fee.minimum
    BY <1>1
  <2>2. Max({share, least}) \in {share, least} /\ least <= Max({share, least})
    BY ONLY <1>2, <2>1, TwoNumbers
  <2> QED
    BY <1>2, <1>3, <2>1, <2>2
<1> QED
  BY <1>1, <1>4 DEF Net

\* What is executed or waits on Arc.
LEMMA MintType ==
  ASSUME MintsInv
  PROVE  /\ mempool \cup processedHashes \subseteq MintHashes
         /\ \A j \in DOMAIN arcMints : arcMints[j].hash \in processedHashes
         /\ \A j \in DOMAIN arcMints : arcMints[j] \in ArcMint
         /\ \A h \in MintHashes : h.nonce \in Nat /\ h.hash \in Nat /\ h.amount \in Nat
                                  /\ h.to = Relayer /\ h.chain = "stellar"
<1>1. \A j \in DOMAIN arcMints : arcMints[j] \in ArcMint /\ arcMints[j].hash \in processedHashes
  BY DEF MintsInv
<1>2. \A m \in ArcMint : m.hash \in MintHashes
  BY DEF ArcMint
<1>3. \A h \in MintHashes : h.nonce \in Nat /\ h.hash \in Nat /\ h.amount \in Nat
                                  /\ h.to = Relayer /\ h.chain = "stellar"
  BY RelayerAssumption DEF MintHashes
<1>4. processedHashes \subseteq MintHashes
  BY <1>1, <1>2 DEF MintsInv
<1> QED
  BY <1>1, <1>3, <1>4 DEF MintsInv

-----------------------------------------------------------------------------
(* The invariant holds at the start, and steps keep what they do not touch.  *)

LEMMA InitInv == Init => IndInv
<1> SUFFICES ASSUME Init PROVE IndInv
  OBVIOUS
<1>1. /\ burnEvents = <<>> /\ arcMints = <<>> /\ mempool = {} /\ reverted = {}
      /\ processedHashes = {} /\ DOMAIN status = {} /\ waiting = {} /\ prepared = <<>>
  BY DEF Init
<1>2. DOMAIN burnEvents = {} /\ DOMAIN arcMints = {} /\ DOMAIN prepared = {}
  BY <1>1
<1>3. BurnsInv
  BY <1>1, <1>2, RelayerAssumption DEF BurnsInv, Init
<1>4. MintsInv
  BY <1>1, <1>2 DEF MintsInv, Init
<1>5. ProcessInv
  <2>1. prepared \in [DOMAIN prepared -> 0..sent]
    BY <1>1, <1>2
  <2> QED
    BY <1>1, <1>2, <2>1 DEF ProcessInv, Init, Idle
<1>6. UnsentInv /\ CompletedInv
  BY <1>1, <1>2 DEF UnsentInv, CompletedInv
<1>7. MoneyInv
  <2>1. Unpaid = {}
    BY <1>2 DEF Unpaid
  <2>2. SumOver(AmountBurned, Unpaid) = 0
    BY <2>1, SumEmpty
  <2>3. circulating = Funds /\ balance = [u \in {Relayer} |-> 0] /\ Funds \in Nat
    BY RelayerAssumption DEF Init
  <2> QED
    BY <2>2, <2>3 DEF MoneyInv
<1> QED
  BY <1>3, <1>4, <1>5, <1>6, <1>7 DEF IndInv

LEMMA SameBurns == BurnsInv /\ UNCHANGED <<ledger, nextNonce, burnEvents>> => BurnsInv'
BY DEF BurnsInv

LEMMA SameMints ==
  MintsInv /\ UNCHANGED <<ledger, burnEvents, arcWindow, processedHashes, arcMints, mempool, reverted>>
    => MintsInv'
BY DEF MintsInv, PaysABurn

LEMMA SameProcess ==
  ProcessInv /\ UNCHANGED <<ledger, burnEvents, watcher, processor, sent>> => ProcessInv'
BY DEF ProcessInv, watcher, processor

LEMMA SameMoney ==
  MoneyInv /\ UNCHANGED <<circulating, balance, burnEvents, arcMints>> => MoneyInv'
BY DEF MoneyInv, AmountBurned, Unpaid

LEMMA SameCompleted ==
  CompletedInv /\ UNCHANGED <<status, arcMints>> => CompletedInv'
BY DEF CompletedInv

LEMMA SameNet ==
  UNCHANGED <<fee, burnEvents>> => \A id : Net(BurnOf(id).amount)' = Net(BurnOf(id).amount)
BY DEF Net, Fee, BurnOf

LEMMA SameUnsent ==
  UnsentInv /\ UNCHANGED <<burnEvents, mempool, processedHashes, up, fee, lastLedger, processor>>
    => UnsentInv'
<1> SUFFICES ASSUME UnsentInv,
                    UNCHANGED <<burnEvents, mempool, processedHashes, up, fee, lastLedger, processor>>
             PROVE  UnsentInv'
  OBVIOUS
<1>1. \A id \in DOMAIN prepared : Net(BurnOf(id).amount)' > 0
  BY SameNet DEF UnsentInv
<1> QED
  BY <1>1 DEF UnsentInv, Issued, processor

LEMMA UnpaidSums ==
  ASSUME BurnsInv, NEW S \in SUBSET DOMAIN burnEvents
  PROVE  /\ IsFiniteSet(S)
         /\ \A i \in S : AmountBurned[i] \in Int
         /\ SumOver(AmountBurned, S) \in Int
<1>1. DOMAIN burnEvents = 1..Len(burnEvents) /\ Len(burnEvents) \in Nat
  BY DEF BurnsInv
<1>2. IsFiniteSet(DOMAIN burnEvents)
  BY <1>1, FS_Interval
<1>3. IsFiniteSet(S)
  BY <1>2, FS_Subset
<1>4. \A i \in S : AmountBurned[i] \in Int
  BY BurnType DEF AmountBurned
<1> QED
  BY <1>3, <1>4, SumType

LEMMA LedgerStep ==
  ASSUME IndInv, StellarLedger
  PROVE  IndInv'
<1>1. /\ ledger' = ledger + 1
      /\ UNCHANGED <<nextNonce, burnEvents, circulating, arc, watcher, processor>>
  BY DEF StellarLedger, St!CloseLedger, St!burnState
<1>2. BurnsInv'
  BY <1>1, BurnType DEF IndInv, BurnsInv
<1>3. UNCHANGED <<arcWindow, processedHashes, arcMints, mempool, reverted, sent, balance>>
  BY <1>1 DEF arc, arcBooks, mint
<1>4. \A i \in DOMAIN burnEvents :
        burnEvents[i].ledger \in Nat /\ (burnEvents[i].ledger < ledger => burnEvents[i].ledger < ledger')
  BY <1>1, BurnType DEF IndInv, BurnsInv
<1>5. MintsInv'
  BY <1>1, <1>3, <1>4 DEF IndInv, MintsInv, PaysABurn
<1>6. ProcessInv'
  <2>1. ledger \in Nat
    BY DEF IndInv, BurnsInv
  <2> QED
    BY <1>1, <1>3, <1>4, <2>1 DEF IndInv, ProcessInv, watcher, processor
<1> QED
  BY <1>1, <1>2, <1>3, <1>5, <1>6, SameMoney, SameCompleted, SameUnsent
  DEF IndInv, watcher, processor

LEMMA ArcBurnStep ==
  ASSUME IndInv, NEW amount \in Amounts, ArcBurn(amount)
  PROVE  IndInv'
<1>1. /\ amount <= balance[Relayer]
      /\ balance' = [balance EXCEPT ![Relayer] = @ - amount]
      /\ UNCHANGED <<stellar, arcWindow, processedHashes, arcMints, mint, watcher, processor>>
  BY DEF ArcBurn, Arc!BurnPusd, Arc!TokenBurn, Arc!mintState, Arc!breaker
<1>2. MoneyInv'
  <2>1. UNCHANGED <<circulating, burnEvents, arcMints>>
    BY <1>1 DEF stellar
  <2>2. amount \in Nat /\ balance[Relayer] \in Nat /\ balance'[Relayer] = balance[Relayer] - amount
        /\ balance' \in [{Relayer} -> Nat] /\ circulating \in Nat /\ Funds \in Nat
    BY <1>1, RelayerAssumption DEF IndInv, MoneyInv
  <2>3. SumOver(AmountBurned, Unpaid)' = SumOver(AmountBurned, Unpaid)
    BY <2>1 DEF AmountBurned, Unpaid
  <2>4. circulating + balance[Relayer] + SumOver(AmountBurned, Unpaid) <= Funds
    BY DEF IndInv, MoneyInv
  <2>5. SumOver(AmountBurned, Unpaid) \in Int
    BY UnpaidSums DEF IndInv, Unpaid
  <2> QED
    BY <2>1, <2>2, <2>3, <2>4, <2>5 DEF MoneyInv
<1>3. UNCHANGED <<ledger, nextNonce, burnEvents, mempool, reverted, sent>>
  BY <1>1 DEF stellar, mint
<1> QED
  BY <1>1, <1>2, <1>3, SameBurns, SameMints, SameProcess, SameCompleted, SameUnsent
  DEF IndInv, watcher, processor

LEMMA RevertStep ==
  ASSUME IndInv, NEW hash \in mempool, ArcRevert(hash)
  PROVE  IndInv'
<1>1. /\ mempool' = mempool \ {hash} /\ reverted' = reverted \cup {hash}
      /\ UNCHANGED <<stellar, arcBooks, sent, watcher, processor>>
  BY DEF ArcRevert
<1>2. UNCHANGED <<ledger, nextNonce, burnEvents, circulating, arcWindow, processedHashes, arcMints,
                  balance>>
  BY <1>1 DEF stellar, arcBooks
<1>3. MintsInv'
  BY <1>1, <1>2 DEF IndInv, MintsInv, PaysABurn
<1>4. UnsentInv'
  <2>1. \A i : Issued(i)' => Issued(i)
    BY <1>1, <1>2 DEF Issued
  <2> QED
    BY <1>1, <1>2, <2>1, SameNet DEF IndInv, UnsentInv, watcher, processor
<1> QED
  BY <1>1, <1>2, <1>3, <1>4, SameBurns, SameProcess, SameMoney, SameCompleted
  DEF IndInv, watcher, processor

LEMMA BurnStep ==
  ASSUME IndInv, NEW amount \in Amounts, NEW dest \in Chains \ {"stellar"},
         NEW tx \in St!BurnTransactions, StellarBurn(amount, dest, tx)
  PROVE  IndInv'
<1>0. BurnsInv /\ MintsInv /\ ProcessInv /\ UnsentInv /\ CompletedInv /\ MoneyInv
  BY DEF IndInv
<1> DEFINE event == [dest |-> dest, amount |-> amount, nonce |-> nextNonce, tx |-> tx,
                     ledger |-> ledger]
           Event == [dest : Chains, amount : Amounts, nonce : Nat, tx : Nat, ledger : Nat]
<1>n. PICK n : n = Len(burnEvents) + 1
  OBVIOUS
<1>1. /\ Len(burnEvents) < MaxBurns
      /\ amount <= circulating /\ circulating' = circulating - amount
      /\ nextNonce' = nextNonce + 1
      /\ burnEvents' = Append(burnEvents, event)
      /\ ledger' = ledger
      /\ UNCHANGED <<arc, watcher, processor>>
  BY DEF StellarBurn, St!BurnPusd, St!NonceAfterBurn
<1>2. UNCHANGED <<arcWindow, processedHashes, arcMints, mempool, reverted, sent, balance, up, fee,
                  lastLedger, target, status, prepared, waiting>>
  BY <1>1 DEF arc, arcBooks, mint, watcher, processor
<1>3. tx \in 1..n
  <2>1. \A i \in DOMAIN burnEvents : burnEvents[i].tx \in 1..Len(burnEvents) /\ Len(burnEvents) \in Nat
    BY <1>0, BurnType
  <2>2. Len(burnEvents) \in Nat
    BY <1>0 DEF BurnsInv
  <2> QED
    BY <1>n, <2>1, <2>2 DEF St!BurnTransactions
<1>4. /\ n \in Nat \ {0} /\ nextNonce = n - 1 /\ ledger \in Nat /\ MaxBurns \in Nat
      /\ amount \in Nat \ {0}
  BY <1>0, <1>n, RelayerAssumption DEF BurnsInv
<1>5. event \in Event
  BY <1>3, <1>4
<1>6. event.nonce = n - 1 /\ event.tx = tx /\ event.ledger = ledger /\ event.amount = amount
  BY <1>4
<1>7. burnEvents \in Seq(Event) /\ DOMAIN burnEvents = 1..Len(burnEvents) /\ Len(burnEvents) \in Nat
  BY <1>0 DEF BurnsInv
<1> HIDE DEF event, Event
<1>8. /\ burnEvents' \in Seq(Event) /\ Len(burnEvents') = n /\ DOMAIN burnEvents' = 1..n
      /\ burnEvents'[n] = event
      /\ \A i \in DOMAIN burnEvents : i \in 1..n /\ i # n /\ i \in Nat /\ burnEvents'[i] = burnEvents[i]
      /\ \A i \in 1..n : i = n \/ i \in DOMAIN burnEvents
  BY <1>n, <1>1, <1>5, <1>7
<1>9. BurnsInv'
  <2> SUFFICES ASSUME NEW i \in 1..n
               PROVE  /\ burnEvents'[i].nonce = i - 1
                      /\ burnEvents'[i].tx \in 1..n
                      /\ burnEvents'[i].ledger <= ledger
    <3>1. ledger' \in Nat /\ nextNonce' = n /\ Len(burnEvents') = n /\ n <= MaxBurns
      BY <1>n, <1>1, <1>4, <1>7, <1>8
    <3>2. burnEvents' \in Seq([dest : Chains, amount : Amounts, nonce : Nat, tx : Nat, ledger : Nat])
      BY <1>8 DEF Event
    <3> QED
      BY <1>1, <1>8, <3>1, <3>2 DEF BurnsInv
  <2>1. CASE i = n
    BY <1>3, <1>4, <1>6, <1>8, <2>1
  <2>2. CASE i \in DOMAIN burnEvents
    <3>1. burnEvents[i].tx \in 1..n
      <4>1. burnEvents[i].tx \in 1..Len(burnEvents)
        BY <1>0, <2>2, BurnType
      <4> QED
        BY <1>n, <1>7, <4>1
    <3> QED
      BY <1>0, <1>8, <2>2, <3>1 DEF BurnsInv
  <2> QED
    BY <1>8, <2>1, <2>2
<1>10. MintsInv'
  <2>1. \A hash : PaysABurn(hash) => PaysABurn(hash)'
    BY <1>1, <1>8 DEF PaysABurn
  <2> QED
    BY <1>0, <1>2, <2>1 DEF MintsInv
<1>11. ProcessInv'
  <2>1. ASSUME NEW id \in DOMAIN status
        PROVE  \E i \in DOMAIN burnEvents' :
                 EventId(burnEvents'[i]) = id /\ burnEvents'[i].ledger < ledger
    <3>1. PICK i \in DOMAIN burnEvents : EventId(burnEvents[i]) = id /\ burnEvents[i].ledger < ledger
      BY <1>0 DEF ProcessInv
    <3> QED
      BY <1>8, <3>1
  <2> QED
    BY <1>0, <1>1, <1>2, <2>1 DEF ProcessInv
<1>12. UnsentInv'
  <2>1. ASSUME NEW id \in DOMAIN prepared
        PROVE  Net(BurnOf(id).amount)' > 0
    <3>1. PICK i \in DOMAIN burnEvents : EventId(burnEvents[i]) = id
      BY <1>0 DEF ProcessInv
    <3>2. BurnOf(id) = burnEvents[i]
      BY <1>0, <3>1, BurnOfId
    <3>3. \A j, k \in DOMAIN burnEvents' : burnEvents'[j].nonce = burnEvents'[k].nonce => j = k
      <4>1. \A j \in DOMAIN burnEvents' : j \in Int /\ burnEvents'[j].nonce = j - 1
        BY <1>8, <1>9 DEF BurnsInv
      <4> QED
        BY <4>1
    <3>4. i \in DOMAIN burnEvents' /\ EventId(burnEvents'[i]) = id /\ burnEvents'[i] = burnEvents[i]
      BY <1>8, <3>1
    <3>5. (CHOOSE e \in Range(burnEvents') : EventId(e) = EventId(burnEvents'[i])) = burnEvents'[i]
      BY ONLY <3>3, <3>4, BurnIs
    <3>6. BurnOf(id)' = BurnOf(id)
      BY <3>2, <3>4, <3>5 DEF BurnOf
    <3>7. Net(BurnOf(id).amount)' = Net(BurnOf(id).amount)
      BY <1>2, <3>6 DEF Net, Fee
    <3> QED
      BY <1>0, <3>7 DEF UnsentInv
  <2>2. ASSUME up, NEW i \in DOMAIN burnEvents'
        PROVE  LET id == EventId(burnEvents'[i]) IN
               IF id \in DOMAIN status
               THEN status[id] = "processing" /\ id \notin waiting => ~Issued(i)
               ELSE burnEvents'[i].ledger > lastLedger => ~Issued(i)
    <3>1. CASE i \in DOMAIN burnEvents
      BY <1>0, <1>8, <2>2, <3>1 DEF UnsentInv
    <3>2. CASE i = n
      <4>1. ~Issued(n)
        <5> SUFFICES ASSUME NEW hash \in mempool \cup processedHashes, hash.nonce = n - 1
                     PROVE  FALSE
          BY DEF Issued
        <5>1. hash.nonce + 1 \in DOMAIN burnEvents
          BY <1>0 DEF MintsInv, PaysABurn
        <5>2. hash.nonce + 1 = n
          BY <1>4
        <5> QED
          BY <1>n, <1>7, <5>1, <5>2
      <4> QED
        BY <3>2, <4>1
    <3> QED
      BY <1>8, <3>1, <3>2
  <2>3. \A i : Issued(i)' <=> Issued(i)
    BY <1>2 DEF Issued
  <2> QED
    BY <1>2, <2>1, <2>2, <2>3 DEF UnsentInv
<1>13. MoneyInv'
  <2>1. DOMAIN AmountBurned = DOMAIN burnEvents /\ Unpaid \in SUBSET DOMAIN burnEvents
    BY DEF AmountBurned, Unpaid
  <2>2. Unpaid' = Unpaid \cup {n}
    <3>1. \A j \in DOMAIN arcMints : arcMints[j].hash.nonce # n - 1
      <4> SUFFICES ASSUME NEW j \in DOMAIN arcMints, arcMints[j].hash.nonce = n - 1 PROVE FALSE
        OBVIOUS
      <4>1. arcMints[j].hash.nonce + 1 \in DOMAIN burnEvents
        BY <1>0, MintType DEF MintsInv, PaysABurn
      <4>2. arcMints[j].hash.nonce + 1 = n
        BY <1>4
      <4> QED
        BY <1>n, <1>7, <4>1, <4>2
    <3> QED
      <4>1. Unpaid' = {i \in 1..n : \A j \in DOMAIN arcMints : arcMints[j].hash.nonce # i - 1}
        BY <1>2, <1>8 DEF Unpaid
      <4>2. n \in 1..n
        BY <1>4
      <4> QED
        BY <1>8, <3>1, <4>1, <4>2 DEF Unpaid
  <2>3. PICK before, after, S : before = AmountBurned /\ after = AmountBurned' /\ S = Unpaid
    OBVIOUS
  <2>4. \A i \in S : after[i] = before[i] /\ before[i] \in Int
    BY <1>0, <1>8, <2>1, <2>3, UnpaidSums DEF AmountBurned
  <2>5. after[n] = amount /\ n \notin S
    BY <1>6, <1>7, <1>8, <1>n, <2>1, <2>3 DEF AmountBurned
  <2>6. IsFiniteSet(S) /\ SumOver(before, S) \in Int
    BY <1>0, <2>1, <2>3, UnpaidSums
  <2>7. SumOver(after, S) = SumOver(before, S)
    BY ONLY <2>4, <2>6, SumSame
  <2>8. SumOver(after, S \cup {n}) = amount + SumOver(after, S)
    <3>1. \A i \in S \cup {n} : after[i] \in Int
      BY <1>4, <2>4, <2>5
    <3>2. SumOver(after, S \cup {n}) = after[n] + SumOver(after, S)
      BY ONLY <2>5, <2>6, <3>1, SumAdd
    <3> QED
      BY <2>5, <3>2
  <2>9. circulating \in Nat /\ balance[Relayer] \in Nat /\ Funds \in Nat
        /\ circulating + balance[Relayer] + SumOver(before, S) <= Funds
    BY <1>0, <2>3, RelayerAssumption DEF MoneyInv
  <2>10. SumOver(AmountBurned, Unpaid)' = SumOver(before, S) + amount
    BY <1>4, <2>2, <2>3, <2>6, <2>7, <2>8
  <2> QED
    BY <1>0, <1>1, <1>2, <1>4, <2>6, <2>9, <2>10 DEF MoneyInv
<1>14. CompletedInv'
  BY <1>0, <1>2, SameCompleted
<1> QED
  BY <1>9, <1>10, <1>11, <1>12, <1>13, <1>14 DEF IndInv

\* What a mint does on Arc, where the relayer signs alone.
LEMMA ExecuteFacts ==
  ASSUME MintsInv, NEW hash \in mempool, ArcExecute(hash)
  PROVE  /\ hash \notin processedHashes
         /\ mempool' = mempool \ {hash} /\ reverted' = reverted
         /\ processedHashes' = processedHashes \cup {hash}
         /\ arcWindow' = 0
         /\ arcMints' = Append(arcMints, [hash |-> hash, signatures |-> <<Relayer>>, window |-> 0])
         /\ balance' = [balance EXCEPT ![Relayer] = @ + hash.amount]
         /\ UNCHANGED <<stellar, sent, watcher, processor>>
<1>1. hash.to = Relayer /\ arcWindow = 0
  BY MintType DEF MintsInv
<1>2. /\ hash \notin processedHashes
      /\ mempool' = mempool \ {hash} /\ reverted' = reverted
      /\ processedHashes' = processedHashes \cup {hash}
      /\ UNCHANGED <<stellar, sent, watcher, processor>>
  BY DEF ArcExecute, Arc!MintPusd, Arc!NotProcessed
<1>3. arcWindow' = 0
  BY <1>1 DEF ArcExecute, Arc!MintPusd, Arc!CountVolume
<1>4. balance' = [balance EXCEPT ![Relayer] = @ + hash.amount]
  BY <1>1 DEF ArcExecute, Arc!MintPusd, Arc!TokenMint
<1>5. arcMints' = Append(arcMints, [hash |-> hash, signatures |-> <<Relayer>>, window |-> 0])
  BY <1>3 DEF ArcExecute, Arc!MintPusd
<1> QED
  BY <1>2, <1>3, <1>4, <1>5

LEMMA ExecuteStep ==
  ASSUME IndInv, NEW hash \in mempool, ArcExecute(hash)
  PROVE  IndInv'
<1>0. BurnsInv /\ MintsInv /\ ProcessInv /\ UnsentInv /\ CompletedInv /\ MoneyInv
  BY DEF IndInv
<1> DEFINE m == [hash |-> hash, signatures |-> <<Relayer>>, window |-> 0]
<1>n. PICK n : n = Len(arcMints) + 1
  OBVIOUS
<1>1. /\ hash \notin processedHashes
      /\ mempool' = mempool \ {hash} /\ reverted' = reverted
      /\ processedHashes' = processedHashes \cup {hash}
      /\ arcWindow' = 0
      /\ arcMints' = Append(arcMints, m)
      /\ balance' = [balance EXCEPT ![Relayer] = @ + hash.amount]
      /\ UNCHANGED <<stellar, sent, watcher, processor>>
  BY <1>0, ExecuteFacts
<1>2. UNCHANGED <<ledger, nextNonce, burnEvents, circulating>>
  BY <1>1 DEF stellar
<1>3. hash \in MintHashes /\ PaysABurn(hash) /\ m \in ArcMint /\ m.hash = hash
  BY <1>0, MintType DEF MintsInv, ArcMint
<1> HIDE DEF m
<1>4. arcMints \in Seq(ArcMint)
  BY <1>0 DEF MintsInv
<1>5. /\ arcMints' \in Seq(ArcMint) /\ DOMAIN arcMints' = DOMAIN arcMints \cup {n}
      /\ n \notin DOMAIN arcMints /\ arcMints'[n] = m
      /\ \A j \in DOMAIN arcMints : arcMints'[j] = arcMints[j]
  BY <1>n, <1>1, <1>3, <1>4
<1>6. BurnsInv'
  BY <1>0, <1>2, SameBurns
<1>7. MintsInv'
  <2>1. mempool' \subseteq MintHashes /\ reverted' \subseteq MintHashes
    BY <1>0, <1>1 DEF MintsInv
  <2>2. processedHashes' = {arcMints'[j].hash : j \in DOMAIN arcMints'}
    BY <1>0, <1>1, <1>3, <1>5 DEF MintsInv
  <2>3. \A h \in mempool' \cup processedHashes' : PaysABurn(h)'
    <3>1. mempool' \cup processedHashes' \subseteq mempool \cup processedHashes
      BY <1>1
    <3> QED
      BY <1>0, <1>2, <3>1 DEF MintsInv, PaysABurn
  <2>4. \A g, h \in mempool' : g.nonce = h.nonce => g = h
    BY <1>0, <1>1 DEF MintsInv
  <2>5. \A h \in mempool', j \in DOMAIN arcMints' : h.nonce # arcMints'[j].hash.nonce
    BY <1>0, <1>1, <1>3, <1>5 DEF MintsInv
  <2>6. \A j, k \in DOMAIN arcMints' : arcMints'[j].hash.nonce = arcMints'[k].hash.nonce => j = k
    BY <1>0, <1>3, <1>5 DEF MintsInv
  <2> QED
    BY <1>1, <1>5, <2>1, <2>2, <2>3, <2>4, <2>5, <2>6 DEF MintsInv
<1>8. UnsentInv'
  <2>1. \A i : Issued(i)' => Issued(i)
    BY <1>1 DEF Issued
  <2> QED
    BY <1>0, <1>1, <1>2, <2>1, SameNet DEF UnsentInv, watcher, processor
<1>9. CompletedInv'
  <2>1. status' = status
    BY <1>1 DEF processor
  <2> SUFFICES ASSUME NEW id \in DOMAIN status, status[id] = "completed"
               PROVE  \E j \in DOMAIN arcMints' :
                        arcMints'[j].hash.hash = id[1] /\ arcMints'[j].hash.nonce = id[2]
    BY <2>1 DEF CompletedInv
  <2>2. PICK j \in DOMAIN arcMints : arcMints[j].hash.hash = id[1] /\ arcMints[j].hash.nonce = id[2]
    BY <1>0 DEF CompletedInv
  <2> QED
    BY <1>5, <2>2
<1>10. MoneyInv'
  <2>1. PICK i, burnt : /\ i = hash.nonce + 1 /\ i \in DOMAIN burnEvents
                        /\ burnt = burnEvents[i].amount /\ hash.amount \in 1..burnt
                        /\ hash.nonce = i - 1
    <3>1. hash.nonce \in Nat
      BY <1>3, MintType, <1>0
    <3> QED
      BY <1>3, <3>1 DEF PaysABurn
  <2>2. i \in Unpaid
    BY <1>0, <2>1 DEF Unpaid, MintsInv
  <2>3. Unpaid' = Unpaid \ {i}
    <3>1. \A k \in DOMAIN burnEvents : k \in Int /\ i \in Int
      BY <1>0, <2>1, BurnType
    <3>2. \A k \in DOMAIN burnEvents : hash.nonce # k - 1 <=> k # i
      BY <2>1, <3>1
    <3>3. \A k \in DOMAIN burnEvents :
            (\A j \in DOMAIN arcMints' : arcMints'[j].hash.nonce # k - 1)
              <=> (\A j \in DOMAIN arcMints : arcMints[j].hash.nonce # k - 1) /\ k # i
      BY <1>3, <1>5, <3>2
    <3> QED
      BY <1>2, <3>3 DEF Unpaid
  <2>4. PICK f, S : f = AmountBurned /\ S = Unpaid
    OBVIOUS
  <2>5. f[i] = burnt /\ AmountBurned' = f
    BY <1>2, <2>1, <2>4 DEF AmountBurned
  <2>6. /\ IsFiniteSet(S) /\ SumOver(f, S) \in Int /\ SumOver(f, S \ {i}) \in Int
        /\ \A k \in S : f[k] \in Int
    BY <1>0, <2>4, UnpaidSums DEF Unpaid
  <2>7. SumOver(f, S) = f[i] + SumOver(f, S \ {i})
    BY <2>2, <2>4, <2>6, SumRemove
  <2>8. SumOver(AmountBurned, Unpaid)' = SumOver(f, S \ {i})
    BY <2>3, <2>4, <2>5
  <2>9. /\ circulating \in Nat /\ balance \in [{Relayer} -> Nat] /\ Funds \in Nat
        /\ circulating + balance[Relayer] + SumOver(f, S) <= Funds
    BY <1>0, <2>4, RelayerAssumption DEF MoneyInv
  <2>10. balance' \in [{Relayer} -> Nat] /\ balance'[Relayer] = balance[Relayer] + hash.amount
    BY <1>1, <2>1, <2>9
  <2>11. burnt \in Nat
    BY <1>0, <2>1, BurnType
  <2>12. circulating + balance'[Relayer] + SumOver(f, S \ {i}) <= Funds
    <3>1. PICK before, left, held, more : /\ before = SumOver(f, S) /\ left = SumOver(f, S \ {i})
                                          /\ held = balance[Relayer] /\ more = hash.amount
      OBVIOUS
    <3>2. before = burnt + left /\ more \in 1..burnt /\ held \in Nat /\ left \in Int
      BY <2>1, <2>5, <2>6, <2>7, <2>9, <3>1
    <3> QED
      BY <2>9, <2>10, <2>11, <3>1, <3>2
  <2> QED
    BY <1>2, <2>8, <2>9, <2>10, <2>12 DEF MoneyInv
<1> QED
  BY <1>0, <1>1, <1>2, <1>6, <1>7, <1>8, <1>9, <1>10, SameProcess DEF IndInv

-----------------------------------------------------------------------------
(* The steps of the process.  All but Send leave the chains alone.           *)

\* A step of the process that sends nothing.
LEMMA ChainsStay ==
  ASSUME IndInv, UNCHANGED <<stellar, arc>>
  PROVE  /\ BurnsInv' /\ MintsInv' /\ MoneyInv'
         /\ UNCHANGED <<ledger, burnEvents, arcMints, mempool, processedHashes, sent>>
         /\ \A i : Issued(i)' <=> Issued(i)
<1>1. UNCHANGED <<ledger, nextNonce, burnEvents, circulating, arcWindow, processedHashes, arcMints,
                  balance, mempool, reverted, sent>>
  BY DEF stellar, arc, arcBooks, mint
<1>2. \A i : Issued(i)' <=> Issued(i)
  BY <1>1 DEF Issued
<1> QED
  BY <1>1, <1>2, SameBurns, SameMints, SameMoney DEF IndInv

LEMMA StartStep ==
  ASSUME IndInv, Start
  PROVE  IndInv'
<1>1. /\ ~up /\ up' = TRUE /\ fee' \in Fees /\ lastLedger' = ledger - 1 /\ target' = Idle
      /\ UNCHANGED <<stellar, arc, status, prepared, waiting>>
  BY DEF Start, StartLedger, LatestLedger, processor
<1>2. /\ BurnsInv' /\ MintsInv' /\ MoneyInv'
      /\ UNCHANGED <<ledger, burnEvents, arcMints, mempool, processedHashes, sent>>
      /\ \A i : Issued(i)' <=> Issued(i)
  BY <1>1, ChainsStay
<1>3. ledger \in Nat /\ DOMAIN status = {} /\ DOMAIN prepared = {}
  BY <1>1 DEF IndInv, BurnsInv, ProcessInv
<1>4. ProcessInv'
  BY <1>1, <1>2, <1>3 DEF IndInv, ProcessInv, Idle
<1>5. UnsentInv'
  <2>1. ASSUME NEW i \in DOMAIN burnEvents, burnEvents[i].ledger > ledger - 1
        PROVE  ~Issued(i)
    <3> SUFFICES ASSUME NEW hash \in mempool \cup processedHashes, hash.nonce = i - 1
                 PROVE  FALSE
      BY DEF Issued
    <3>1. hash.nonce + 1 = i
      BY BurnType DEF IndInv
    <3>2. burnEvents[i].ledger < ledger
      BY <3>1 DEF IndInv, MintsInv, PaysABurn
    <3> QED
      BY <1>3, <2>1, <3>2, BurnType DEF IndInv
  <2> QED
    BY <1>1, <1>2, <1>3, <2>1 DEF UnsentInv
<1> QED
  BY <1>1, <1>2, <1>4, <1>5, SameCompleted DEF IndInv

LEMMA CrashStep ==
  ASSUME IndInv, Crash
  PROVE  IndInv'
<1>1. /\ up' = FALSE /\ fee' = fee /\ lastLedger' = -1 /\ target' = Idle
      /\ status' = <<>> /\ prepared' = <<>> /\ waiting' = {}
      /\ UNCHANGED <<stellar, arc>>
  BY DEF Crash
<1>2. /\ BurnsInv' /\ MintsInv' /\ MoneyInv'
      /\ UNCHANGED <<ledger, burnEvents, arcMints, mempool, processedHashes, sent>>
  BY <1>1, ChainsStay
<1>3. DOMAIN status' = {} /\ DOMAIN prepared' = {} /\ prepared' \in [DOMAIN prepared' -> 0..sent]
  BY <1>1
<1>4. ProcessInv'
  <2>1. ledger \in Nat
    BY DEF IndInv, BurnsInv
  <2>2. /\ up' \in BOOLEAN /\ fee' \in Fees /\ sent' \in Nat
        /\ prepared' \in [DOMAIN prepared' -> 0..sent']
    BY <1>1, <1>2, <1>3 DEF IndInv, ProcessInv
  <2>3. lastLedger' \in Int /\ lastLedger' < ledger' /\ target' \in Int /\ target' = Idle
    BY <1>1, <1>2, <2>1 DEF Idle
  <2>4. DOMAIN status' = {} /\ DOMAIN prepared' = {} /\ waiting' = {}
    BY <1>1, <1>3
  <2> QED
    BY <2>2, <2>3, <2>4 DEF ProcessInv
<1> QED
  BY <1>1, <1>2, <1>3, <1>4 DEF IndInv, UnsentInv, CompletedInv

LEMMA PollBeginStep ==
  ASSUME IndInv, PollBegin
  PROVE  IndInv'
<1>1. /\ ledger - 1 > lastLedger /\ target' = ledger - 1
      /\ UNCHANGED <<stellar, arc, up, fee, lastLedger, processor>>
  BY DEF PollBegin, LatestLedger
<1>2. /\ BurnsInv' /\ MintsInv' /\ MoneyInv'
      /\ UNCHANGED <<ledger, burnEvents, arcMints, mempool, processedHashes, sent>>
  BY <1>1, ChainsStay
<1>3. ProcessInv'
  <2>1. ledger \in Nat
    BY DEF IndInv, BurnsInv
  <2> QED
    BY <1>1, <1>2, <2>1 DEF IndInv, ProcessInv, processor
<1> QED
  BY <1>1, <1>2, <1>3, SameUnsent, SameCompleted DEF IndInv, processor

LEMMA PollErrorStep ==
  ASSUME IndInv, PollError
  PROVE  IndInv'
<1>1. target' = Idle /\ UNCHANGED <<stellar, arc, up, fee, lastLedger, processor>>
  BY DEF PollError, AfterError
<1>2. /\ BurnsInv' /\ MintsInv' /\ MoneyInv'
      /\ UNCHANGED <<ledger, burnEvents, arcMints, mempool, processedHashes, sent>>
  BY <1>1, ChainsStay
<1>3. ProcessInv'
  BY <1>1, <1>2 DEF IndInv, ProcessInv, processor, Idle
<1> QED
  BY <1>1, <1>2, <1>3, SameUnsent, SameCompleted DEF IndInv, processor

\* A burn that is noticed was not paid before.
LEMMA PollEndStep ==
  ASSUME IndInv, PollEnd
  PROVE  IndInv'
<1>0. BurnsInv /\ MintsInv /\ ProcessInv /\ UnsentInv /\ CompletedInv /\ MoneyInv
  BY DEF IndInv
<1> DEFINE seen == {EventId(e) : e \in EventsPage}
<1>1. /\ up /\ target # Idle /\ lastLedger' = target /\ target' = Idle
      /\ status' = [id \in DOMAIN status \cup seen |->
                      IF id \in DOMAIN status THEN status[id] ELSE "processing"]
      /\ UNCHANGED <<stellar, arc, up, fee, prepared, waiting>>
  BY DEF PollEnd, TargetReached
<1>2. \A id \in seen : \E i \in DOMAIN burnEvents :
        /\ EventId(burnEvents[i]) = id
        /\ burnEvents[i].ledger \in (lastLedger + 1)..(ledger - 1)
  BY DEF EventsPage, LatestLedger
<1> HIDE DEF seen
<1>3. /\ BurnsInv' /\ MintsInv' /\ MoneyInv'
      /\ UNCHANGED <<ledger, burnEvents, arcMints, mempool, processedHashes, sent>>
      /\ \A i : Issued(i)' <=> Issued(i)
  BY <1>1, ChainsStay
<1>4. /\ ledger \in Nat /\ lastLedger \in Int /\ target \in Int /\ lastLedger < target
      /\ target < ledger
  BY <1>0, <1>1 DEF BurnsInv, ProcessInv
<1>5. /\ DOMAIN status' = DOMAIN status \cup seen
      /\ \A id \in DOMAIN status : status'[id] = status[id]
      /\ \A id \in seen \ DOMAIN status : status'[id] = "processing"
  BY <1>1
<1>6. ProcessInv'
  <2>1. \A id \in DOMAIN status' : \E i \in DOMAIN burnEvents :
          EventId(burnEvents[i]) = id /\ burnEvents[i].ledger < ledger
    <3>1. \A id \in seen : \E i \in DOMAIN burnEvents :
            EventId(burnEvents[i]) = id /\ burnEvents[i].ledger < ledger
      BY <1>2, <1>4
    <3> QED
      BY <1>0, <1>5, <3>1 DEF ProcessInv
  <2>2. \A id \in DOMAIN status' : status'[id] \in {"processing", "completed", "failed"}
    BY <1>0, <1>5 DEF ProcessInv
  <2>3. DOMAIN prepared \cup waiting \subseteq {id \in DOMAIN status' : status'[id] = "processing"}
    BY <1>0, <1>5 DEF ProcessInv
  <2> QED
    BY <1>0, <1>1, <1>3, <1>4, <2>1, <2>2, <2>3 DEF ProcessInv, Idle
<1>7. UnsentInv'
  <2> SUFFICES ASSUME NEW i \in DOMAIN burnEvents
               PROVE  LET id == EventId(burnEvents[i]) IN
                      IF id \in DOMAIN status'
                      THEN status'[id] = "processing" /\ id \notin waiting => ~Issued(i)
                      ELSE burnEvents[i].ledger > target => ~Issued(i)
    BY <1>0, <1>1, <1>3, SameNet DEF UnsentInv
  <2> DEFINE id == EventId(burnEvents[i])
  <2>1. burnEvents[i].ledger \in Nat
    BY <1>0, BurnType
  <2>2. CASE id \in DOMAIN status
    BY <1>0, <1>1, <1>5, <2>2 DEF UnsentInv
  <2>3. CASE id \notin DOMAIN status /\ id \in seen
    <3>1. PICK k \in DOMAIN burnEvents : /\ EventId(burnEvents[k]) = id
                                         /\ burnEvents[k].ledger \in (lastLedger + 1)..(ledger - 1)
      BY <1>2, <2>3
    <3>2. k = i
      BY <1>0, <3>1, DifferentNonces
    <3>3. burnEvents[i].ledger > lastLedger
      BY <1>4, <2>1, <3>1, <3>2
    <3> QED
      BY <1>0, <1>1, <1>5, <2>3, <3>3 DEF UnsentInv
  <2>4. CASE id \notin DOMAIN status'
    <3>1. burnEvents[i].ledger > target => burnEvents[i].ledger > lastLedger
      BY <1>4, <2>1
    <3> QED
      BY <1>0, <1>1, <1>5, <2>4, <3>1 DEF UnsentInv
  <2> QED
    BY <1>5, <2>2, <2>3, <2>4
<1>8. CompletedInv'
  BY <1>0, <1>3, <1>5 DEF CompletedInv
<1> QED
  BY <1>3, <1>6, <1>7, <1>8 DEF IndInv

LEMMA ForgetFacts ==
  ASSUME ProcessInv, NEW id, Forget(id)
  PROVE  /\ DOMAIN prepared' = DOMAIN prepared \ {id}
         /\ prepared' \in [DOMAIN prepared \ {id} -> 0..sent]
<1>1. prepared' = [other \in DOMAIN prepared \ {id} |-> prepared[other]]
  BY DEF Forget, RestrictDomain, Restrict
<1>2. prepared \in [DOMAIN prepared -> 0..sent]
  BY DEF ProcessInv
<1> QED
  BY <1>1, <1>2

LEMMA PrepareStep ==
  ASSUME IndInv, NEW id \in DOMAIN status, Prepare(id)
  PROVE  IndInv'
<1>1. /\ status[id] = "processing" /\ id \notin waiting /\ id \notin DOMAIN prepared
      /\ Net(BurnOf(id).amount) > 0
      /\ prepared' = [other \in DOMAIN prepared \cup {id} |->
                        IF other = id THEN sent ELSE prepared[other]]
      /\ UNCHANGED <<stellar, arc, up, fee, lastLedger, target, status, waiting>>
  BY DEF Prepare, Unsent, Encodable, watcher
<1>2. /\ BurnsInv' /\ MintsInv' /\ MoneyInv'
      /\ UNCHANGED <<ledger, burnEvents, arcMints, mempool, processedHashes, sent>>
      /\ \A i : Issued(i)' <=> Issued(i)
  BY <1>1, ChainsStay
<1>3. /\ DOMAIN prepared' = DOMAIN prepared \cup {id}
      /\ prepared' \in [DOMAIN prepared' -> 0..sent]
  <2>1. prepared \in [DOMAIN prepared -> 0..sent] /\ sent \in Nat
    BY DEF IndInv, ProcessInv
  <2> QED
    BY <1>1, <2>1
<1>4. ProcessInv'
  <2>1. DOMAIN prepared' \cap waiting = {}
    BY <1>1, <1>3 DEF IndInv, ProcessInv
  <2>2. DOMAIN prepared' \cup waiting \subseteq {other \in DOMAIN status : status[other] = "processing"}
    BY <1>1, <1>3 DEF IndInv, ProcessInv
  <2> QED
    BY <1>1, <1>2, <1>3, <2>1, <2>2 DEF IndInv, ProcessInv
<1>5. UnsentInv'
  BY <1>1, <1>2, <1>3, SameNet DEF IndInv, UnsentInv
<1> QED
  BY <1>1, <1>2, <1>4, <1>5, SameCompleted DEF IndInv

\* A transaction is given up, or its receipt arrives: one burn's status changes.
LEMMA SettleStep ==
  ASSUME IndInv, up, NEW id \in DOMAIN status, status[id] = "processing",
         NEW outcome \in {"completed", "failed"},
         status' = [status EXCEPT ![id] = outcome],
         DOMAIN prepared' = DOMAIN prepared \ {id}, prepared' \in [DOMAIN prepared' -> 0..sent],
         waiting' = waiting \ {id},
         UNCHANGED <<stellar, arc, watcher>>,
         outcome = "completed" =>
           \E j \in DOMAIN arcMints : arcMints[j].hash.hash = id[1] /\ arcMints[j].hash.nonce = id[2]
  PROVE  IndInv'
<1>1. /\ BurnsInv' /\ MintsInv' /\ MoneyInv'
      /\ UNCHANGED <<ledger, burnEvents, arcMints, mempool, processedHashes, sent>>
      /\ \A i : Issued(i)' <=> Issued(i)
  BY ChainsStay
<1>2. UNCHANGED <<up, fee, lastLedger, target>>
  BY DEF watcher
<1>3. /\ DOMAIN status' = DOMAIN status
      /\ \A other \in DOMAIN status : status'[other] = IF other = id THEN outcome ELSE status[other]
  OBVIOUS
<1>4. ProcessInv'
  <2>1. DOMAIN prepared' \cap waiting' = {}
    BY DEF IndInv, ProcessInv
  <2>2. DOMAIN prepared' \cup waiting' \subseteq {other \in DOMAIN status' : status'[other] = "processing"}
    BY <1>3 DEF IndInv, ProcessInv
  <2>3. \A other \in DOMAIN status' :
          /\ status'[other] \in {"processing", "completed", "failed"}
          /\ \E i \in DOMAIN burnEvents :
               EventId(burnEvents[i]) = other /\ burnEvents[i].ledger < ledger
    BY <1>3 DEF IndInv, ProcessInv
  <2> QED
    BY <1>1, <1>2, <1>3, <2>1, <2>2, <2>3 DEF IndInv, ProcessInv
<1>5. UnsentInv'
  <2>1. \A other \in DOMAIN prepared' : Net(BurnOf(other).amount)' > 0
    BY <1>1, <1>2, SameNet DEF IndInv, UnsentInv
  <2> SUFFICES ASSUME NEW i \in DOMAIN burnEvents
               PROVE  LET event == EventId(burnEvents[i]) IN
                      IF event \in DOMAIN status
                      THEN status'[event] = "processing" /\ event \notin waiting' => ~Issued(i)
                      ELSE burnEvents[i].ledger > lastLedger => ~Issued(i)
    BY <1>1, <1>2, <1>3, <2>1 DEF UnsentInv
  <2> QED
    BY <1>3 DEF IndInv, UnsentInv
<1>6. CompletedInv'
  BY <1>1, <1>3 DEF IndInv, CompletedInv
<1> QED
  BY <1>1, <1>4, <1>5, <1>6 DEF IndInv

LEMMA SubmitFailsStep ==
  ASSUME IndInv, NEW id \in DOMAIN status, SubmitFails(id)
  PROVE  IndInv'
<1>1. /\ up /\ status[id] = "processing" /\ id \notin waiting
      /\ status' = [status EXCEPT ![id] = "failed"]
      /\ Forget(id) /\ waiting' = waiting
      /\ UNCHANGED <<stellar, arc, watcher>>
  BY DEF SubmitFails, Unsent
<1>2. DOMAIN prepared' = DOMAIN prepared \ {id} /\ prepared' \in [DOMAIN prepared' -> 0..sent]
  BY <1>1, ForgetFacts DEF IndInv
<1>3. waiting' = waiting \ {id}
  BY <1>1
<1> QED
  BY <1>1, <1>2, <1>3, SettleStep

\* What waits for a receipt is not prepared again.
LEMMA WaitingFacts ==
  ASSUME ProcessInv, NEW id \in waiting, prepared' = prepared
  PROVE  /\ id \in DOMAIN status /\ status[id] = "processing"
         /\ DOMAIN prepared' = DOMAIN prepared \ {id} /\ prepared' \in [DOMAIN prepared' -> 0..sent]
<1>1. id \notin DOMAIN prepared /\ prepared \in [DOMAIN prepared -> 0..sent]
  BY DEF ProcessInv
<1>2. id \in DOMAIN status /\ status[id] = "processing"
  BY DEF ProcessInv
<1> QED
  BY <1>1, <1>2

LEMMA WaitFailsStep ==
  ASSUME IndInv, NEW id \in DOMAIN status, WaitFails(id)
  PROVE  IndInv'
<1>1. /\ up /\ id \in waiting /\ prepared' = prepared
      /\ status' = [status EXCEPT ![id] = "failed"] /\ waiting' = waiting \ {id}
      /\ UNCHANGED <<stellar, arc, watcher>>
  BY DEF WaitFails
<1>2. /\ status[id] = "processing"
      /\ DOMAIN prepared' = DOMAIN prepared \ {id} /\ prepared' \in [DOMAIN prepared' -> 0..sent]
  BY <1>1, WaitingFacts DEF IndInv
<1> QED
  BY <1>1, <1>2, SettleStep

LEMMA CompleteStep ==
  ASSUME IndInv, NEW id \in DOMAIN status, Complete(id)
  PROVE  IndInv'
<1>1. /\ up /\ id \in waiting /\ prepared' = prepared
      /\ MintHash(id) \in processedHashes
      /\ status' = [status EXCEPT ![id] = "completed"] /\ waiting' = waiting \ {id}
      /\ UNCHANGED <<stellar, arc, watcher>>
  BY DEF Complete, Confirmed
<1>2. /\ status[id] = "processing"
      /\ DOMAIN prepared' = DOMAIN prepared \ {id} /\ prepared' \in [DOMAIN prepared' -> 0..sent]
  BY <1>1, WaitingFacts DEF IndInv
<1>3. \E j \in DOMAIN arcMints : arcMints[j].hash.hash = id[1] /\ arcMints[j].hash.nonce = id[2]
  <2>1. PICK j \in DOMAIN arcMints : arcMints[j].hash = MintHash(id)
    BY <1>1 DEF IndInv, MintsInv
  <2>2. PICK i \in DOMAIN burnEvents : EventId(burnEvents[i]) = id
    BY DEF IndInv, ProcessInv
  <2>3. BurnOf(id) = burnEvents[i]
    BY <2>2, BurnOfId DEF IndInv
  <2>4. MintHash(id).hash = id[1] /\ MintHash(id).nonce = id[2]
    BY <2>2, <2>3 DEF MintHash, EventId
  <2> QED
    BY <2>1, <2>4
<1> QED
  BY <1>1, <1>2, <1>3, SettleStep

\* The mint that is sent pays for a burn that no other mint pays for.
LEMMA SendStep ==
  ASSUME IndInv, NEW id \in DOMAIN status, Send(id)
  PROVE  IndInv'
<1>0. BurnsInv /\ MintsInv /\ ProcessInv /\ UnsentInv /\ CompletedInv /\ MoneyInv
  BY DEF IndInv
<1> DEFINE hash == MintHash(id)
<1>1. /\ up /\ id \in DOMAIN prepared /\ sent' = sent + 1
      /\ mempool' = mempool \cup {hash} /\ Forget(id) /\ waiting' = waiting \cup {id}
      /\ UNCHANGED <<stellar, arcBooks, reverted, watcher, status>>
  BY DEF Send
<1>2. UNCHANGED <<ledger, nextNonce, burnEvents, circulating, arcWindow, processedHashes, arcMints,
                  balance, up, fee, lastLedger, target>>
  BY <1>1 DEF stellar, arcBooks, watcher
<1>3. PICK i \in DOMAIN burnEvents : EventId(burnEvents[i]) = id /\ burnEvents[i].ledger < ledger
  BY <1>0 DEF ProcessInv
<1>4. BurnOf(id) = burnEvents[i]
  BY <1>0, <1>3, BurnOfId
<1>5. status[id] = "processing" /\ id \notin waiting
  BY <1>0, <1>1 DEF ProcessInv
<1>6. ~Issued(i)
  BY <1>0, <1>1, <1>3, <1>5 DEF UnsentInv
<1>7. /\ i \in Nat \ {0} /\ i <= MaxBurns /\ MaxBurns \in Nat
      /\ burnEvents[i].nonce = i - 1 /\ burnEvents[i].tx \in 1..MaxBurns
      /\ burnEvents[i].amount \in Nat \ {0}
  <2>1. i \in 1..Len(burnEvents) /\ Len(burnEvents) \in Nat /\ Len(burnEvents) <= MaxBurns
    BY <1>0, BurnType DEF BurnsInv
  <2> QED
    BY <1>0, <2>1, BurnType, RelayerAssumption
<1>8. /\ hash.nonce = i - 1 /\ hash.hash = burnEvents[i].tx
      /\ hash.amount = Net(burnEvents[i].amount)
      /\ hash = [chain |-> "stellar", hash |-> hash.hash, nonce |-> hash.nonce,
                 amount |-> hash.amount, to |-> Relayer]
  BY <1>4, <1>7 DEF MintHash
<1>9. Net(burnEvents[i].amount) \in 1..burnEvents[i].amount
  <2>1. Net(burnEvents[i].amount) > 0
    BY <1>0, <1>1, <1>4 DEF UnsentInv
  <2>2. Net(burnEvents[i].amount) \in Int /\ Net(burnEvents[i].amount) <= burnEvents[i].amount
    BY <1>0, <1>7, NetType DEF ProcessInv
  <2> QED
    BY <1>7, <2>1, <2>2
<1> HIDE DEF hash
<1>10. hash \in MintHashes /\ PaysABurn(hash)
  <2>1. hash.nonce \in 0..MaxBurns /\ hash.hash \in 1..MaxBurns /\ hash.amount \in Nat
    BY <1>7, <1>8, <1>9
  <2>2. hash \in MintHashes
    BY <1>8, <2>1 DEF MintHashes
  <2>3. hash.nonce + 1 = i
    BY <1>7, <1>8
  <2> QED
    BY <1>3, <1>8, <1>9, <2>2, <2>3 DEF PaysABurn
<1>11. \A h \in mempool \cup processedHashes : h.nonce # hash.nonce
  BY <1>6, <1>8 DEF Issued
<1>12. MintsInv'
  <2>1. mempool' \subseteq MintHashes /\ reverted' \subseteq MintHashes
    BY <1>0, <1>1, <1>10 DEF MintsInv
  <2>2. \A h \in mempool' \cup processedHashes : PaysABurn(h)'
    BY <1>0, <1>1, <1>2, <1>10 DEF MintsInv, PaysABurn
  <2>3. \A g, h \in mempool' : g.nonce = h.nonce => g = h
    BY <1>0, <1>1, <1>11 DEF MintsInv
  <2>4. \A h \in mempool', j \in DOMAIN arcMints : h.nonce # arcMints[j].hash.nonce
    BY <1>0, <1>1, <1>11, MintType DEF MintsInv
  <2> QED
    BY <1>0, <1>2, <2>1, <2>2, <2>3, <2>4 DEF MintsInv
<1>13. DOMAIN prepared' = DOMAIN prepared \ {id} /\ prepared' \in [DOMAIN prepared' -> 0..sent]
  BY <1>0, <1>1, ForgetFacts
<1>14. ProcessInv'
  <2>1. sent' \in Nat /\ prepared' \in [DOMAIN prepared' -> 0..sent']
    <3>1. sent \in Nat /\ \A n \in 0..sent : n \in 0..(sent + 1)
      BY <1>0 DEF ProcessInv
    <3> QED
      BY <1>1, <1>13, <3>1
  <2>2. DOMAIN prepared' \cap waiting' = {}
    BY <1>0, <1>1, <1>13 DEF ProcessInv
  <2>3. DOMAIN prepared' \cup waiting' \subseteq {other \in DOMAIN status : status[other] = "processing"}
    BY <1>0, <1>1, <1>5, <1>13 DEF ProcessInv
  <2> QED
    BY <1>0, <1>1, <1>2, <2>1, <2>2, <2>3 DEF ProcessInv
<1>15. UnsentInv'
  <2>1. \A other \in DOMAIN prepared' : Net(BurnOf(other).amount)' > 0
    BY <1>0, <1>2, <1>13, SameNet DEF UnsentInv
  <2> SUFFICES ASSUME NEW k \in DOMAIN burnEvents
               PROVE  LET event == EventId(burnEvents[k]) IN
                      IF event \in DOMAIN status
                      THEN status[event] = "processing" /\ event \notin waiting' => ~Issued(k)'
                      ELSE burnEvents[k].ledger > lastLedger => ~Issued(k)'
    BY <1>1, <1>2, <2>1 DEF UnsentInv
  <2>2. CASE k = i
    BY <1>1, <1>3, <2>2
  <2>3. CASE k # i
    <3>1. hash.nonce # k - 1
      BY <1>0, <1>7, <1>8, <2>3, BurnType
    <3>2. Issued(k)' <=> Issued(k)
      BY <1>1, <1>2, <3>1 DEF Issued
    <3> QED
      BY <1>0, <1>1, <3>2 DEF UnsentInv
  <2> QED
    BY <2>2, <2>3
<1>16. BurnsInv' /\ MoneyInv' /\ CompletedInv'
  BY <1>0, <1>1, <1>2, SameBurns, SameMoney, SameCompleted
<1> QED
  BY <1>12, <1>14, <1>15, <1>16 DEF IndInv

LEMMA NextInv == IndInv /\ [Next]_vars => IndInv'
<1> SUFFICES ASSUME IndInv, [Next]_vars PROVE IndInv'
  OBVIOUS
<1>1. CASE UNCHANGED vars
  <2>1. UNCHANGED <<ledger, nextNonce, burnEvents, circulating, arcWindow, processedHashes, arcMints,
                    balance, mempool, reverted, sent, up, fee, lastLedger, watcher, processor, status>>
    BY <1>1 DEF vars, stellar, arc, arcBooks, mint, watcher, processor
  <2> QED
    BY <2>1, SameBurns, SameMints, SameProcess, SameMoney, SameCompleted, SameUnsent DEF IndInv
<1>2. CASE StellarNext
  BY <1>2, BurnStep, LedgerStep DEF StellarNext
<1>3. CASE ArcNext
  BY <1>3, ArcBurnStep, ExecuteStep, RevertStep DEF ArcNext
<1>4. CASE WatcherNext
  BY <1>4, StartStep, CrashStep, PollBeginStep, PollErrorStep, PollEndStep DEF WatcherNext
<1>5. CASE ProcessorNext
  BY <1>5, PrepareStep, SendStep, SubmitFailsStep, CompleteStep, WaitFailsStep DEF ProcessorNext
<1> QED
  BY <1>1, <1>2, <1>3, <1>4, <1>5 DEF Next

LEMMA Invariant == Spec => []IndInv
  BY InitInv, NextInv, PTL DEF Spec

-----------------------------------------------------------------------------
(* What the runs check.                                                     *)

LEMMA TypesFollow ==
  ASSUME IndInv
  PROVE  TypeOK
<1>0. BurnsInv /\ MintsInv /\ ProcessInv
  BY DEF IndInv
<1>1. processedHashes \subseteq MintHashes
  BY <1>0, MintType
<1>2. DOMAIN status \subseteq EventIds
  <2> SUFFICES ASSUME NEW id \in DOMAIN status PROVE id \in EventIds
    OBVIOUS
  <2>1. PICK i \in DOMAIN burnEvents : EventId(burnEvents[i]) = id
    BY <1>0 DEF ProcessInv
  <2> QED
    BY <1>0, <2>1, BurnType
<1>3. Range(status) \subseteq {"processing", "completed", "failed"}
  BY <1>0 DEF ProcessInv, Range
<1> QED
  BY <1>0, <1>1, <1>2, <1>3 DEF TypeOK, BurnsInv, MintsInv, ProcessInv

\* The Arc contract adds up as this module does.
LEMMA ArcSums ==
  ASSUME NEW f, NEW S
  PROVE  Arc!SumOver(f, S) = SumOver(f, S)
BY DEF SumOver, MapThenSumSet, MapThenFoldSet, Arc!SumOver, Arc!MapThenSumSet, Arc!MapThenFoldSet

\* The relayer alone holds PUSD on Arc.
LEMMA SupplyHeld ==
  ASSUME MoneyInv
  PROVE  Arc!totalSupply = balance[Relayer]
<1>1. DOMAIN balance = {} \cup {Relayer} /\ balance[Relayer] \in Nat
  BY DEF MoneyInv
<1>2. SumOver(balance, {} \cup {Relayer}) = balance[Relayer] + SumOver(balance, {})
  <2>1. \A x \in {} \cup {Relayer} : balance[x] \in Int
    BY <1>1
  <2> QED
    BY <2>1, FS_EmptySet, SumAdd
<1>3. SumOver(balance, {}) = 0
  BY SumEmpty
<1>4. Arc!totalSupply = SumOver(balance, DOMAIN balance)
  BY ArcSums DEF Arc!totalSupply, Arc!Total
<1> QED
  BY <1>1, <1>2, <1>3, <1>4

LEMMA NothingFromNothing ==
  ASSUME BurnsInv, MoneyInv
  PROVE  NoInflation
<1>1. SumOver(AmountBurned, Unpaid) \in Nat
  <2>1. IsFiniteSet(Unpaid)
    BY UnpaidSums DEF Unpaid
  <2>2. \A i \in Unpaid : AmountBurned[i] \in Nat
    BY BurnType DEF Unpaid, AmountBurned
  <2> QED
    BY <2>1, <2>2, SumNat
<1>2. /\ circulating \in Nat /\ balance[Relayer] \in Nat /\ Funds \in Nat
      /\ circulating + balance[Relayer] + SumOver(AmountBurned, Unpaid) <= Funds
  BY RelayerAssumption DEF MoneyInv
<1> QED
  BY <1>1, <1>2, SupplyHeld DEF NoInflation

LEMMA CompletedFollows ==
  ASSUME CompletedInv
  PROVE  CompletedWasMinted
<1> SUFFICES ASSUME NEW i \in DOMAIN burnEvents, EventId(burnEvents[i]) \in DOMAIN status,
                    status[EventId(burnEvents[i])] = "completed"
             PROVE  PaidFor(burnEvents[i]) # {}
  BY DEF CompletedWasMinted
<1>1. PICK j \in DOMAIN arcMints : /\ arcMints[j].hash.hash = EventId(burnEvents[i])[1]
                                   /\ arcMints[j].hash.nonce = EventId(burnEvents[i])[2]
  BY DEF CompletedInv
<1> QED
  BY <1>1 DEF PaidFor, EventId

\* The relayer's position, its table of events and its transactions keep their
\* types; holders of the two chains never own more PUSD than there was when the
\* bridge opened; and an event that EventProcessor reports completed was minted
\* on Arc: for any fees, any number of burns, and any crashes, restarts, failed
\* submissions, reverted transactions and transactions given up too early.
THEOREM RelayerTellsTruth == Spec => []RelayerInv
<1>1. IndInv => RelayerInv
  BY TypesFollow, NothingFromNothing, CompletedFollows DEF IndInv, RelayerInv
<1> QED
  BY <1>1, Invariant, PTL

-----------------------------------------------------------------------------
(* The relayer with its two chains implements PusdTransfer.                 *)

PaidSoFar == [i \in DOMAIN burnEvents |-> SumOver(Arc!AmountMinted, PaidFor(burnEvents[i]))]

\* A mint names its burn by the nonce alone.
LEMMA PaidByNonce ==
  ASSUME BurnsInv, MintsInv, NEW i \in DOMAIN burnEvents
  PROVE  PaidFor(burnEvents[i]) = {j \in DOMAIN arcMints : arcMints[j].hash.nonce = i - 1}
<1>1. i \in Int /\ burnEvents[i].nonce = i - 1
  BY BurnType
<1> SUFFICES ASSUME NEW j \in DOMAIN arcMints, arcMints[j].hash.nonce = i - 1
             PROVE  arcMints[j].hash.hash = burnEvents[i].tx
  BY <1>1 DEF PaidFor
<1>2. PaysABurn(arcMints[j].hash)
  BY MintType DEF MintsInv
<1> QED
  BY <1>1, <1>2 DEF PaysABurn

\* What is paid for a burn is the amount of one mint, or nothing.
LEMMA PaidAmounts ==
  ASSUME BurnsInv, MintsInv, NEW i \in DOMAIN burnEvents
  PROVE  /\ IsFiniteSet(PaidFor(burnEvents[i]))
         /\ \A j \in PaidFor(burnEvents[i]) : Arc!AmountMinted[j] \in Nat
         /\ PaidSoFar[i] \in Nat
<1>1. PaidFor(burnEvents[i]) \subseteq DOMAIN arcMints
  BY DEF PaidFor
<1>2. IsFiniteSet(DOMAIN arcMints)
  <2>1. DOMAIN arcMints = 1..Len(arcMints) /\ Len(arcMints) \in Nat
    BY DEF MintsInv
  <2> QED
    BY <2>1, FS_Interval
<1>3. \A j \in DOMAIN arcMints : Arc!AmountMinted[j] \in Nat
  BY MintType DEF Arc!AmountMinted
<1>4. IsFiniteSet(PaidFor(burnEvents[i])) /\ \A j \in PaidFor(burnEvents[i]) : Arc!AmountMinted[j] \in Nat
  BY <1>1, <1>2, <1>3, FS_Subset
<1>5. PaidSoFar[i] = SumOver(Arc!AmountMinted, PaidFor(burnEvents[i]))
  BY DEF PaidSoFar
<1> QED
  BY <1>4, <1>5, SumNat

\* Nothing is paid for a burn while its nonce is in no mint.
LEMMA UnpaidIsZero ==
  ASSUME NEW i \in DOMAIN burnEvents, PaidFor(burnEvents[i]) = {}
  PROVE  PaidSoFar[i] = 0
BY SumEmpty DEF PaidSoFar

LEMMA StartMaps == Init => Transfer!Init
<1> SUFFICES ASSUME Init PROVE Transfer!Init
  OBVIOUS
<1>1. DOMAIN burnEvents = {}
  BY DEF Init
<1>2. AmountBurned = <<>> /\ PaidSoFar = <<>>
  BY <1>1 DEF AmountBurned, PaidSoFar
<1> QED
  BY <1>2 DEF Transfer!Init, AmountBurned, PaidSoFar

\* burn_pusd adds a burn that nothing is paid for.
LEMMA BurnMaps ==
  ASSUME IndInv, IndInv', NEW amount \in Amounts, NEW dest \in Chains \ {"stellar"},
         NEW tx \in St!BurnTransactions, StellarBurn(amount, dest, tx)
  PROVE  Transfer!Burn(amount)
<1>0. BurnsInv /\ MintsInv /\ BurnsInv' /\ MintsInv'
  BY DEF IndInv
<1>n. PICK n : n = Len(burnEvents) + 1
  OBVIOUS
<1>1. PICK event : burnEvents' = Append(burnEvents, event) /\ event.amount = amount
  BY DEF StellarBurn, St!BurnPusd
<1>2. /\ Len(burnEvents) < MaxBurns /\ arcMints' = arcMints
  BY DEF StellarBurn, St!BurnPusd, arc, arcBooks
<1>3. /\ Len(burnEvents) \in Nat /\ n \in Nat \ {0} /\ DOMAIN burnEvents = 1..(n - 1)
      /\ DOMAIN burnEvents' = 1..n /\ burnEvents'[n] = event
      /\ \A i \in 1..(n - 1) : burnEvents'[i] = burnEvents[i]
  BY <1>0, <1>n, <1>1 DEF BurnsInv
<1>4. Arc!AmountMinted' = Arc!AmountMinted
  BY <1>2 DEF Arc!AmountMinted
<1>5. \A i \in 1..n : PaidFor(burnEvents[i])' = {j \in DOMAIN arcMints : arcMints[j].hash.nonce = i - 1}
  <2> SUFFICES ASSUME NEW i \in 1..n
               PROVE  PaidFor(burnEvents[i])' = {j \in DOMAIN arcMints : arcMints[j].hash.nonce = i - 1}
    OBVIOUS
  <2>1. burnEvents'[i].nonce = i - 1 /\ i \in Int
    <3>1. \A k \in DOMAIN burnEvents' : burnEvents'[k].nonce = k - 1
      BY <1>0 DEF BurnsInv
    <3> QED
      BY <1>3, <3>1
  <2>2. \A j \in DOMAIN arcMints : arcMints[j].hash.nonce = i - 1 => arcMints[j].hash.hash = burnEvents'[i].tx
    BY <1>0, <1>2, <2>1, MintType DEF MintsInv, PaysABurn
  <2> QED
    BY <1>2, <2>1, <2>2 DEF PaidFor
<1>6. PaidSoFar' = Append(PaidSoFar, 0)
  <2>1. PICK p : p = PaidSoFar
    OBVIOUS
  <2>2. p \in Seq(Nat) /\ Len(p) = n - 1
    BY <1>0, <1>3, <2>1, PaidAmounts DEF PaidSoFar
  <2>3. \A i \in 1..(n - 1) : PaidSoFar'[i] = p[i]
    <3> SUFFICES ASSUME NEW i \in 1..(n - 1) PROVE PaidSoFar'[i] = p[i]
      OBVIOUS
    <3>1. i \in 1..n /\ i \in DOMAIN burnEvents
      BY <1>3
    <3>2. PaidFor(burnEvents[i])' = PaidFor(burnEvents[i])
      BY <1>0, <1>5, <3>1, PaidByNonce
    <3>3. PaidSoFar'[i] = SumOver(Arc!AmountMinted, PaidFor(burnEvents[i])')
      BY <1>3, <1>4, <3>1 DEF PaidSoFar
    <3> QED
      BY <2>1, <3>1, <3>2, <3>3 DEF PaidSoFar
  <2>4. PaidSoFar'[n] = 0
    <3>1. {j \in DOMAIN arcMints : arcMints[j].hash.nonce = n - 1} = {}
      <4> SUFFICES ASSUME NEW j \in DOMAIN arcMints, arcMints[j].hash.nonce = n - 1 PROVE FALSE
        OBVIOUS
      <4>1. arcMints[j].hash.nonce + 1 \in 1..(n - 1)
        BY <1>0, <1>3, MintType DEF MintsInv, PaysABurn
      <4> QED
        BY <1>3, <4>1
    <3>2. PaidSoFar'[n] = SumOver(Arc!AmountMinted, PaidFor(burnEvents[n])')
      BY <1>3, <1>4 DEF PaidSoFar
    <3>3. PaidFor(burnEvents[n])' = {}
      BY <1>3, <1>5, <3>1
    <3> QED
      BY <3>2, <3>3, SumEmpty
  <2>5. PICK q : q = PaidSoFar'
    OBVIOUS
  <2>6. q = [i \in 1..n |-> q[i]]
    BY <1>3, <2>5 DEF PaidSoFar
  <2>7. q = Append(p, 0)
    <3>1. PICK a : a = Append(p, 0)
      OBVIOUS
    <3>2. /\ a \in Seq(Nat) /\ Len(a) = n /\ a[n] = 0
          /\ \A i \in 1..(n - 1) : a[i] = p[i]
      BY <1>3, <2>2, <3>1
    <3>3. \A i \in 1..n : q[i] = a[i]
      BY <1>3, <2>3, <2>4, <2>5, <3>2
    <3>4. a = [i \in 1..n |-> a[i]]
      BY <3>2
    <3> QED
      BY <2>6, <3>1, <3>3, <3>4
  <2> QED
    BY <2>1, <2>5, <2>7
<1>7. AmountBurned' = Append(AmountBurned, amount)
  <2>1. PICK b : b = AmountBurned
    OBVIOUS
  <2>2. b \in Seq(Amounts) /\ Len(b) = n - 1 /\ \A i \in 1..(n - 1) : b[i] = burnEvents[i].amount
    BY <1>0, <1>3, <2>1, BurnType DEF AmountBurned
  <2> QED
    BY <1>1, <1>3, <2>1, <2>2 DEF AmountBurned
<1>8. Len(AmountBurned) < MaxBurns
  BY <1>n, <1>2, <1>3 DEF AmountBurned
<1> QED
  BY <1>6, <1>7, <1>8 DEF Transfer!Burn, AmountBurned, PaidSoFar

\* mintPusd pays the burn that its hash names, once and within its amount.
LEMMA ExecuteMaps ==
  ASSUME IndInv, IndInv', NEW hash \in mempool, ArcExecute(hash)
  PROVE  Transfer!Next
<1>0. BurnsInv /\ MintsInv /\ BurnsInv' /\ MintsInv'
  BY DEF IndInv
<1>n. PICK n : n = Len(arcMints) + 1
  OBVIOUS
<1> DEFINE record == [hash |-> hash, signatures |-> <<Relayer>>, window |-> 0]
<1>1. PICK m : arcMints' = Append(arcMints, m) /\ m.hash = hash
  <2>1. arcMints' = Append(arcMints, record) /\ record.hash = hash
    BY <1>0, ExecuteFacts
  <2> QED
    BY <2>1
<1> HIDE DEF record
<1>2. burnEvents' = burnEvents
  BY <1>0, ExecuteFacts DEF stellar
<1>3. /\ DOMAIN arcMints' = DOMAIN arcMints \cup {n} /\ n \notin DOMAIN arcMints
      /\ arcMints'[n] = m /\ \A j \in DOMAIN arcMints : arcMints'[j] = arcMints[j]
  BY <1>0, <1>n, <1>1 DEF MintsInv
<1>4. PICK i : /\ i = hash.nonce + 1 /\ i \in DOMAIN burnEvents /\ hash.nonce = i - 1
               /\ hash.amount \in 1..burnEvents[i].amount
  <2>1. PaysABurn(hash) /\ hash.nonce \in Nat
    BY <1>0, MintType DEF MintsInv
  <2> QED
    BY <2>1 DEF PaysABurn
<1>5. \A j \in DOMAIN arcMints : arcMints[j].hash.nonce # hash.nonce
  BY <1>0 DEF MintsInv
<1>6. \A k \in DOMAIN burnEvents :
        PaidFor(burnEvents[k])' = IF k = i THEN {n} ELSE PaidFor(burnEvents[k])
  <2> SUFFICES ASSUME NEW k \in DOMAIN burnEvents
               PROVE  PaidFor(burnEvents[k])' = IF k = i THEN {n} ELSE PaidFor(burnEvents[k])
    OBVIOUS
  <2>1. PaidFor(burnEvents[k]) = {j \in DOMAIN arcMints : arcMints[j].hash.nonce = k - 1}
    BY <1>0, PaidByNonce
  <2>2. burnEvents[k].nonce = k - 1 /\ k \in Int /\ i \in Int /\ hash.hash = burnEvents[i].tx
    BY <1>0, <1>4, BurnType DEF MintsInv, PaysABurn
  <2>3. PaidFor(burnEvents[k])' =
          {j \in DOMAIN arcMints' : /\ arcMints'[j].hash.hash = burnEvents[k].tx
                                    /\ arcMints'[j].hash.nonce = burnEvents[k].nonce}
    BY <1>2 DEF PaidFor
  <2>4. CASE k = i
    <3>1. \A j \in DOMAIN arcMints : arcMints'[j].hash.nonce # burnEvents[k].nonce
      BY <1>3, <1>4, <1>5, <2>2, <2>4
    <3>2. arcMints'[n].hash.nonce = burnEvents[k].nonce /\ arcMints'[n].hash.hash = burnEvents[k].tx
      BY <1>1, <1>3, <1>4, <2>2, <2>4
    <3> QED
      BY <1>3, <2>3, <2>4, <3>1, <3>2
  <2>5. CASE k # i
    <3>1. hash.nonce # burnEvents[k].nonce
      BY <1>4, <2>2, <2>5
    <3> QED
      BY <1>1, <1>3, <2>3, <2>5, <3>1 DEF PaidFor
  <2> QED
    BY <2>4, <2>5
<1>7. PICK f, g : f = Arc!AmountMinted /\ g = Arc!AmountMinted'
  OBVIOUS
<1>8. g[n] = hash.amount /\ \A j \in DOMAIN arcMints : g[j] = f[j]
  BY <1>1, <1>3, <1>7 DEF Arc!AmountMinted
<1>9. PaidSoFar[i] = 0
  <2>1. PaidFor(burnEvents[i]) = {}
    BY <1>0, <1>4, <1>5, PaidByNonce
  <2> QED
    BY <1>4, <2>1, UnpaidIsZero
<1>10. PaidSoFar'[i] = hash.amount
  <2>1. PaidSoFar'[i] = SumOver(g, {n})
    BY <1>2, <1>4, <1>6, <1>7 DEF PaidSoFar
  <2>2. SumOver(g, {} \cup {n}) = g[n] + SumOver(g, {})
    <3>1. hash.amount \in Int
      BY <1>4
    <3>2. \A j \in {} \cup {n} : g[j] \in Int
      BY <1>8, <3>1
    <3> QED
      BY <3>2, FS_EmptySet, SumAdd
  <2>3. SumOver(g, {}) = 0
    BY SumEmpty
  <2>4. {} \cup {n} = {n} /\ hash.amount \in Int
    BY <1>4
  <2> QED
    BY <1>8, <2>1, <2>2, <2>3, <2>4
<1>11. \A k \in DOMAIN burnEvents : k # i => PaidSoFar'[k] = PaidSoFar[k]
  <2> SUFFICES ASSUME NEW k \in DOMAIN burnEvents, k # i PROVE PaidSoFar'[k] = PaidSoFar[k]
    OBVIOUS
  <2>1. PICK S : S = PaidFor(burnEvents[k])
    OBVIOUS
  <2>2. PaidSoFar'[k] = SumOver(g, S) /\ PaidSoFar[k] = SumOver(f, S)
    BY <1>2, <1>6, <1>7, <2>1 DEF PaidSoFar
  <2>3. IsFiniteSet(S) /\ \A j \in S : g[j] = f[j]
    BY <1>0, <1>8, <2>1, PaidAmounts DEF PaidFor
  <2>4. SumOver(g, S) = SumOver(f, S)
    BY <2>3, SumSame
  <2> QED
    BY <2>2, <2>4
<1>12. PaidSoFar' = [PaidSoFar EXCEPT ![i] = hash.amount]
  <2>1. DOMAIN PaidSoFar' = DOMAIN burnEvents /\ DOMAIN PaidSoFar = DOMAIN burnEvents
    BY <1>2 DEF PaidSoFar
  <2> QED
    BY <1>4, <1>10, <1>11, <2>1 DEF PaidSoFar
<1>13. AmountBurned' = AmountBurned
  BY <1>2 DEF AmountBurned
<1>14. Transfer!Pay(i, hash.amount)
  BY <1>9, <1>12, <1>13 DEF Transfer!Pay, AmountBurned, PaidSoFar
<1>15. i \in DOMAIN AmountBurned /\ hash.amount \in 1..AmountBurned[i]
  BY <1>4 DEF AmountBurned
<1> QED
  BY <1>14, <1>15 DEF Transfer!Next, AmountBurned

\* All other steps leave burns and mints as they are.
LEMMA OthersStutter ==
  ASSUME UNCHANGED <<burnEvents, arcMints>>
  PROVE  UNCHANGED Transfer!vars
<1>1. AmountBurned' = AmountBurned
  BY DEF AmountBurned
<1>2. PaidSoFar' = PaidSoFar
  BY DEF PaidSoFar, PaidFor, Arc!AmountMinted
<1> QED
  BY <1>1, <1>2 DEF Transfer!vars, AmountBurned, PaidSoFar

LEMMA StepMaps ==
  ASSUME IndInv, IndInv', [Next]_vars
  PROVE  [Transfer!Next]_Transfer!vars
<1>1. CASE UNCHANGED vars
  BY <1>1, OthersStutter DEF vars, stellar, arc, arcBooks
<1>2. CASE StellarNext
  <2>1. ASSUME NEW amount \in Amounts, NEW dest \in Chains \ {"stellar"},
               NEW tx \in St!BurnTransactions, StellarBurn(amount, dest, tx)
        PROVE  Transfer!Next
    BY <2>1, BurnMaps DEF Transfer!Next
  <2>2. CASE StellarLedger
    <3>1. UNCHANGED <<burnEvents, arcMints>>
      BY <2>2 DEF StellarLedger, St!CloseLedger, St!burnState, arc, arcBooks
    <3> QED
      BY <3>1, OthersStutter
  <2> QED
    BY <1>2, <2>1, <2>2 DEF StellarNext
<1>3. CASE ArcNext
  <2>1. ASSUME NEW amount \in Amounts, ArcBurn(amount)
        PROVE  UNCHANGED <<burnEvents, arcMints>>
    BY <2>1 DEF ArcBurn, Arc!BurnPusd, Arc!mintState, stellar
  <2>2. ASSUME NEW hash \in mempool, ArcRevert(hash)
        PROVE  UNCHANGED <<burnEvents, arcMints>>
    BY <2>2 DEF ArcRevert, stellar, arcBooks
  <2> QED
    BY <1>3, <2>1, <2>2, OthersStutter, ExecuteMaps DEF ArcNext
<1>4. CASE WatcherNext
  <2>1. UNCHANGED <<burnEvents, arcMints>>
    BY <1>4 DEF WatcherNext, Start, Crash, PollBegin, PollError, PollEnd, stellar, arc, arcBooks
  <2> QED
    BY <2>1, OthersStutter
<1>5. CASE ProcessorNext
  <2>1. UNCHANGED <<burnEvents, arcMints>>
    BY <1>5 DEF ProcessorNext, Prepare, Send, SubmitFails, Complete, WaitFails, stellar, arc, arcBooks
  <2> QED
    BY <2>1, OthersStutter
<1> QED
  BY <1>1, <1>2, <1>3, <1>4, <1>5 DEF Next

\* StellarWatcher, EventProcessor and the two contracts together keep what the
\* bridge promises its holders (PusdTransfer): a burn on Stellar is paid out on
\* Arc at most once and never beyond its amount, and what was paid stays paid,
\* also when the process dies between sending a mint and seeing it executed.
THEOREM RelayerImplementsTransfer == Spec => ImplementsTransfer
<1>1. IndInv /\ IndInv' /\ [Next]_vars => [Transfer!Next]_Transfer!vars
  BY StepMaps
<1> QED
  BY <1>1, StartMaps, Invariant, PTL DEF Spec, ImplementsTransfer, Transfer!Spec
=============================================================================
