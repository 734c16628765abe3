---------------------------- MODULE EventIndexer ----------------------------
(***************************************************************************)
(* The event indexer: the loop of ingestion and the dispatcher of webhooks *)
(* in one process, over one database.  Ingestion writes the rows of events *)
(* and, for each new one, the deliveries that the dispatcher then posts; a *)
(* crash takes both down, and both start again.                            *)
(***************************************************************************)
EXTENDS EventIngest, WebhookOutbox

\* The events of the outbox are those that ingestion reads: how its constant is to
\* be chosen here.
EventsOfContracts == Events = {i \in Items : i[1] # Horizon}

indexerVars == <<ingestVars, outboxVars>>

IndexerInit == IngestInit /\ OutboxInit

\* The chain goes on whether or not the process runs.
ChainMoves ==
  /\ \E count \in [1 .. Contracts -> 0 .. PerLedger] : CloseLedger(count)
  /\ UNCHANGED outboxVars

\* A step of ingestion, or of the operator, that announces nothing.
IngestStep ==
  /\ up
  /\ \/ PollStart \/ GotHead \/ GotNoPage
     \/ GotHorizonHead \/ (\E h \in Ledgers : GotLedgers(h)) \/ GotLedger
     \/ Fail
     \/ \E s \in Streams, l \in 0 .. head : ResetStream(s, l)
  /\ UNCHANGED outboxVars

\* What the events of a page do to the outbox.
EnqueuedNew(page) ==
  IF Announced(page) = {} THEN UNCHANGED outboxVars ELSE Enqueue(Announced(page))

\* A page of a contract is written and its new events are enqueued.
PageStep(last) ==
  /\ up
  /\ GotPage(last)
  /\ EnqueuedNew(PageOf(poll.contract, poll.from))

\* A step of the dispatcher or of the API.
OutboxStep ==
  /\ \/ \E s \in Subscriptions, active \in BOOLEAN : CreateSubscription(s, active)
     \/ \E s \in Subscriptions : DeleteSubscription(s)
     \/ \E r \in Rounds : Dispatch(r) \/ \E ok \in BOOLEAN : Answer(r, ok)
     \/ Tick
     \/ Restart
  /\ UNCHANGED ingestVars

\* The process dies: in an await, between a ledger and its checkpoint, or within
\* a page, of which the events dealt with so far are enqueued.
Dies ==
  \/ (IngestCrash \/ CrashInLedger) /\ OutboxCrash({})
  \/ \E n \in 1 .. PageSize, announced \in BOOLEAN :
       CrashInPage(n, announced) /\ OutboxCrash(Announced(Done(n, announced)))

IndexerNext ==
  ChainMoves \/ IngestStep \/ (\E last \in BOOLEAN : PageStep(last)) \/ OutboxStep \/ Dies

IndexerSpec == IndexerInit /\ [][IndexerNext]_indexerVars

-----------------------------------------------------------------------------
(* Properties.                                                             *)

\* A subscriber never hears of an event that the indexer cannot show, and an event
\* is enqueued exactly if it was announced: without a crash, exactly if its row is
\* there.  Replays and the order of pages, resets and deliveries do not matter.
DeliveriesMatchRows ==
  /\ recorded = {i \in Events : notices[i] = 1}
  /\ \A d \in Deliveries : delivery[d].status # "absent" => d[2] \in recorded
  /\ recorded \subseteq stored
  /\ crashes = 0 => stored \intersect Events = recorded

\* Whichever event gets a row, and whatever else its page repeats, each active
\* subscription that it matches gets a delivery in the same step, unless the
\* process dies in it (pollContractEvents, enqueue).
NewEventsAreEnqueued ==
  [][\A d \in Matching :
       d[2] \in stored' \ stored /\ subscription[d[1]] = "active" /\ up'
         => delivery'[d].status = "pending"]_indexerVars
=============================================================================
