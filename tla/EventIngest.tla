----------------------------- MODULE EventIngest -----------------------------
(***************************************************************************)
(* The ingestion loop of the event indexer: the contract events that it    *)
(* pages out of the Soroban RPC, the ledgers that it reads from Horizon,   *)
(* the checkpoint of each stream, and an operator who resets checkpoints   *)
(* through the admin API while the loop runs.                              *)
(*                                                                         *)
(* Streams are numbers: 0 is Horizon, and contract 1 .. Contracts in the   *)
(* order of the configuration.  An item <<s, l, n>> is the n-th event of   *)
(* contract s in ledger l, or ledger l itself with its transactions and    *)
(* operations when s is Horizon.  The tables and the checkpoints are rows  *)
(* of SQLite; the poll is in memory and lost in a crash.  A step runs up   *)
(* to the next await, and a crash may cut it between two commits.          *)
(***************************************************************************)
EXTENDS IndexerProcess, FiniteSets, FiniteSetsExt

CONSTANTS
  Contracts,         \* number of contracts, config.contracts
  PageSize,          \* events that getEvents returns at most
  MaxPages,          \* pages of a contract in one poll
  EventBootstrap,    \* config.eventBootstrapLedgers
  HorizonBootstrap,  \* config.horizonBootstrapLedgers
  MaxLedgersPerPoll, \* config.maxLedgersPerPoll
  PerLedger,         \* bound on the events of a contract in one ledger
  MaxLedger,         \* bound on the ledger sequence
  MaxResets          \* bound on the number of resets

ASSUME IngestAssumption ==
  /\ {PageSize, MaxPages, MaxLedgersPerPoll, PerLedger, MaxLedger} \subseteq Nat \ {0}
  /\ {Contracts, EventBootstrap, HorizonBootstrap, MaxResets} \subseteq Nat

Horizon == 0
Streams == 0 .. Contracts

VARIABLES
  head,        \* the ledger sequence of the chain
  emitted,     \* the events of each contract in each ledger, counted
  stored,      \* items in the tables: events, ledgers
  notices,     \* times webhookStore.enqueue was called for an event
  checkpoint,  \* checkpoints.last_ledger of each stream; 0 without a row
  poll,        \* pollOnce: the request it awaits, and its local variables
  start,       \* history: the position at which each stream was last placed
  skipped,     \* history: <<s, l>> whose ledger the code passes unread in part
  resets       \* number of resets so far

chain == <<head, emitted>>
tables == <<stored, notices, checkpoint>>
ingestHistory == <<start, skipped>>
bounds == <<crashes, resets>>
ingestVars == <<chain, tables, poll, ingestHistory, bounds>>

Ledgers == 1 .. MaxLedger
Items == {<<Horizon, l, 1>> : l \in Ledgers}
           \union (1 .. Contracts) \X Ledgers \X (1 .. PerLedger)

\* Between two polls.
NoPoll == [at |-> "idle", latest |-> 0, contract |-> 0, from |-> 0, to |-> 0, pages |-> 0]

IngestTypeOK ==
  /\ head \in Ledgers
  /\ emitted \in [1 .. Contracts -> [Ledgers -> 0 .. PerLedger]]
  /\ stored \subseteq Items
  /\ notices \in [Items -> Nat]
  /\ checkpoint \in [Streams -> 0 .. MaxLedger]
  /\ poll \in [at : {"idle", "head", "page", "horizon", "ledgers", "ledger"},
               latest : 0 .. MaxLedger, contract : Streams, from : 0 .. MaxLedger,
               to : 0 .. MaxLedger, pages : 0 .. MaxPages - 1]
  /\ start \in [Streams -> 0 .. MaxLedger]
  /\ skipped \subseteq Streams \X Ledgers
  /\ crashes \in 0 .. MaxCrashes
  /\ resets \in 0 .. MaxResets

IngestInit ==
  /\ head = 1
  /\ emitted = [c \in 1 .. Contracts |-> [l \in Ledgers |-> 0]]
  /\ stored = {}
  /\ notices = [i \in Items |-> 0]
  /\ checkpoint = [s \in Streams |-> 0]
  /\ poll = NoPoll
  /\ start = [s \in Streams |-> 0]
  /\ skipped = {}
  /\ crashes = 0
  /\ resets = 0

\* A ledger closes, with some events of each contract.
CloseLedger(count) ==
  /\ head < MaxLedger
  /\ head' = head + 1
  /\ emitted' = [c \in 1 .. Contracts |-> [emitted[c] EXCEPT ![head + 1] = count[c]]]
  /\ UNCHANGED <<tables, poll, ingestHistory, bounds>>

-----------------------------------------------------------------------------
(* The contract streams.                                                   *)

\* Where stream s continues: its checkpoint, or some ledgers behind the
\* latest when it has none.  A checkpoint of 0 counts as none.
Position(s, latest, behind) ==
  IF checkpoint[s] = 0 THEN Max({1, latest - behind}) ELSE checkpoint[s]

\* Placing a stream that had no checkpoint.
Placed(s, position) == IF checkpoint[s] = 0 THEN position ELSE start[s]

\* A poll writes the checkpoint of stream s, which it last left at poll.from.
\* If it is not there any more, an operator has reset it meanwhile: the reset
\* is overwritten, and the stream is back where the poll had it.
Continued(s) == [start EXCEPT ![s] = IF checkpoint[s] = poll.from THEN @ ELSE poll.from]

RequestHorizon == [NoPoll EXCEPT !.at = "horizon"]

\* pollContractEvents goes on with the first contract from k on that is
\* behind `latest`, or with Horizon when there is none.  `points` are the
\* checkpoints written so far, and `starts` where their streams were placed.
Enter(k, latest, points, starts) ==
  LET position(c) == Position(c, latest, EventBootstrap)
      behind == {c \in k .. Contracts : position(c) < latest}
      visited == IF behind = {} THEN k .. Contracts ELSE k .. Min(behind)
  IN /\ checkpoint' = [s \in Streams |-> IF s \in visited THEN position(s) ELSE points[s]]
     /\ start' = [s \in Streams |-> IF s \in visited THEN Placed(s, position(s)) ELSE starts[s]]
     /\ poll' = IF behind = {} THEN RequestHorizon
                ELSE [NoPoll EXCEPT !.at = "page", !.latest = latest,
                        !.contract = Min(behind), !.from = position(Min(behind))]

PollStart ==
  /\ poll = NoPoll
  /\ poll' = IF Contracts = 0 THEN RequestHorizon ELSE [NoPoll EXCEPT !.at = "head"]
  /\ UNCHANGED <<chain, tables, ingestHistory, bounds>>

\* getLatestLedger answers.
GotHead ==
  /\ poll.at = "head"
  /\ Enter(1, head, checkpoint, start)
  /\ UNCHANGED <<chain, stored, notices, skipped, bounds>>

\* What getEvents has for contract c after ledger `from`, and the page of it
\* that is returned: the first PageSize events in the order of the chain.
After(c, from) ==
  {<<c, l, n>> : l \in from + 1 .. head, n \in 1 .. PerLedger}
    \intersect {i \in Items : i[1] # Horizon /\ i[3] <= emitted[i[1]][i[2]]}

Before(i, j) == i[2] < j[2] \/ (i[2] = j[2] /\ i[3] <= j[3])

FirstOf(n, items) == {j \in items : Cardinality({i \in items : Before(i, j)}) <= n}

PageOf(c, from) == FirstOf(PageSize, After(c, from))

LastLedger(page) == Max({i[2] : i \in page})

\* Fault: the checkpoint is the ledger that the poll found at the head.
NewCheckpointHead(page) == poll.latest

\* Fault: a page does not move the position.
NewCheckpointKept(page) == poll.from

\* The checkpoint after a page, and the position of the next one.
NewCheckpoint(page) == LastLedger(page)

\* Fault: an event is announced whether or not its row was new.
AnnouncedAlways(page) == page

\* INSERT OR IGNORE: only an event whose row is new is announced.
Announced(page) == page \ stored

\* The page is written: the events, a call of enqueue for each new one.
Written(page, announced) ==
  /\ stored' = stored \union page
  /\ notices' = [i \in Items |-> IF i \in announced THEN notices[i] + 1 ELSE notices[i]]

\* A page that is full may end within a ledger: its other events are passed,
\* since the next page starts at the ledger after.
Cut(c, from, page) ==
  {<<c, j[2]>> : j \in {i \in After(c, from) \ page : i[2] = LastLedger(page)}}

\* getEvents answers with no events: the checkpoint stays.
GotNoPage ==
  /\ poll.at = "page"
  /\ PageOf(poll.contract, poll.from) = {}
  /\ Enter(poll.contract + 1, poll.latest, checkpoint, start)
  /\ UNCHANGED <<chain, stored, notices, skipped, bounds>>

\* getEvents answers with a page.  `last` is the RPC saying, by its cursor,
\* that nothing follows.
GotPage(last) ==
  LET c == poll.contract
      page == PageOf(c, poll.from)
      point == NewCheckpoint(page)
      points == [checkpoint EXCEPT ![c] = point]
  IN /\ poll.at = "page"
     /\ page # {}
     /\ Written(page, Announced(page))
     /\ skipped' = skipped \union Cut(c, poll.from, page)
     /\ IF \/ last
           \/ Cardinality(page) < PageSize
           \/ poll.pages + 1 >= MaxPages
           \/ point >= poll.latest
        THEN Enter(c + 1, poll.latest, points, Continued(c))
        ELSE /\ checkpoint' = points
             /\ poll' = [poll EXCEPT !.from = point, !.pages = @ + 1]
             /\ start' = Continued(c)
     /\ UNCHANGED <<chain, bounds>>

-----------------------------------------------------------------------------
(* The Horizon stream.                                                     *)

Target(position) == Min({head, position + MaxLedgersPerPoll})

\* latestLedger answers.
GotHorizonHead ==
  LET position == Position(Horizon, head, HorizonBootstrap)
  IN /\ poll.at = "horizon"
     /\ checkpoint' = [checkpoint EXCEPT ![Horizon] = position]
     /\ start' = [start EXCEPT ![Horizon] = Placed(Horizon, position)]
     /\ poll' = IF position >= head THEN NoPoll
                ELSE [NoPoll EXCEPT !.at = "ledgers", !.from = position,
                        !.to = Target(position)]
     /\ UNCHANGED <<chain, stored, notices, skipped, bounds>>

\* ledgersFrom answers with the ledgers up to h: fewer than the poll asked
\* for when the Horizon server that answers is behind.  With none, the poll
\* moves its checkpoint to the target.
GotLedgers(h) ==
  /\ poll.at = "ledgers"
  /\ h \in poll.from .. poll.to
  /\ IF h = poll.from
     THEN /\ checkpoint' = [checkpoint EXCEPT ![Horizon] = poll.to]
          /\ skipped' = skipped \union ({Horizon} \X (poll.from + 1 .. poll.to))
          /\ start' = Continued(Horizon)
          /\ poll' = NoPoll
     ELSE /\ poll' = [poll EXCEPT !.at = "ledger", !.to = h]
          /\ UNCHANGED <<checkpoint, start, skipped>>
  /\ UNCHANGED <<chain, stored, notices, bounds>>

\* The transactions and operations of the next ledger are there: it is
\* written, and the checkpoint after it.
GotLedger ==
  LET l == poll.from + 1
  IN /\ poll.at = "ledger"
     /\ stored' = stored \union {<<Horizon, l, 1>>}
     /\ checkpoint' = [checkpoint EXCEPT ![Horizon] = l]
     /\ start' = Continued(Horizon)
     /\ poll' = IF l = poll.to THEN NoPoll ELSE [poll EXCEPT !.from = l]
     /\ UNCHANGED <<chain, notices, skipped, bounds>>

-----------------------------------------------------------------------------
(* Failures and the operator.                                              *)

\* An error ends the poll of the contracts, or that of Horizon.
FailedPoll == IF poll.at \in {"head", "page"} THEN RequestHorizon ELSE NoPoll

\* A request fails or times out.
Fail ==
  /\ poll.at # "idle"
  /\ poll' = FailedPoll
  /\ UNCHANGED <<chain, tables, ingestHistory, bounds>>

\* The process dies and is started again: the next poll begins afresh.
Crashed ==
  /\ ProcessDies
  /\ poll' = NoPoll
  /\ UNCHANGED <<chain, checkpoint, ingestHistory, resets>>

\* The process dies in an await, or between two polls.
IngestCrash == Crashed /\ UNCHANGED <<stored, notices>>

\* The first n events of the page that is being written, and those of them that
\* have been dealt with if the n-th is perhaps not announced.
Begun(n) == FirstOf(n, PageOf(poll.contract, poll.from))
Done(n, announced) == IF announced THEN Begun(n) ELSE FirstOf(n - 1, Begun(n))

\* The process dies while it writes a page: n events are written, and the
\* last of them is perhaps not announced.
CrashInPage(n, announced) ==
  /\ poll.at = "page"
  /\ Cardinality(Begun(n)) = n
  /\ Crashed
  /\ Written(Begun(n), Announced(Done(n, announced)))

\* The process dies between a ledger and its checkpoint.
CrashInLedger ==
  /\ poll.at = "ledger"
  /\ Crashed
  /\ stored' = stored \union {<<Horizon, poll.from + 1, 1>>}
  /\ UNCHANGED notices

\* POST /admin/replay: the operator places a stream at ledger l.
ResetStream(s, l) ==
  /\ resets < MaxResets
  /\ resets' = resets + 1
  /\ checkpoint' = [checkpoint EXCEPT ![s] = l]
  /\ start' = [start EXCEPT ![s] = l]
  /\ UNCHANGED <<chain, stored, notices, poll, skipped, crashes>>

IngestNext ==
  \/ \E count \in [1 .. Contracts -> 0 .. PerLedger] : CloseLedger(count)
  \/ PollStart
  \/ GotHead
  \/ GotNoPage
  \/ \E last \in BOOLEAN : GotPage(last)
  \/ GotHorizonHead
  \/ \E h \in Ledgers : GotLedgers(h)
  \/ GotLedger
  \/ Fail
  \/ IngestCrash
  \/ \E n \in 1 .. PageSize, announced \in BOOLEAN : CrashInPage(n, announced)
  \/ CrashInLedger
  \/ \E s \in Streams, l \in 0 .. head : ResetStream(s, l)

IngestSpec == IngestInit /\ [][IngestNext]_ingestVars

\* The loop polls for ever, and a request that is made again and again is
\* answered in the end.
IngestFairness ==
  /\ WF_ingestVars(PollStart)
  /\ SF_ingestVars(GotHead)
  /\ \A c \in 1 .. Contracts :
       SF_ingestVars(poll.contract = c /\ (GotNoPage \/ \E last \in BOOLEAN : GotPage(last)))
  /\ SF_ingestVars(GotHorizonHead)
  /\ SF_ingestVars(\E h \in Ledgers : GotLedgers(h))
  /\ SF_ingestVars(GotLedger)

IngestFairSpec == IngestSpec /\ IngestFairness

-----------------------------------------------------------------------------
(* Properties.                                                             *)

\* Everything of stream s that is on the chain up to ledger l.
OnChain(s, l) ==
  IF s = Horizon THEN {<<Horizon, k, 1>> : k \in 1 .. l}
  ELSE {i \in Items : i[1] = s /\ i[2] <= l /\ i[3] <= emitted[s][i[2]]}

\* What is on the chain up to ledger l, after the position where its stream
\* was placed, and neither stored nor passed by the code.
Missing(l) ==
  {i \in UNION {OnChain(s, l) : s \in Streams} :
     i[2] > start[i[1]] /\ <<i[1], i[2]>> \notin skipped /\ i \notin stored}

\* A checkpoint vouches for what lies between it and the position where the
\* stream was placed, by bootstrap, by a reset, or by a poll that wrote its
\* own position over a reset: whatever fails, crashes or is replayed, in
\* whatever order poll and operator write it, all of it is stored.  Excepted
\* are the ledgers that the code passes knowingly: the rest of the ledger in
\* which a full page ends (pollContractEvents), and those of an empty answer
\* (pollHorizon).
NoGap ==
  \A i \in Missing(MaxLedger) : i[2] > checkpoint[i[1]]

\* Replays and crashes never announce an event twice to the webhooks, and
\* without a crash every stored event has been announced (INSERT OR IGNORE
\* followed by enqueue when a row was inserted).
AnnouncedOnce ==
  \A i \in Items :
    /\ notices[i] <= 1
    /\ crashes = 0 /\ i \in stored /\ i[1] # Horizon => notices[i] = 1

\* The store, the checkpoints and the announcements keep their types and no
\* event is announced twice (pollContractEvents, enqueue).
IngestInv == IngestTypeOK /\ AnnouncedOnce

\* Ingestion catches up with the chain when no more ledgers close: whatever
\* is there after the position where its stream was placed is stored in the
\* end, unless the code passes it; failing requests, crashes and resets, also
\* those that a poll overwrites, only delay it (start, pollOnce).
ChainIsIndexed == []<>(Missing(head) = {})
=============================================================================
