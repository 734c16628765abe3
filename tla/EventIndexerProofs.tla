------------------------- MODULE EventIndexerProofs -------------------------
(* Proofs about the event indexer: its ingestion loop, for any number of    *)
(* contracts, pages, ledgers and resets; its webhook outbox, for all        *)
(* subscriptions, events, limits and backoffs and any number of rounds at   *)
(* once; and the two in one process, for any number of crashes.             *)
EXTENDS EventIndexer, SumTheorems, FiniteSetTheorems, TLAPS

-----------------------------------------------------------------------------
(* The pages that getEvents returns.                                        *)

\* The events of a contract after a ledger.
LEMMA AfterIs ==
  ASSUME IngestTypeOK, NEW c \in 1 .. Contracts, NEW from \in Nat
  PROVE  /\ IsFiniteSet(After(c, from))
         /\ After(c, from) \subseteq Items
         /\ \A i \in After(c, from) :
              /\ i = <<c, i[2], i[3]>> /\ i[1] = c /\ i[1] # Horizon
              /\ i[2] \in from + 1 .. head /\ i[3] \in 1 .. PerLedger
              /\ i[3] <= emitted[c][i[2]]
         /\ \A l \in from + 1 .. head, n \in 1 .. PerLedger :
              n <= emitted[c][l] => <<c, l, n>> \in After(c, from)
<1>1. head \in 1 .. MaxLedger /\ MaxLedger \in Nat /\ PerLedger \in Nat /\ Contracts \in Nat
  BY IngestAssumption DEF IngestTypeOK, Ledgers
<1>2. \A l \in from + 1 .. head, n \in 1 .. PerLedger : <<c, l, n>> \in Items
  BY <1>1 DEF Items, Ledgers
<1>3. IsFiniteSet(After(c, from))
  <2> DEFINE A == from + 1 .. head
             B == 1 .. PerLedger
             all == {<<c, p[1], p[2]>> : p \in A \X B}
             f == [p \in A \X B |-> <<c, p[1], p[2]>>]
  <2>1. IsFiniteSet(A \X B)
    <3>1. IsFiniteSet(A) /\ IsFiniteSet(B)
      BY <1>1, FS_Interval
    <3> QED
      BY <3>1, FS_Product
  <2>2. f \in Surjection(A \X B, all)
    <3>1. f \in [A \X B -> all]
      OBVIOUS
    <3>2. \A t \in all : \E p \in A \X B : f[p] = t
      OBVIOUS
    <3> HIDE DEF f, all, A, B
    <3> QED
      BY <3>1, <3>2 DEF Surjection
  <2>3. IsFiniteSet(all)
    <3> HIDE DEF f, all, A, B
    <3> QED
      BY <2>1, <2>2, FS_Surjection
  <2>4. After(c, from) \subseteq all
    <3> SUFFICES ASSUME NEW i \in After(c, from) PROVE i \in all
      OBVIOUS
    <3>1. PICK l \in A, n \in B : i = <<c, l, n>>
      BY DEF After
    <3>2. PICK p : p = <<l, n>>
      OBVIOUS
    <3>3. p \in A \X B /\ i = <<c, p[1], p[2]>>
      BY <3>1, <3>2
    <3> QED
      BY <3>3
  <2> QED
    BY <2>3, <2>4, FS_Subset
<1>4. \A i \in After(c, from) :
        /\ i = <<c, i[2], i[3]>> /\ i[1] = c /\ i[1] # Horizon
        /\ i[2] \in from + 1 .. head /\ i[3] \in 1 .. PerLedger
        /\ i[3] <= emitted[c][i[2]]
  BY DEF After
<1>5. \A l \in from + 1 .. head, n \in 1 .. PerLedger :
        n <= emitted[c][l] => <<c, l, n>> \in After(c, from)
  BY <1>1, <1>2 DEF After, Horizon
<1> QED
  BY <1>3, <1>4, <1>5 DEF After

\* A page holds all events that come before one of its events.
LEMMA PageIs ==
  ASSUME NEW n \in Nat, NEW S, IsFiniteSet(S), \A i \in S : i[2] \in Int /\ i[3] \in Int
  PROVE  /\ FirstOf(n, S) \subseteq S
         /\ IsFiniteSet(FirstOf(n, S))
         /\ \A j \in FirstOf(n, S), i \in S : i[2] < j[2] => i \in FirstOf(n, S)
<1>1. FirstOf(n, S) \subseteq S
  BY DEF FirstOf
<1>2. ASSUME NEW j \in FirstOf(n, S), NEW i \in S, i[2] < j[2]
      PROVE  i \in FirstOf(n, S)
  <2> DEFINE upto(k) == {k1 \in S : Before(k1, k)}
  <2>1. upto(i) \subseteq upto(j)
    BY <1>1, <1>2 DEF Before
  <2>2. IsFiniteSet(upto(j)) /\ IsFiniteSet(upto(i))
    BY FS_Subset
  <2>3. Cardinality(upto(i)) <= Cardinality(upto(j))
    BY <2>1, <2>2, FS_Subset
  <2>4. Cardinality(upto(i)) \in Nat /\ Cardinality(upto(j)) \in Nat
    BY <2>2, FS_CardinalityType
  <2>5. Cardinality(upto(j)) <= n
    BY DEF FirstOf
  <2>6. Cardinality(upto(i)) <= n
    BY <2>3, <2>4, <2>5
  <2> QED
    BY <1>2, <2>6 DEF FirstOf
<1> QED
  BY <1>1, <1>2, FS_Subset

LEMMA LastLedgerIs ==
  ASSUME NEW page, IsFiniteSet(page), page # {}, \A i \in page : i[2] \in Int
  PROVE  /\ LastLedger(page) \in {i[2] : i \in page}
         /\ \A i \in page : i[2] <= LastLedger(page)
<1> DEFINE S == {i[2] : i \in page}
           f == [i \in page |-> i[2]]
<1>1. f \in Surjection(page, S)
  BY DEF Surjection
<1>2. IsFiniteSet(S)
  <2> HIDE DEF f, S
  <2> QED
    BY <1>1, FS_Surjection
<1>3. S # {} /\ S \subseteq Int
  OBVIOUS
<1>4. Max(S) \in S /\ \A x \in S : x <= Max(S)
  <2> HIDE DEF S
  <2> QED
    BY <1>2, <1>3, MaxIs
<1> QED
  BY <1>4 DEF LastLedger

-----------------------------------------------------------------------------
(* Ingestion: the inductive invariant.                                      *)

\* No position is beyond the head, and a poll that awaits an answer for a
\* stream has something left to ask for.
PositionsInv ==
  /\ \A s \in Streams : checkpoint[s] <= head
  /\ poll.at = "page" =>
       poll.contract \in 1 .. Contracts /\ poll.from < poll.latest /\ poll.latest <= head
  /\ poll.at \in {"ledgers", "ledger"} => poll.from < poll.to /\ poll.to <= head

\* An event is announced if its row is there, but for a crash between the two.
NoticesInv ==
  \A i \in Items :
    /\ notices[i] \in {0, 1}
    /\ i \notin stored => notices[i] = 0
    /\ crashes = 0 /\ i \in stored /\ i[1] # Horizon => notices[i] = 1

\* The n-th item of stream s in ledger l is on the chain.
Exists(s, l, n) == IF s = Horizon THEN n = 1 ELSE n <= emitted[s][l]

\* NoGap of one stream.
Vouches(s) ==
  \A l \in Ledgers, n \in 1 .. PerLedger :
    Exists(s, l, n) /\ start[s] < l /\ l <= checkpoint[s]
      => <<s, l>> \in skipped \/ <<s, l, n>> \in stored

VouchedInv == \A s \in Streams : Vouches(s)

IngestIndInv == IngestTypeOK /\ PositionsInv /\ NoticesInv /\ VouchedInv

PollType ==
  [at : {"idle", "head", "page", "horizon", "ledgers", "ledger"},
   latest : 0 .. MaxLedger, contract : Streams, from : 0 .. MaxLedger,
   to : 0 .. MaxLedger, pages : 0 .. MaxPages - 1]

LEMMA Numbers ==
  /\ PageSize \in Nat \ {0} /\ MaxPages \in Nat \ {0} /\ MaxLedgersPerPoll \in Nat \ {0}
  /\ PerLedger \in Nat \ {0} /\ MaxLedger \in Nat \ {0}
  /\ Contracts \in Nat /\ EventBootstrap \in Nat /\ HorizonBootstrap \in Nat
  /\ MaxCrashes \in Nat /\ MaxResets \in Nat
BY IngestAssumption, ProcessAssumption

\* The types of what the proofs look at.
LEMMA Types ==
  ASSUME IngestTypeOK
  PROVE  /\ head \in 1 .. MaxLedger /\ head \in Nat /\ poll \in PollType
         /\ poll.from \in Nat /\ poll.from \in 0 .. MaxLedger
         /\ poll.to \in 0 .. MaxLedger /\ poll.latest \in 0 .. MaxLedger
         /\ poll.pages \in 0 .. MaxPages - 1 /\ poll.contract \in Streams
         /\ poll.to \in Nat /\ poll.latest \in Nat
         /\ checkpoint \in [Streams -> 0 .. MaxLedger]
         /\ start \in [Streams -> 0 .. MaxLedger]
         /\ \A s \in Streams : checkpoint[s] \in Nat /\ start[s] \in Nat
         /\ Horizon \in Streams
         /\ \A c \in 1 .. Contracts : c \in Streams /\ c # Horizon
         /\ \A s \in Streams : s = Horizon \/ s \in 1 .. Contracts
BY Numbers DEF IngestTypeOK, PollType, Ledgers, Streams, Horizon

LEMMA BetweenPolls ==
  /\ NoPoll \in PollType /\ NoPoll.at = "idle"
  /\ RequestHorizon \in PollType /\ RequestHorizon.at = "horizon"
  /\ [NoPoll EXCEPT !.at = "head"] \in PollType /\ [NoPoll EXCEPT !.at = "head"].at = "head"
BY Numbers DEF NoPoll, RequestHorizon, PollType, Streams

LEMMA IngestInitInv == IngestInit => IngestIndInv
<1> SUFFICES ASSUME IngestInit PROVE IngestIndInv
  OBVIOUS
<1>1. IngestTypeOK
  <2>1. head \in Ledgers /\ emitted \in [1 .. Contracts -> [Ledgers -> 0 .. PerLedger]]
    BY Numbers DEF IngestInit, Ledgers
  <2>2. stored \subseteq Items /\ notices \in [Items -> Nat] /\ skipped = {}
    BY DEF IngestInit
  <2>3. checkpoint \in [Streams -> 0 .. MaxLedger] /\ start \in [Streams -> 0 .. MaxLedger]
    BY Numbers DEF IngestInit
  <2>4. poll \in PollType
    BY BetweenPolls DEF IngestInit
  <2>5. crashes \in 0 .. MaxCrashes /\ resets \in 0 .. MaxResets
    BY Numbers DEF IngestInit
  <2> QED
    BY <2>1, <2>2, <2>3, <2>4, <2>5 DEF IngestTypeOK, PollType
<1>2. PositionsInv
  BY <1>1, BetweenPolls, Types DEF PositionsInv, IngestInit
<1>3. NoticesInv
  BY DEF NoticesInv, IngestInit
<1>4. VouchedInv
  <2>1. \A s \in Streams : start[s] = 0 /\ checkpoint[s] = 0
    BY DEF IngestInit
  <2>2. \A l \in Ledgers : ~(0 < l /\ l <= 0)
    BY Numbers DEF Ledgers
  <2> QED
    BY <2>1, <2>2 DEF VouchedInv, Vouches
<1> QED
  BY <1>1, <1>2, <1>3, <1>4 DEF IngestIndInv

\* A stream that is left where it is.
LEMMA StreamStays ==
  ASSUME NEW s, Vouches(s), UNCHANGED emitted, stored \subseteq stored', skipped \subseteq skipped',
         checkpoint'[s] = checkpoint[s], start'[s] = start[s]
  PROVE  Vouches(s)'
BY DEF Vouches, Exists

\* A stream that is placed anew.
LEMMA StreamPlaced ==
  ASSUME NEW s, start'[s] = checkpoint'[s], start'[s] \in Nat
  PROVE  Vouches(s)'
<1>1. \A l \in Ledgers : ~(start'[s] < l /\ l <= start'[s])
  BY Numbers DEF Ledgers
<1> QED
  BY <1>1 DEF Vouches

\* No stream moves.
LEMMA StreamsStay ==
  ASSUME VouchedInv, UNCHANGED <<emitted, checkpoint, start, skipped>>, stored \subseteq stored'
  PROVE  VouchedInv'
<1>1. \A s \in Streams : Vouches(s)'
  BY StreamStays DEF VouchedInv
<1> QED
  BY <1>1 DEF VouchedInv

\* A step that only moves the poll.
LEMMA OnlyPoll ==
  ASSUME IngestIndInv, UNCHANGED <<chain, tables, ingestHistory, bounds>>,
         poll' \in PollType, poll'.at \notin {"page", "ledgers", "ledger"}
  PROVE  IngestIndInv'
<1>1. IngestTypeOK'
  BY DEF IngestIndInv, IngestTypeOK, PollType, chain, tables, ingestHistory, bounds
<1>2. PositionsInv' /\ NoticesInv'
  BY DEF IngestIndInv, PositionsInv, NoticesInv, chain, tables, bounds
<1>3. VouchedInv'
  BY StreamsStay DEF IngestIndInv, chain, tables, ingestHistory
<1> QED
  BY <1>1, <1>2, <1>3 DEF IngestIndInv

-----------------------------------------------------------------------------
(* The contract streams.                                                    *)

LEMMA PositionIs ==
  ASSUME IngestTypeOK, PositionsInv, NEW latest \in 1 .. head, NEW behind \in Nat, NEW s \in Streams
  PROVE  /\ Position(s, latest, behind) \in 1 .. head
         /\ checkpoint[s] # 0 => Position(s, latest, behind) = checkpoint[s]
<1>1. checkpoint[s] \in Nat /\ checkpoint[s] <= head /\ head \in Nat
  BY Types DEF PositionsInv
<1>2. Max({1, latest - behind}) \in 1 .. head
  <2>1. PICK first : first = latest - behind /\ first \in Int /\ first <= head
    BY <1>1
  <2>2. Max({1, first}) \in {1, first} /\ 1 <= Max({1, first})
    <3>1. 1 \in Int /\ first \in Int
      BY <2>1
    <3> QED
      BY ONLY <3>1, TwoNumbers
  <2>3. 1 <= head
    BY <1>1
  <2>4. Max({1, first}) \in 1 .. head
    BY <1>1, <2>1, <2>2, <2>3
  <2> QED
    BY <2>1, <2>4
<1> QED
  BY <1>1, <1>2 DEF Position

\* Going on with the contracts from k: each of them stays where the poll has
\* put it, or is placed where it has no checkpoint.
LEMMA EnterStep ==
  ASSUME IngestTypeOK, PositionsInv, NEW latest \in 1 .. head, NEW k \in 1 .. Contracts + 1,
         NEW points \in [Streams -> 0 .. MaxLedger],
         \A s \in Streams : points[s] <= head,
         \A s \in k .. Contracts : points[s] = checkpoint[s],
         NEW starts \in [Streams -> 0 .. MaxLedger],
         \A s \in k .. Contracts : starts[s] = start[s],
         UNCHANGED head,
         Enter(k, latest, points, starts)
  PROVE  /\ checkpoint' \in [Streams -> 0 .. MaxLedger]
         /\ start' \in [Streams -> 0 .. MaxLedger]
         /\ poll' \in PollType
         /\ PositionsInv'
         /\ \A s \in Streams : \/ checkpoint'[s] = points[s] /\ start'[s] = starts[s]
                              \/ checkpoint'[s] = start'[s]
<1> DEFINE position(c) == Position(c, latest, EventBootstrap)
           behind == {c \in k .. Contracts : position(c) < latest}
           visited == IF behind = {} THEN k .. Contracts ELSE k .. Min(behind)
<1>1. /\ checkpoint' = [s \in Streams |-> IF s \in visited THEN position(s) ELSE points[s]]
      /\ start' = [s \in Streams |-> IF s \in visited THEN Placed(s, position(s)) ELSE starts[s]]
      /\ poll' = IF behind = {} THEN RequestHorizon
                 ELSE [NoPoll EXCEPT !.at = "page", !.latest = latest,
                         !.contract = Min(behind), !.from = position(Min(behind))]
  BY DEF Enter
<1>2. k \in Nat \ {0} /\ Contracts \in Nat /\ latest \in Nat /\ latest <= head
      /\ head \in Nat /\ head <= MaxLedger /\ MaxLedger \in Nat
  BY Types, Numbers
<1>3. \A s \in Streams : /\ position(s) \in 1 .. head
                         /\ checkpoint[s] # 0 => position(s) = checkpoint[s]
  BY Numbers, PositionIs
<1> HIDE DEF position
<1>4. behind # {} => Min(behind) \in behind
  <2>1. IsFiniteSet(k .. Contracts)
    BY <1>2, FS_Interval
  <2>2. behind \subseteq k .. Contracts /\ behind \subseteq Int
    OBVIOUS
  <2> HIDE DEF behind
  <2>3. IsFiniteSet(behind)
    BY <2>1, <2>2, FS_Subset
  <2> QED
    BY <2>2, <2>3, MinIs
<1>5. \A s \in visited : s \in k .. Contracts /\ s \in Streams
  BY <1>2, <1>4 DEF Streams
<1>6. \A s \in Streams : checkpoint[s] \in 0 .. MaxLedger /\ start[s] \in 0 .. MaxLedger
  BY Types
<1> HIDE DEF visited
<1>7. \A s \in Streams :
        /\ checkpoint'[s] = IF s \in visited THEN position(s) ELSE points[s]
        /\ start'[s] = IF s \in visited THEN Placed(s, position(s)) ELSE starts[s]
  BY <1>1
<1>8. \A s \in Streams : checkpoint'[s] \in 0 .. MaxLedger /\ checkpoint'[s] <= head
  BY <1>2, <1>3, <1>7
<1>9. \A s \in Streams : start'[s] \in 0 .. MaxLedger
  BY <1>2, <1>3, <1>6, <1>7 DEF Placed
<1>10. checkpoint' \in [Streams -> 0 .. MaxLedger] /\ start' \in [Streams -> 0 .. MaxLedger]
  BY <1>1, <1>7, <1>8, <1>9
<1>11. poll' \in PollType /\ poll'.at \notin {"ledgers", "ledger"}
       /\ (poll'.at = "page" =>
             poll'.contract \in 1 .. Contracts /\ poll'.from < poll'.latest /\ poll'.latest <= head)
  <2>1. CASE behind = {}
    BY <1>1, <2>1, BetweenPolls
  <2>2. CASE behind # {}
    <3>1. PICK m, at : m = Min(behind) /\ at = position(m)
      OBVIOUS
    <3>2. m \in k .. Contracts /\ at < latest
      BY <1>4, <2>2, <3>1
    <3>3. m \in Streams /\ m \in 1 .. Contracts
      BY <1>2, <3>2 DEF Streams
    <3>4. at \in 0 .. MaxLedger /\ latest \in 0 .. MaxLedger
      BY <1>2, <1>3, <3>1, <3>3
    <3>5. poll' = [at |-> "page", latest |-> latest, contract |-> m, from |-> at, to |-> 0, pages |-> 0]
      BY <1>1, <2>2, <3>1 DEF NoPoll
    <3> HIDE DEF behind
    <3>6. poll' \in PollType
      BY <3>3, <3>4, <3>5, Numbers DEF PollType
    <3> QED
      BY <1>2, <3>2, <3>3, <3>5, <3>6
  <2> QED
    BY <2>1, <2>2
<1>12. PositionsInv'
  BY <1>8, <1>11 DEF PositionsInv
<1>13. \A s \in Streams : \/ checkpoint'[s] = points[s] /\ start'[s] = starts[s]
                         \/ checkpoint'[s] = start'[s]
  BY <1>3, <1>5, <1>7 DEF Placed
<1> QED
  BY <1>10, <1>11, <1>12, <1>13

\* The store and the announcements after a page, or the part of it that was
\* written when the process died.
LEMMA WrittenIs ==
  ASSUME IngestTypeOK, NoticesInv, NEW page \in SUBSET Items, \A i \in page : i[1] # Horizon,
         NEW done \in SUBSET page, Written(page, Announced(done)),
         crashes' # 0 \/ (done = page /\ UNCHANGED crashes)
  PROVE  /\ stored' \subseteq Items /\ stored \subseteq stored' /\ page \subseteq stored'
         /\ notices' \in [Items -> Nat]
         /\ NoticesInv'
<1>1. /\ stored' = stored \union page
      /\ notices' = [i \in Items |-> IF i \in done \ stored THEN notices[i] + 1 ELSE notices[i]]
  BY DEF Written, Announced
<1>2. stored \subseteq Items /\ \A i \in Items : notices[i] \in Nat
  BY DEF IngestTypeOK
<1>3. notices' \in [Items -> Nat]
  BY <1>1, <1>2
<1>4. NoticesInv'
  <2> SUFFICES ASSUME NEW i \in Items
               PROVE  /\ notices'[i] \in {0, 1}
                      /\ i \notin stored' => notices'[i] = 0
                      /\ crashes' = 0 /\ i \in stored' /\ i[1] # Horizon => notices'[i] = 1
    BY DEF NoticesInv
  <2>1. notices'[i] = IF i \in done \ stored THEN notices[i] + 1 ELSE notices[i]
    BY <1>1
  <2>2. /\ notices[i] \in {0, 1}
        /\ i \notin stored => notices[i] = 0
        /\ crashes = 0 /\ i \in stored /\ i[1] # Horizon => notices[i] = 1
    BY DEF NoticesInv
  <2> QED
    BY <1>1, <2>1, <2>2
<1> QED
  BY <1>1, <1>2, <1>3, <1>4

\* What getEvents answers.
LEMMA AnswerIs ==
  ASSUME IngestTypeOK, PositionsInv, poll.at = "page"
  PROVE  LET c == poll.contract
             all == After(c, poll.from)
             page == PageOf(c, poll.from)
         IN /\ c \in 1 .. Contracts
            /\ page \subseteq all /\ page \subseteq Items /\ IsFiniteSet(page)
            /\ \A i \in all : i[1] = c /\ i[1] # Horizon /\ i[2] \in poll.from + 1 .. head
            /\ \A j \in page, i \in all : i[2] < j[2] => i \in page
            /\ \A l \in poll.from + 1 .. head, n \in 1 .. PerLedger :
                 n <= emitted[c][l] => <<c, l, n>> \in all
<1> DEFINE c == poll.contract
           all == After(c, poll.from)
<1>1. c \in 1 .. Contracts /\ poll.from \in Nat
  BY Types DEF PositionsInv
<1>2. /\ IsFiniteSet(all) /\ all \subseteq Items
      /\ \A i \in all : i[1] = c /\ i[1] # Horizon /\ i[2] \in poll.from + 1 .. head
                       /\ i[3] \in 1 .. PerLedger
      /\ \A l \in poll.from + 1 .. head, n \in 1 .. PerLedger :
           n <= emitted[c][l] => <<c, l, n>> \in all
  BY <1>1, AfterIs
<1>3. PageOf(c, poll.from) = FirstOf(PageSize, all)
  BY DEF PageOf
<1> HIDE DEF all, c
<1>4. \A i \in all : i[2] \in Int /\ i[3] \in Int
  BY <1>1, <1>2, Types, Numbers
<1>5. /\ FirstOf(PageSize, all) \subseteq all
      /\ IsFiniteSet(FirstOf(PageSize, all))
      /\ \A j \in FirstOf(PageSize, all), i \in all : i[2] < j[2] => i \in FirstOf(PageSize, all)
  BY <1>2, <1>4, Numbers, PageIs
<1> QED
  BY <1>1, <1>2, <1>3, <1>5 DEF all, c

-----------------------------------------------------------------------------
(* The steps.                                                               *)

LEMMA CloseLedgerStep ==
  ASSUME IngestIndInv, NEW count \in [1 .. Contracts -> 0 .. PerLedger], CloseLedger(count)
  PROVE  IngestIndInv'
<1>0. IngestTypeOK /\ PositionsInv /\ NoticesInv /\ VouchedInv
  BY DEF IngestIndInv
<1>1. /\ head < MaxLedger /\ head' = head + 1
      /\ emitted' = [c \in 1 .. Contracts |-> [emitted[c] EXCEPT ![head + 1] = count[c]]]
      /\ UNCHANGED <<stored, notices, checkpoint, poll, start, skipped, crashes, resets>>
  BY DEF CloseLedger, tables, ingestHistory, bounds
<1>2. head \in Nat /\ head' \in Ledgers /\ \A s \in Streams : checkpoint[s] \in Nat
  BY SMTT(30), <1>0, <1>1, Types, Numbers DEF Ledgers
<1>3. IngestTypeOK'
  <2>1. \A c \in 1 .. Contracts : emitted[c] \in [Ledgers -> 0 .. PerLedger]
    BY <1>0 DEF IngestTypeOK
  <2>2. emitted' \in [1 .. Contracts -> [Ledgers -> 0 .. PerLedger]]
    BY <1>1, <2>1
  <2> QED
    BY <1>0, <1>1, <1>2, <2>2 DEF IngestTypeOK
<1>4. PositionsInv' /\ NoticesInv'
  BY <1>0, <1>1, <1>2, Types DEF PositionsInv, NoticesInv
<1>5. VouchedInv'
  <2> SUFFICES ASSUME NEW s \in Streams PROVE Vouches(s)'
    BY <1>1 DEF VouchedInv
  <2> SUFFICES ASSUME NEW l \in Ledgers, NEW n \in 1 .. PerLedger,
                      Exists(s, l, n)', start[s] < l, l <= checkpoint[s]
               PROVE  <<s, l>> \in skipped \/ <<s, l, n>> \in stored
    BY <1>1 DEF Vouches
  <2>1. l # head + 1
    BY <1>0, <1>2 DEF PositionsInv, Ledgers
  <2>2. Exists(s, l, n)
    <3>1. CASE s = Horizon
      BY <3>1 DEF Exists
    <3>2. CASE s # Horizon
      <4>1. s \in 1 .. Contracts
        BY <1>0, <3>2, Types
      <4>2. emitted[s] \in [Ledgers -> 0 .. PerLedger]
        BY <1>0, <4>1 DEF IngestTypeOK
      <4>3. emitted'[s][l] = emitted[s][l]
        BY <1>1, <2>1, <4>1, <4>2
      <4> QED
        BY <3>2, <4>3 DEF Exists
    <3> QED
      BY <3>1, <3>2
  <2> QED
    BY <1>0, <2>2 DEF VouchedInv, Vouches
<1> QED
  BY <1>3, <1>4, <1>5 DEF IngestIndInv

LEMMA PollStartStep ==
  ASSUME IngestIndInv, PollStart
  PROVE  IngestIndInv'
<1>1. /\ UNCHANGED <<chain, tables, ingestHistory, bounds>>
      /\ poll' = RequestHorizon \/ poll' = [NoPoll EXCEPT !.at = "head"]
  BY DEF PollStart
<1> QED
  BY <1>1, BetweenPolls, OnlyPoll

LEMMA FailStep ==
  ASSUME IngestIndInv, Fail
  PROVE  IngestIndInv'
<1>1. /\ UNCHANGED <<chain, tables, ingestHistory, bounds>>
      /\ poll' = RequestHorizon \/ poll' = NoPoll
  BY DEF Fail, FailedPoll
<1> QED
  BY <1>1, BetweenPolls, OnlyPoll

\* The poll goes on, and writes nothing.
LEMMA MovingOn ==
  ASSUME IngestIndInv, NEW latest \in 1 .. head, NEW k \in 1 .. Contracts + 1,
         Enter(k, latest, checkpoint, start),
         UNCHANGED <<chain, stored, notices, skipped, bounds>>
  PROVE  IngestIndInv'
<1>0. IngestTypeOK /\ PositionsInv /\ NoticesInv /\ VouchedInv
  BY DEF IngestIndInv
<1>1. UNCHANGED <<head, emitted, stored, notices, skipped, crashes, resets>>
  BY DEF chain, bounds
<1>2. /\ checkpoint' \in [Streams -> 0 .. MaxLedger]
      /\ start' \in [Streams -> 0 .. MaxLedger]
      /\ poll' \in PollType
      /\ PositionsInv'
      /\ \A s \in Streams : \/ checkpoint'[s] = checkpoint[s] /\ start'[s] = start[s]
                           \/ checkpoint'[s] = start'[s]
  <2>1. checkpoint \in [Streams -> 0 .. MaxLedger] /\ \A s \in Streams : checkpoint[s] <= head
    BY <1>0, Types DEF PositionsInv
  <2>2. start \in [Streams -> 0 .. MaxLedger]
    BY <1>0, Types
  <2>3. \A s \in k .. Contracts : checkpoint[s] = checkpoint[s] /\ start[s] = start[s]
    OBVIOUS
  <2> QED
    BY <1>0, <1>1, <2>1, <2>2, <2>3, EnterStep
<1>3. IngestTypeOK'
  BY <1>0, <1>1, <1>2 DEF IngestTypeOK, PollType
<1>4. NoticesInv'
  BY <1>0, <1>1 DEF NoticesInv
<1>5. VouchedInv'
  <2> SUFFICES ASSUME NEW s \in Streams PROVE Vouches(s)'
    BY <1>1 DEF VouchedInv
  <2>1. start'[s] \in Nat
    BY <1>2, Numbers
  <2> QED
    BY <1>0, <1>1, <1>2, <2>1, StreamStays, StreamPlaced DEF VouchedInv
<1> QED
  BY <1>2, <1>3, <1>4, <1>5 DEF IngestIndInv

LEMMA GotHeadStep ==
  ASSUME IngestIndInv, GotHead
  PROVE  IngestIndInv'
<1>1. Enter(1, head, checkpoint, start) /\ UNCHANGED <<chain, stored, notices, skipped, bounds>>
  BY DEF GotHead
<1>2. head \in 1 .. head /\ 1 \in 1 .. Contracts + 1
  BY Types, Numbers DEF IngestIndInv
<1> QED
  BY <1>1, <1>2, MovingOn

LEMMA GotNoPageStep ==
  ASSUME IngestIndInv, GotNoPage
  PROVE  IngestIndInv'
<1>1. /\ poll.at = "page" /\ Enter(poll.contract + 1, poll.latest, checkpoint, start)
      /\ UNCHANGED <<chain, stored, notices, skipped, bounds>>
  BY DEF GotNoPage
<1>2. PICK k, latest : k = poll.contract + 1 /\ latest = poll.latest
  OBVIOUS
<1>3. k \in 1 .. Contracts + 1 /\ latest \in 1 .. head
  BY <1>1, <1>2, Types, Numbers DEF IngestIndInv, PositionsInv
<1> QED
  BY <1>1, <1>2, <1>3, MovingOn

LEMMA GotPageStep ==
  ASSUME IngestIndInv, NEW last \in BOOLEAN, GotPage(last)
  PROVE  IngestIndInv'
<1>0. IngestTypeOK /\ PositionsInv /\ NoticesInv /\ VouchedInv
  BY DEF IngestIndInv
<1>c. PICK c, page, all, point, points, starts :
        /\ c = poll.contract /\ page = PageOf(c, poll.from) /\ all = After(c, poll.from)
        /\ point = LastLedger(page) /\ points = [checkpoint EXCEPT ![c] = point]
        /\ starts = Continued(c)
  OBVIOUS
<1>1. /\ poll.at = "page" /\ page # {} /\ Written(page, Announced(page))
      /\ skipped' = skipped \union Cut(c, poll.from, page)
      /\ \/ Enter(c + 1, poll.latest, points, starts)
         \/ /\ poll.pages + 1 < MaxPages /\ point < poll.latest
            /\ checkpoint' = points
            /\ poll' = [poll EXCEPT !.from = point, !.pages = @ + 1]
            /\ start' = starts
      /\ UNCHANGED <<head, emitted, crashes, resets>>
  <2>1. poll.pages \in Nat /\ MaxPages \in Nat /\ poll.latest \in Nat /\ point \in Int
    <3>1. PageOf(poll.contract, poll.from) # {} /\ poll.at = "page"
      BY DEF GotPage
    <3>2. page # {} /\ IsFiniteSet(page) /\ \A i \in page : i[2] \in Int
      BY <1>0, <1>c, <3>1, AnswerIs, Types
    <3>3. point \in {i[2] : i \in page}
      BY <1>c, <3>2, LastLedgerIs
    <3> QED
      BY <1>0, <3>2, <3>3, Types, Numbers
  <2> QED
    BY <1>c, <2>1 DEF GotPage, NewCheckpoint, chain, bounds
<1>2. /\ c \in 1 .. Contracts /\ c \in Streams /\ c # Horizon
      /\ page \subseteq all /\ page \subseteq Items /\ IsFiniteSet(page)
      /\ \A i \in all : i[1] = c /\ i[1] # Horizon /\ i[2] \in poll.from + 1 .. head
      /\ \A j \in page, i \in all : i[2] < j[2] => i \in page
      /\ \A l \in poll.from + 1 .. head, n \in 1 .. PerLedger :
           n <= emitted[c][l] => <<c, l, n>> \in all
  BY <1>0, <1>c, <1>1, AnswerIs, Types
<1>3. /\ head \in Nat /\ head <= MaxLedger /\ MaxLedger \in Nat /\ poll.from \in Nat
      /\ poll.from < poll.latest /\ poll.latest <= head /\ poll.latest \in Nat
      /\ poll \in PollType /\ poll.pages \in Nat /\ Contracts \in Nat
  BY <1>0, <1>1, Types, Numbers DEF PositionsInv
<1>4. /\ point \in {i[2] : i \in page} /\ \A i \in page : i[2] <= point
      /\ point \in poll.from + 1 .. head /\ point \in 0 .. MaxLedger
  <2>1. \A i \in page : i[2] \in Int /\ i[2] \in poll.from + 1 .. head
    BY <1>2, <1>3
  <2>2. point \in {i[2] : i \in page} /\ \A i \in page : i[2] <= point
    BY <1>c, <1>1, <1>2, <2>1, LastLedgerIs
  <2> QED
    BY <1>3, <2>1, <2>2
<1>5. /\ points \in [Streams -> 0 .. MaxLedger] /\ points[c] = point
      /\ \A s \in Streams : s # c => points[s] = checkpoint[s]
      /\ \A s \in Streams : points[s] <= head
  <2>1. checkpoint \in [Streams -> 0 .. MaxLedger] /\ \A s \in Streams : checkpoint[s] <= head
    BY <1>0, Types DEF PositionsInv
  <2> QED
    BY <1>c, <1>2, <1>3, <1>4, <2>1
<1>s. /\ starts \in [Streams -> 0 .. MaxLedger]
      /\ starts[c] = IF checkpoint[c] = poll.from THEN start[c] ELSE poll.from
      /\ \A s \in Streams : s # c => starts[s] = start[s]
  <2>1. start \in [Streams -> 0 .. MaxLedger] /\ poll.from \in 0 .. MaxLedger
    BY <1>0, Types
  <2> QED
    BY <1>c, <1>2, <2>1 DEF Continued
<1>6. /\ checkpoint' \in [Streams -> 0 .. MaxLedger]
      /\ start' \in [Streams -> 0 .. MaxLedger]
      /\ poll' \in PollType
      /\ PositionsInv'
      /\ \A s \in Streams : \/ checkpoint'[s] = points[s] /\ start'[s] = starts[s]
                           \/ checkpoint'[s] = start'[s]
  <2>1. CASE Enter(c + 1, poll.latest, points, starts)
    <3>1. PICK k, latest : k = c + 1 /\ latest = poll.latest
      OBVIOUS
    <3>2. k \in 1 .. Contracts + 1 /\ latest \in 1 .. head
      BY <1>2, <1>3, <3>1
    <3>3. \A s \in k .. Contracts : points[s] = checkpoint[s] /\ starts[s] = start[s]
      <4>1. c \in Nat
        BY <1>2
      <4>2. \A s \in k .. Contracts : s # c /\ s \in Streams
        BY <1>3, <3>1, <4>1 DEF Streams
      <4> QED
        BY <1>5, <1>s, <4>2
    <3>4. Enter(k, latest, points, starts) /\ head' = head
      BY <1>1, <2>1, <3>1
    <3> QED
      BY <1>0, <1>5, <1>s, <3>2, <3>3, <3>4, EnterStep
  <2>2. CASE /\ poll.pages + 1 < MaxPages /\ point < poll.latest
             /\ checkpoint' = points
             /\ poll' = [poll EXCEPT !.from = point, !.pages = @ + 1]
             /\ start' = starts
    <3>1. PICK next : next = poll.pages + 1
      OBVIOUS
    <3>2. next \in 0 .. MaxPages - 1
      BY <1>3, <2>2, <3>1, Numbers
    <3>3. poll' = [poll EXCEPT !.from = point, !.pages = next]
      BY <2>2, <3>1
    <3>4. poll' \in PollType /\ poll'.at = "page" /\ poll'.from = point
          /\ poll'.latest = poll.latest /\ poll'.contract = c
      BY <1>c, <1>1, <1>3, <1>4, <3>2, <3>3 DEF PollType
    <3>5. PositionsInv'
      BY <1>1, <1>2, <1>3, <1>5, <2>2, <3>4 DEF PositionsInv
    <3> QED
      BY <1>5, <1>s, <2>2, <3>4, <3>5
  <2> QED
    BY <1>1, <2>1, <2>2
<1>7. /\ stored' \subseteq Items /\ stored \subseteq stored' /\ page \subseteq stored'
      /\ notices' \in [Items -> Nat]
      /\ NoticesInv'
  <2>1. page \in SUBSET Items /\ page \in SUBSET page /\ \A i \in page : i[1] # Horizon
    BY <1>2
  <2> QED
    BY <1>0, <1>1, <2>1, WrittenIs
<1>8. /\ skipped' \subseteq Streams \X Ledgers /\ skipped \subseteq skipped'
      /\ \A i \in all \ page : i[2] = point => <<c, point>> \in skipped'
  <2>1. Cut(c, poll.from, page) = {<<c, j[2]>> : j \in {i \in all \ page : i[2] = point}}
    BY <1>c DEF Cut
  <2>2. \A i \in all : i[2] \in Ledgers
    BY <1>2, <1>3 DEF Ledgers
  <2>3. skipped \subseteq Streams \X Ledgers
    BY <1>0 DEF IngestTypeOK
  <2> QED
    BY <1>1, <1>2, <2>1, <2>2, <2>3
<1>9. IngestTypeOK'
  BY <1>0, <1>1, <1>6, <1>7, <1>8 DEF IngestTypeOK, PollType
<1>10. VouchedInv'
  <2> SUFFICES ASSUME NEW s \in Streams PROVE Vouches(s)'
    BY DEF VouchedInv
  <2>0. Vouches(s) /\ start'[s] \in Nat
    BY <1>0, <1>6, Numbers DEF VouchedInv
  <2>1. CASE checkpoint'[s] = start'[s]
    BY <2>0, <2>1, StreamPlaced
  <2>2. CASE s # c /\ checkpoint'[s] = points[s] /\ start'[s] = starts[s]
    BY <1>1, <1>5, <1>s, <1>7, <1>8, <2>0, <2>2, StreamStays
  <2>3. CASE s = c /\ checkpoint'[s] = points[s] /\ start'[s] = starts[s]
    <3> SUFFICES ASSUME NEW l \in Ledgers, NEW n \in 1 .. PerLedger,
                        Exists(c, l, n), starts[c] < l, l <= point
                 PROVE  <<c, l>> \in skipped' \/ <<c, l, n>> \in stored'
      BY <1>1, <1>5, <2>3 DEF Vouches, Exists
    <3>1. l \in Nat /\ point \in Nat
      BY <1>3, <1>4 DEF Ledgers
    <3>2. CASE l <= poll.from
      <4>1. checkpoint[c] = poll.from /\ starts[c] = start[c]
        BY <1>3, <1>s, <3>1, <3>2
      <4> QED
        BY <1>7, <1>8, <2>0, <2>3, <3>2, <4>1 DEF Vouches
    <3>3. CASE l > poll.from
      <4>1. l \in poll.from + 1 .. head
        BY <1>3, <1>4, <3>1, <3>3
      <4>2. n <= emitted[c][l]
        BY <1>2 DEF Exists
      <4>3. <<c, l, n>> \in all
        BY <1>2, <4>1, <4>2
      <4>4. CASE l = point
        BY <1>7, <1>8, <4>3, <4>4
      <4>5. CASE l < point
        <5>1. PICK j \in page : j[2] = point
          BY <1>4
        <5>2. <<c, l, n>> \in page
          BY <1>2, <4>3, <4>5, <5>1
        <5> QED
          BY <1>7, <5>2
      <4> QED
        BY <3>1, <4>4, <4>5
    <3> QED
      BY <1>3, <3>1, <3>2, <3>3
  <2> QED
    BY <1>6, <2>1, <2>2, <2>3
<1> QED
  BY <1>6, <1>7, <1>9, <1>10 DEF IngestIndInv

\* Where the poll leaves the start of Horizon.
LEMMA HorizonContinued ==
  ASSUME IngestTypeOK
  PROVE  \E first \in 0 .. MaxLedger :
           /\ Continued(Horizon) = [start EXCEPT ![Horizon] = first]
           /\ Continued(Horizon)[Horizon] = first
           /\ \/ checkpoint[Horizon] = poll.from /\ first = start[Horizon]
              \/ first = poll.from
<1>1. /\ start \in [Streams -> 0 .. MaxLedger] /\ Horizon \in Streams
      /\ poll.from \in 0 .. MaxLedger
  BY Types
<1>2. PICK first : first = IF checkpoint[Horizon] = poll.from THEN start[Horizon] ELSE poll.from
  OBVIOUS
<1>3. first \in 0 .. MaxLedger
  BY <1>1, <1>2
<1>4. Continued(Horizon) = [start EXCEPT ![Horizon] = first]
  BY <1>2 DEF Continued
<1> QED
  BY <1>1, <1>2, <1>3, <1>4

\* The poll moves the checkpoint of Horizon, or leaves it.
LEMMA HorizonMoves ==
  ASSUME IngestIndInv, NEW point \in 1 .. head, checkpoint' = [checkpoint EXCEPT ![Horizon] = point],
         NEW first \in 0 .. MaxLedger, start' = [start EXCEPT ![Horizon] = first],
         UNCHANGED <<chain, notices, bounds>>,
         stored' \subseteq Items, stored \subseteq stored', \A i \in stored' \ stored : i[1] = Horizon,
         skipped' \subseteq Streams \X Ledgers, skipped \subseteq skipped',
         poll' \in PollType, poll'.at # "page",
         poll'.at \in {"ledgers", "ledger"} => poll'.from < poll'.to /\ poll'.to <= head,
         Vouches(Horizon)'
  PROVE  IngestIndInv'
<1>0. IngestTypeOK /\ PositionsInv /\ NoticesInv /\ VouchedInv
  BY DEF IngestIndInv
<1>1. UNCHANGED <<head, emitted, notices, crashes, resets>>
  BY DEF chain, bounds
<1>2. point \in 0 .. MaxLedger /\ point <= head /\ Horizon \in Streams
      /\ checkpoint \in [Streams -> 0 .. MaxLedger] /\ start \in [Streams -> 0 .. MaxLedger]
  <2>1. head \in Nat /\ head <= MaxLedger /\ MaxLedger \in Nat
    BY <1>0, Types, Numbers
  <2> QED
    BY <1>0, <2>1, Types
<1>3. IngestTypeOK'
  <2>1. checkpoint' \in [Streams -> 0 .. MaxLedger] /\ start' \in [Streams -> 0 .. MaxLedger]
    BY <1>2
  <2> QED
    BY <1>0, <1>1, <2>1 DEF IngestTypeOK, PollType
<1>4. PositionsInv'
  BY <1>0, <1>1, <1>2 DEF PositionsInv
<1>5. NoticesInv'
  BY <1>0, <1>1 DEF NoticesInv
<1>6. VouchedInv'
  <2> SUFFICES ASSUME NEW s \in Streams PROVE Vouches(s)'
    BY DEF VouchedInv
  <2>1. CASE s = Horizon
    BY <2>1
  <2>2. CASE s # Horizon
    BY <1>0, <1>1, <1>2, <2>2, StreamStays DEF VouchedInv
  <2> QED
    BY <2>1, <2>2
<1> QED
  BY <1>3, <1>4, <1>5, <1>6 DEF IngestIndInv

LEMMA GotHorizonHeadStep ==
  ASSUME IngestIndInv, GotHorizonHead
  PROVE  IngestIndInv'
<1>0. IngestTypeOK /\ PositionsInv /\ VouchedInv
  BY DEF IngestIndInv
<1>p. PICK position : position = Position(Horizon, head, HorizonBootstrap)
  OBVIOUS
<1>1. /\ checkpoint' = [checkpoint EXCEPT ![Horizon] = position]
      /\ start' = [start EXCEPT ![Horizon] = Placed(Horizon, position)]
      /\ \/ poll' = NoPoll
         \/ /\ ~(position >= head)
            /\ poll' = [NoPoll EXCEPT !.at = "ledgers", !.from = position, !.to = Target(position)]
      /\ UNCHANGED <<chain, stored, notices, skipped, bounds>>
  BY <1>p DEF GotHorizonHead
<1>2. head \in 1 .. head /\ head \in Nat /\ head <= MaxLedger /\ MaxLedger \in Nat
      /\ HorizonBootstrap \in Nat /\ Horizon \in Streams
      /\ MaxLedgersPerPoll \in Nat \ {0}
      /\ checkpoint \in [Streams -> 0 .. MaxLedger] /\ start \in [Streams -> 0 .. MaxLedger]
  BY <1>0, Types, Numbers
<1>3. position \in 1 .. head /\ (checkpoint[Horizon] # 0 => position = checkpoint[Horizon])
  BY <1>0, <1>2, <1>p, PositionIs
<1>4. PICK first : first = Placed(Horizon, position) /\ first \in 0 .. MaxLedger
  BY <1>2, <1>3 DEF Placed
<1>5. /\ poll' \in PollType /\ poll'.at # "page"
      /\ (poll'.at \in {"ledgers", "ledger"} => poll'.from < poll'.to /\ poll'.to <= head)
  <2>1. CASE poll' = NoPoll
    BY <2>1, BetweenPolls
  <2>2. CASE /\ ~(position >= head)
             /\ poll' = [NoPoll EXCEPT !.at = "ledgers", !.from = position, !.to = Target(position)]
    <3>1. PICK to, further : to = Target(position) /\ further = position + MaxLedgersPerPoll
      OBVIOUS
    <3>2. to = Min({head, further})
      BY <3>1 DEF Target
    <3>3. further \in Int /\ head \in Int /\ position < further /\ position < head
      BY <1>2, <1>3, <2>2, <3>1
    <3>4. to \in {head, further} /\ to <= head
      BY <3>2, <3>3, TwoNumbers
    <3>5. position < to /\ to \in 0 .. MaxLedger /\ position \in 0 .. MaxLedger
      BY <1>2, <1>3, <3>3, <3>4
    <3>6. poll' = [at |-> "ledgers", latest |-> 0, contract |-> 0, from |-> position, to |-> to,
                   pages |-> 0]
      BY <2>2, <3>1 DEF NoPoll
    <3>7. poll' \in PollType
      BY <1>2, <3>5, <3>6, Numbers DEF PollType, Streams
    <3> QED
      BY <3>4, <3>5, <3>6, <3>7
  <2> QED
    BY <1>1, <2>1, <2>2
<1>6. checkpoint'[Horizon] = position /\ start'[Horizon] = first
  BY <1>1, <1>2, <1>4
<1>7. Vouches(Horizon)'
  <2>1. CASE checkpoint[Horizon] = 0
    <3>1. first = position
      BY <1>4, <2>1 DEF Placed
    <3> QED
      BY <1>3, <1>6, <3>1, StreamPlaced
  <2>2. CASE checkpoint[Horizon] # 0
    <3>1. first = start[Horizon]
      BY <1>4, <2>2 DEF Placed
    <3> QED
      BY <1>0, <1>1, <1>2, <1>3, <1>6, <2>2, <3>1, StreamStays DEF VouchedInv, chain
  <2> QED
    BY <2>1, <2>2
<1>8. /\ stored' \subseteq Items /\ stored \subseteq stored' /\ \A i \in stored' \ stored : i[1] = Horizon
      /\ skipped' \subseteq Streams \X Ledgers /\ skipped \subseteq skipped'
      /\ UNCHANGED <<chain, notices, bounds>>
  BY <1>0, <1>1 DEF IngestTypeOK
<1>9. start' = [start EXCEPT ![Horizon] = first]
  BY <1>1, <1>4
<1> QED
  BY <1>1, <1>3, <1>4, <1>5, <1>7, <1>8, <1>9, HorizonMoves

\* No ledgers, or the ledgers to h.
LEMMA GotLedgersStep ==
  ASSUME IngestIndInv, NEW h \in Ledgers, GotLedgers(h)
  PROVE  IngestIndInv'
<1>0. IngestTypeOK /\ PositionsInv /\ NoticesInv /\ VouchedInv
  BY DEF IngestIndInv
<1>1. /\ poll.at = "ledgers" /\ h \in poll.from .. poll.to
      /\ UNCHANGED <<chain, stored, notices, bounds>>
  BY DEF GotLedgers
<1>2. /\ poll.from < poll.to /\ poll.to <= head /\ poll.from \in Nat /\ poll.to \in Nat
      /\ head \in Nat /\ head <= MaxLedger /\ MaxLedger \in Nat /\ poll \in PollType
      /\ checkpoint \in [Streams -> 0 .. MaxLedger] /\ start \in [Streams -> 0 .. MaxLedger]
      /\ Horizon \in Streams
  BY <1>0, <1>1, Types, Numbers DEF PositionsInv
<1>3. CASE h = poll.from
  <2>1. /\ checkpoint' = [checkpoint EXCEPT ![Horizon] = poll.to]
        /\ skipped' = skipped \union ({Horizon} \X (poll.from + 1 .. poll.to))
        /\ start' = Continued(Horizon)
        /\ poll' = NoPoll
    BY <1>3 DEF GotLedgers
  <2>2. PICK first \in 0 .. MaxLedger :
          /\ Continued(Horizon) = [start EXCEPT ![Horizon] = first]
          /\ Continued(Horizon)[Horizon] = first
          /\ \/ checkpoint[Horizon] = poll.from /\ first = start[Horizon]
             \/ first = poll.from
    BY <1>0, HorizonContinued
  <2>3. start' = [start EXCEPT ![Horizon] = first] /\ start'[Horizon] = first
    BY <2>1, <2>2
  <2>4. /\ stored' \subseteq Items /\ stored \subseteq stored'
        /\ \A i \in stored' \ stored : i[1] = Horizon
    BY <1>0, <1>1 DEF IngestTypeOK
  <2>5. skipped' \subseteq Streams \X Ledgers /\ skipped \subseteq skipped'
    <3>1. \A l \in poll.from + 1 .. poll.to : l \in Ledgers
      BY <1>2 DEF Ledgers
    <3>2. skipped \subseteq Streams \X Ledgers
      BY <1>0 DEF IngestTypeOK
    <3> QED
      BY <1>2, <2>1, <3>1, <3>2
  <2>6. PICK point : point = poll.to /\ point \in 1 .. head
    BY <1>2
  <2>7. Vouches(Horizon)'
    <3> SUFFICES ASSUME NEW l \in Ledgers, NEW n \in 1 .. PerLedger,
                        Exists(Horizon, l, n), first < l, l <= poll.to
                 PROVE  <<Horizon, l>> \in skipped' \/ <<Horizon, l, n>> \in stored
      BY <1>1, <1>2, <2>1, <2>3 DEF Vouches, Exists, chain
    <3>1. Vouches(Horizon)
      BY <1>0, <1>2 DEF VouchedInv
    <3>2. CASE l <= poll.from
      <4>1. checkpoint[Horizon] = poll.from /\ first = start[Horizon]
        BY <1>2, <2>2, <3>2 DEF Ledgers
      <4> QED
        BY <2>5, <3>1, <3>2, <4>1 DEF Vouches
    <3>3. CASE l > poll.from
      <4>1. l \in poll.from + 1 .. poll.to
        BY <1>2, <3>3 DEF Ledgers
      <4> QED
        BY <2>1, <4>1
    <3> QED
      BY <1>2, <3>2, <3>3 DEF Ledgers
  <2>8. /\ poll' \in PollType /\ poll'.at # "page" /\ poll'.at \notin {"ledgers", "ledger"}
        /\ checkpoint' = [checkpoint EXCEPT ![Horizon] = point]
        /\ UNCHANGED <<chain, notices, bounds>>
    BY <1>1, <2>1, <2>6, BetweenPolls
  <2> QED
    BY <2>2, <2>3, <2>4, <2>5, <2>6, <2>7, <2>8, HorizonMoves
<1>4. CASE h # poll.from
  <2>1. /\ poll' = [poll EXCEPT !.at = "ledger", !.to = h]
        /\ UNCHANGED <<checkpoint, start, skipped>>
    BY <1>4 DEF GotLedgers
  <2>2. h \in 0 .. MaxLedger /\ poll.from < h /\ h <= head
    BY <1>1, <1>2, <1>4 DEF Ledgers
  <2>3. poll' \in PollType /\ poll'.at = "ledger" /\ poll'.from = poll.from /\ poll'.to = h
    BY <1>2, <2>1, <2>2 DEF PollType
  <2>4. IngestTypeOK'
    BY <1>0, <1>1, <2>1, <2>3 DEF IngestTypeOK, PollType, chain, bounds
  <2>5. PositionsInv' /\ NoticesInv'
    BY <1>0, <1>1, <2>1, <2>2, <2>3 DEF PositionsInv, NoticesInv, chain, bounds
  <2>6. VouchedInv'
    BY <1>0, <1>1, <2>1, StreamsStay DEF chain
  <2> QED
    BY <2>4, <2>5, <2>6 DEF IngestIndInv
<1> QED
  BY <1>3, <1>4

LEMMA GotLedgerStep ==
  ASSUME IngestIndInv, GotLedger
  PROVE  IngestIndInv'
<1>0. IngestTypeOK /\ PositionsInv /\ NoticesInv /\ VouchedInv
  BY DEF IngestIndInv
<1>l. PICK l : l = poll.from + 1
  OBVIOUS
<1>1. /\ poll.at = "ledger"
      /\ stored' = stored \union {<<Horizon, l, 1>>}
      /\ checkpoint' = [checkpoint EXCEPT ![Horizon] = l]
      /\ start' = Continued(Horizon)
      /\ poll' = IF l = poll.to THEN NoPoll ELSE [poll EXCEPT !.from = l]
      /\ UNCHANGED <<chain, notices, skipped, bounds>>
  BY <1>l DEF GotLedger
<1>2. /\ poll.from < poll.to /\ poll.to <= head /\ poll.from \in Nat /\ poll.to \in Nat
      /\ head \in Nat /\ head <= MaxLedger /\ MaxLedger \in Nat /\ poll \in PollType
      /\ checkpoint \in [Streams -> 0 .. MaxLedger] /\ start \in [Streams -> 0 .. MaxLedger]
      /\ Horizon \in Streams
  BY <1>0, <1>1, Types, Numbers DEF PositionsInv
<1>3. l \in 1 .. head /\ l \in Ledgers /\ l \in 0 .. MaxLedger /\ l <= poll.to
  BY <1>l, <1>2 DEF Ledgers
<1>4. PICK first \in 0 .. MaxLedger :
        /\ Continued(Horizon) = [start EXCEPT ![Horizon] = first]
        /\ Continued(Horizon)[Horizon] = first
        /\ \/ checkpoint[Horizon] = poll.from /\ first = start[Horizon]
           \/ first = poll.from
  BY <1>0, HorizonContinued
<1>5. start' = [start EXCEPT ![Horizon] = first] /\ start'[Horizon] = first
  BY <1>1, <1>4
<1>6. /\ stored' \subseteq Items /\ stored \subseteq stored'
      /\ \A i \in stored' \ stored : i[1] = Horizon
  <2>1. <<Horizon, l, 1>> \in Items /\ stored \subseteq Items
    BY <1>0, <1>3 DEF Items, IngestTypeOK
  <2> QED
    BY <1>1, <2>1
<1>7. skipped' \subseteq Streams \X Ledgers /\ skipped \subseteq skipped'
  BY <1>0, <1>1 DEF IngestTypeOK
<1>8. Vouches(Horizon)'
  <2> SUFFICES ASSUME NEW k \in Ledgers, NEW n \in 1 .. PerLedger,
                      Exists(Horizon, k, n), first < k, k <= l
               PROVE  <<Horizon, k>> \in skipped \/ <<Horizon, k, n>> \in stored'
    BY <1>1, <1>2, <1>5 DEF Vouches, Exists, chain
  <2>1. Vouches(Horizon) /\ n = 1
    BY <1>0, <1>2 DEF VouchedInv, Exists
  <2>2. CASE k <= poll.from
    <3>1. checkpoint[Horizon] = poll.from /\ first = start[Horizon]
      BY <1>2, <1>4, <2>2 DEF Ledgers
    <3> QED
      BY <1>6, <2>1, <2>2, <3>1 DEF Vouches
  <2>3. CASE k = l
    BY <1>1, <2>1, <2>3
  <2> QED
    BY <1>l, <1>2, <2>2, <2>3 DEF Ledgers
<1>9. /\ poll' \in PollType /\ poll'.at # "page"
      /\ (poll'.at \in {"ledgers", "ledger"} => poll'.from < poll'.to /\ poll'.to <= head)
  <2>1. CASE l = poll.to
    BY <1>1, <2>1, BetweenPolls
  <2>2. CASE l # poll.to
    <3>1. poll' = [poll EXCEPT !.from = l]
      BY <1>1, <2>2
    <3>2. poll' \in PollType /\ poll'.at = "ledger" /\ poll'.from = l /\ poll'.to = poll.to
      BY <1>1, <1>2, <1>3, <3>1 DEF PollType
    <3> QED
      BY <1>2, <1>3, <2>2, <3>2
  <2> QED
    BY <2>1, <2>2
<1>10. UNCHANGED <<chain, notices, bounds>> /\ checkpoint' = [checkpoint EXCEPT ![Horizon] = l]
  BY <1>1
<1> QED
  BY <1>3, <1>4, <1>5, <1>6, <1>7, <1>8, <1>9, <1>10, HorizonMoves

\* A crash moves no checkpoint; what was written before it stays.
LEMMA AfterCrash ==
  ASSUME IngestIndInv, Crashed, stored' \subseteq Items, stored \subseteq stored',
         notices' \in [Items -> Nat], NoticesInv'
  PROVE  IngestIndInv'
<1>0. IngestTypeOK /\ PositionsInv /\ VouchedInv
  BY DEF IngestIndInv
<1>1. /\ crashes < MaxCrashes /\ crashes' = crashes + 1 /\ poll' = NoPoll
      /\ UNCHANGED <<head, emitted, checkpoint, start, skipped, resets>>
  BY DEF Crashed, ProcessDies, chain, ingestHistory
<1>2. crashes' \in 0 .. MaxCrashes
  BY <1>0, <1>1, Numbers DEF IngestTypeOK
<1>3. IngestTypeOK'
  BY <1>0, <1>1, <1>2, BetweenPolls DEF IngestTypeOK, PollType
<1>4. PositionsInv'
  BY <1>0, <1>1, BetweenPolls DEF PositionsInv
<1>5. VouchedInv'
  BY <1>0, <1>1, StreamsStay
<1> QED
  BY <1>3, <1>4, <1>5 DEF IngestIndInv

LEMMA CrashCounted ==
  ASSUME IngestTypeOK, Crashed
  PROVE  crashes' # 0
BY Numbers DEF IngestTypeOK, Crashed, ProcessDies

LEMMA CrashStep ==
  ASSUME IngestIndInv, IngestCrash
  PROVE  IngestIndInv'
<1>1. Crashed /\ stored' = stored /\ notices' = notices
  BY DEF IngestCrash
<1>2. crashes' # 0
  BY <1>1, CrashCounted DEF IngestIndInv
<1>3. NoticesInv'
  BY <1>1, <1>2 DEF IngestIndInv, NoticesInv
<1>4. stored' \subseteq Items /\ notices' \in [Items -> Nat]
  BY <1>1 DEF IngestIndInv, IngestTypeOK
<1> QED
  BY <1>1, <1>3, <1>4, AfterCrash

LEMMA CrashInPageStep ==
  ASSUME IngestIndInv, NEW n \in 1 .. PageSize, NEW announced \in BOOLEAN, CrashInPage(n, announced)
  PROVE  IngestIndInv'
<1>0. IngestTypeOK /\ PositionsInv /\ NoticesInv
  BY DEF IngestIndInv
<1>1. PICK page, done : /\ page = Begun(n) /\ done = Done(n, announced)
                        /\ page = FirstOf(n, PageOf(poll.contract, poll.from))
                        /\ done = IF announced THEN page ELSE FirstOf(n - 1, page)
  BY DEF Begun, Done
<1>2. poll.at = "page" /\ Crashed /\ Written(page, Announced(done))
  BY <1>1 DEF CrashInPage
<1>3. PICK answer : answer = PageOf(poll.contract, poll.from)
  OBVIOUS
<1>4. answer \subseteq Items /\ \A i \in answer : i[1] # Horizon
  BY <1>0, <1>2, <1>3, AnswerIs
<1>5. page \subseteq answer /\ done \subseteq page
  BY <1>1, <1>3 DEF FirstOf
<1>6. crashes' # 0
  BY <1>0, <1>2, CrashCounted
<1>7. /\ stored' \subseteq Items /\ stored \subseteq stored'
      /\ notices' \in [Items -> Nat]
      /\ NoticesInv'
  <2>1. page \in SUBSET Items /\ done \in SUBSET page /\ \A i \in page : i[1] # Horizon
    BY <1>4, <1>5
  <2> QED
    BY <1>0, <1>2, <1>6, <2>1, WrittenIs
<1> QED
  BY <1>2, <1>7, AfterCrash

LEMMA CrashInLedgerStep ==
  ASSUME IngestIndInv, CrashInLedger
  PROVE  IngestIndInv'
<1>0. IngestTypeOK /\ PositionsInv /\ NoticesInv
  BY DEF IngestIndInv
<1>l. PICK l : l = poll.from + 1
  OBVIOUS
<1>1. /\ poll.at = "ledger" /\ Crashed /\ notices' = notices
      /\ stored' = stored \union {<<Horizon, l, 1>>}
  BY <1>l DEF CrashInLedger
<1>2. l \in Ledgers
  BY <1>0, <1>l, <1>1, Types, Numbers DEF PositionsInv, Ledgers
<1>3. stored' \subseteq Items /\ stored \subseteq stored' /\ notices' \in [Items -> Nat]
  BY <1>0, <1>1, <1>2 DEF Items, IngestTypeOK
<1>4. crashes' # 0
  BY <1>0, <1>1, CrashCounted
<1>5. NoticesInv'
  BY <1>0, <1>1, <1>4 DEF NoticesInv
<1> QED
  BY <1>1, <1>3, <1>5, AfterCrash

\* The operator places a stream, whatever the poll is doing.
LEMMA ResetStep ==
  ASSUME IngestIndInv, NEW s \in Streams, NEW l \in 0 .. head, ResetStream(s, l)
  PROVE  IngestIndInv'
<1>0. IngestTypeOK /\ PositionsInv /\ NoticesInv /\ VouchedInv
  BY DEF IngestIndInv
<1>1. /\ resets < MaxResets /\ resets' = resets + 1
      /\ checkpoint' = [checkpoint EXCEPT ![s] = l]
      /\ start' = [start EXCEPT ![s] = l]
      /\ UNCHANGED <<head, emitted, stored, notices, poll, skipped, crashes>>
  BY DEF ResetStream, chain
<1>2. /\ l \in 0 .. MaxLedger /\ l <= head /\ l \in Nat
      /\ checkpoint \in [Streams -> 0 .. MaxLedger] /\ start \in [Streams -> 0 .. MaxLedger]
  <2>1. head \in 1 .. MaxLedger /\ MaxLedger \in Nat
    BY <1>0, Types, Numbers
  <2> QED
    BY <1>0, <2>1, Types
<1>3. IngestTypeOK'
  <2>1. checkpoint' \in [Streams -> 0 .. MaxLedger] /\ start' \in [Streams -> 0 .. MaxLedger]
    BY <1>1, <1>2
  <2>2. resets' \in 0 .. MaxResets
    BY <1>0, <1>1, Numbers DEF IngestTypeOK
  <2> QED
    BY <1>0, <1>1, <2>1, <2>2 DEF IngestTypeOK
<1>4. PositionsInv' /\ NoticesInv'
  BY <1>0, <1>1, <1>2 DEF PositionsInv, NoticesInv
<1>5. VouchedInv'
  <2> SUFFICES ASSUME NEW r \in Streams PROVE Vouches(r)'
    BY DEF VouchedInv
  <2>1. CASE r = s
    BY <1>1, <1>2, <2>1, StreamPlaced
  <2>2. CASE r # s
    BY <1>0, <1>1, <1>2, <2>2, StreamStays DEF VouchedInv
  <2> QED
    BY <2>1, <2>2
<1> QED
  BY <1>3, <1>4, <1>5 DEF IngestIndInv

LEMMA IngestNextInv == IngestIndInv /\ [IngestNext]_ingestVars => IngestIndInv'
<1> SUFFICES ASSUME IngestIndInv, [IngestNext]_ingestVars PROVE IngestIndInv'
  OBVIOUS
<1>1. CASE UNCHANGED ingestVars
  <2>1. UNCHANGED <<head, emitted, stored, notices, checkpoint, poll, start, skipped, crashes, resets>>
    BY <1>1 DEF ingestVars, chain, tables, ingestHistory, bounds
  <2>2. IngestTypeOK'
    BY <2>1 DEF IngestIndInv, IngestTypeOK
  <2>3. PositionsInv' /\ NoticesInv'
    BY <2>1 DEF IngestIndInv, PositionsInv, NoticesInv
  <2>4. VouchedInv'
    BY <2>1, StreamsStay DEF IngestIndInv
  <2> QED
    BY <2>2, <2>3, <2>4 DEF IngestIndInv
<1>2. CASE IngestNext
  BY <1>2, CloseLedgerStep, PollStartStep, GotHeadStep, GotNoPageStep, GotPageStep,
     GotHorizonHeadStep, GotLedgersStep, GotLedgerStep, FailStep, CrashStep, CrashInPageStep,
     CrashInLedgerStep, ResetStep
  DEF IngestNext
<1> QED
  BY <1>1, <1>2

LEMMA Invariant == IngestSpec => []IngestIndInv
  BY IngestInitInv, IngestNextInv, PTL DEF IngestSpec

-----------------------------------------------------------------------------
(* What the run checks.                                                     *)

LEMMA NoGapFollows ==
  ASSUME IngestTypeOK, VouchedInv
  PROVE  NoGap
<1> SUFFICES ASSUME NEW i \in Missing(MaxLedger), ~(i[2] > checkpoint[i[1]])
             PROVE  FALSE
  BY DEF NoGap
<1>1. PICK s \in Streams : i \in OnChain(s, MaxLedger)
  BY DEF Missing
<1>2. i[2] > start[i[1]] /\ <<i[1], i[2]>> \notin skipped /\ i \notin stored
  BY DEF Missing
<1>3. PICK l \in Ledgers, n \in 1 .. PerLedger : i = <<s, l, n>> /\ Exists(s, l, n)
  <2>1. CASE s = Horizon
    BY <1>1, <2>1, Numbers DEF OnChain, Exists, Ledgers
  <2>2. CASE s # Horizon
    <3>1. i \in Items /\ i[1] = s /\ i[3] <= emitted[s][i[2]]
      BY <1>1, <2>2 DEF OnChain
    <3>2. PICK c \in 1 .. Contracts, l \in Ledgers, n \in 1 .. PerLedger : i = <<c, l, n>>
      BY <2>2, <3>1 DEF Items
    <3> QED
      BY <2>2, <3>1, <3>2 DEF Exists
  <2> QED
    BY <2>1, <2>2
<1>4. i[1] = s /\ i[2] = l /\ l \in Nat /\ checkpoint[s] \in Nat /\ start[s] \in Nat
  BY <1>3, Types DEF Ledgers
<1>5. start[s] < l /\ l <= checkpoint[s]
  BY <1>2, <1>4
<1> QED
  BY <1>2, <1>3, <1>4, <1>5 DEF VouchedInv, Vouches

\* A checkpoint vouches for every ledger between the place where pollOnce or
\* POST /admin/replay put its stream, whichever wrote it last, and itself: what
\* happened there is stored, but for the ledgers that the code itself passes, for
\* any configuration of the loop and any failures, crashes and resets.
THEOREM CheckpointsVouch == IngestSpec => []NoGap
<1>1. IngestIndInv => NoGap
  BY NoGapFollows DEF IngestIndInv
<1> QED
  BY <1>1, Invariant, PTL

\* The rows, checkpoints and the poll keep their types; INSERT OR IGNORE lets no
\* event be announced twice, and only a crash between the insertion and enqueue
\* leaves a stored event unannounced.
THEOREM AnnouncementsCounted == IngestSpec => []IngestInv
<1>1. IngestIndInv => AnnouncedOnce
  <2> SUFFICES ASSUME NoticesInv PROVE AnnouncedOnce
    BY DEF IngestIndInv
  <2> QED
    BY DEF NoticesInv, AnnouncedOnce
<1>2. IngestIndInv => IngestInv
  BY <1>1 DEF IngestIndInv, IngestInv
<1> QED
  BY <1>2, Invariant, PTL

-----------------------------------------------------------------------------
(* The outbox: the inductive invariant.                                     *)

\* A round holds deliveries that are enqueued and have attempts left, as far
\* as it has read, and it has read no attempt that was not made.
RoundsInv ==
  \A r \in Rounds :
    /\ round[r].posting \notin round[r].todo
    /\ \A d \in Held(r) :
         /\ round[r].seen[d] < MaxAttempts
         /\ round[r].seen[d] <= posts[d]
         /\ delivery[d].status # "absent"
         /\ round[r].posting = d => round[r].seen[d] < posts[d]

\* A row counts attempts that were made.  It goes with its subscription only.
RowsInv ==
  \A d \in Deliveries :
    /\ delivery[d].attempts <= posts[d]
    /\ delivery[d].status = "absent" => posts[d] = 0
    /\ delivery[d].status # "absent" => d[2] \in recorded
    /\ delivery[d].status = "pending" => delivery[d].attempts < MaxAttempts
    /\ delivery[d].status = "failed" => posts[d] >= MaxAttempts
    /\ delivery[d].status = "gone" => subscription[d[1]] = "deleted"

\* Some round waits for the answer to a POST of d.
Posting(d) == \E r \in Rounds : round[r].posting = d

\* A delivery that no two rounds ever held is held by a round that has read
\* its row as it is; its posts are counted, but for the ones a crash lost and
\* the one that is not answered yet.
LoneInv ==
  \A d \in Deliveries \ shared :
    /\ \A q, r \in Rounds : d \in Held(q) /\ d \in Held(r) => q = r
    /\ \A r \in Rounds : d \in Held(r) =>
         /\ delivery[d].status \in {"pending", "gone"}
         /\ delivery[d].status = "pending" => round[r].seen[d] = delivery[d].attempts
    /\ delivery[d].status = "pending" =>
         /\ posts[d] <= delivery[d].attempts + lost[d] + 1
         /\ ~Posting(d) => posts[d] <= delivery[d].attempts + lost[d]
    /\ posts[d] <= MaxAttempts + lost[d]

OutboxIndInv == OutboxTypeOK /\ RoundsInv /\ RowsInv /\ LoneInv

-----------------------------------------------------------------------------
(* Rows and rounds.                                                         *)

LEMMA NotNone == \A d \in Deliveries : d # None
BY DEF Deliveries, None

LEMMA HeldBy ==
  ASSUME NEW r \in Rounds, NEW d \in Deliveries
  PROVE  d \in Held(r) <=> d \in round[r].todo \/ d = round[r].posting
BY NotNone DEF Held

LEMMA AtLeastZero ==
  ASSUME NEW n \in Int
  PROVE  Max({0, n}) = IF n >= 0 THEN n ELSE 0
<1>1. \E m \in {0, n} : \A k \in {0, n} : m >= k
  OBVIOUS
<1> QED
  BY <1>1 DEF Max

LEMMA AtMost ==
  ASSUME NEW m \in Int, NEW n \in Int
  PROVE  Min({m, n}) = IF m <= n THEN m ELSE n
<1>1. \E k \in {m, n} : \A l \in {m, n} : k =< l
  OBVIOUS
<1> QED
  BY <1>1 DEF Min

LEMMA PowerType ==
  ASSUME NEW n \in Nat
  PROVE  2 ^ n \in Nat
<1>1. IsFiniteSet(1..n) /\ Cardinality(1..n) = n
  BY FS_Interval
<1>2. IsFiniteSet(SUBSET (1..n)) /\ Cardinality(SUBSET (1..n)) = 2 ^ n
  BY <1>1, FS_SUBSET
<1> QED
  BY <1>2, FS_CardinalityType

LEMMA BackoffType ==
  ASSUME NEW attempts \in Nat \ {0}
  PROVE  Backoff(attempts) \in 0..MaxBackoff
<1> DEFINE p == 2 ^ (attempts - 1)
<1>1. p \in Nat
  <2>1. attempts - 1 \in Nat
    OBVIOUS
  <2> QED
    BY <2>1, PowerType
<1>2. MaxBackoff \in Nat /\ BaseBackoff \in Nat
  BY OutboxAssumption
<1>3. Backoff(attempts) = Min({MaxBackoff, BaseBackoff * p})
  BY DEF Backoff
<1> HIDE DEF p
<1>4. BaseBackoff * p \in Nat
  BY <1>1, <1>2
<1> QED
  BY <1>2, <1>3, <1>4, AtMost

Rows == [status : Statuses, attempts : 0 .. MaxAttempts, delay : 0 .. MaxBackoff]

\* What a refusal leaves of a row that counts the attempts of an earlier round.
LEMMA RefusedRow ==
  ASSUME NEW row \in Rows, NEW n \in 0 .. MaxAttempts - 1, NEW age \in 0 .. MaxBackoff
  PROVE  /\ Refused(row, n + 1, age) \in Rows
         /\ Refused(row, n + 1, age).attempts = n + 1
         /\ n + 1 >= MaxAttempts => Refused(row, n + 1, age).status = "failed"
         /\ n + 1 < MaxAttempts => Refused(row, n + 1, age).status = row.status
<1>1. MaxAttempts \in Nat /\ MaxBackoff \in Nat
  BY OutboxAssumption
<1>2. Backoff(n + 1) \in 0 .. MaxBackoff
  BY <1>1, BackoffType
<1>3. Max({0, Backoff(n + 1) - age}) \in 0 .. MaxBackoff
  <2>1. Backoff(n + 1) - age \in Int
    BY <1>1, <1>2
  <2> QED
    BY <1>1, <1>2, <2>1, AtLeastZero
<1>4. n + 1 \in 0 .. MaxAttempts /\ "failed" \in Statuses
  BY <1>1 DEF Statuses
<1> DEFINE delay == Max({0, Backoff(n + 1) - age})
<1>5. PICK k, then : k = n + 1 /\ then = delay
  OBVIOUS
<1> HIDE DEF delay
<1>6. row = [status |-> row.status, attempts |-> row.attempts, delay |-> row.delay]
        /\ row.status \in Statuses /\ row.attempts \in 0 .. MaxAttempts
        /\ row.delay \in 0 .. MaxBackoff
  BY DEF Rows
<1>7. CASE k >= MaxAttempts
  <2>1. Refused(row, k, age) = [status |-> "failed", attempts |-> k, delay |-> row.delay]
    BY <1>6, <1>7 DEF Refused, LastAttempt, Failed
  <2> QED
    BY <1>1, <1>4, <1>5, <1>6, <1>7, <2>1 DEF Rows
<1>8. CASE ~(k >= MaxAttempts)
  <2>1. Refused(row, k, age) = [status |-> row.status, attempts |-> k, delay |-> then]
    BY <1>5, <1>6, <1>8 DEF Refused, LastAttempt, Retried, delay
  <2>2. k < MaxAttempts
    BY <1>1, <1>4, <1>5, <1>8
  <2> QED
    BY <1>1, <1>3, <1>4, <1>5, <1>6, <1>8, <2>1, <2>2 DEF Rows, delay
<1> QED
  BY <1>7, <1>8

\* Round r posts what is in sent, one delivery at most, and keeps some of todo.
GoesOn(r, todo, sent) ==
  /\ round' \in [Rounds -> RoundStates]
  /\ \A p \in Rounds \ {r} : round'[p] = round[p]
  /\ round'[r].todo \subseteq todo \ sent
  /\ round'[r].posting \notin round'[r].todo
  /\ \A d \in Deliveries : round'[r].posting = d <=> d \in sent
  /\ posts' \in [Deliveries -> Nat]
  /\ \A d \in Deliveries : posts'[d] = IF d \in sent THEN posts[d] + 1 ELSE posts[d]

\* A round that goes on posts a delivery of an active subscription, and what it
\* has read stays.
LEMMA ProceedStep ==
  ASSUME round \in [Rounds -> RoundStates], posts \in [Deliveries -> Nat],
         NEW r \in Rounds, NEW q \in RoundStates, Proceed(r, q)
  PROVE  \E sent \in SUBSET {d \in q.todo : subscription[d[1]] = "active"} :
           /\ GoesOn(r, q.todo, sent)
           /\ \A d \in round'[r].todo \cup sent : round'[r].seen[d] = q.seen[d]
<1> DEFINE live == {d \in q.todo : subscription[d[1]] = "active"}
<1>1. live \subseteq Deliveries
  BY DEF RoundStates
<1>2. CASE live = {}
  <2>1. round' = [round EXCEPT ![r] = Idle] /\ posts' = posts
    BY <1>2 DEF Proceed
  <2>2. Idle \in RoundStates
    BY OutboxAssumption DEF Idle, RoundStates
  <2>3. /\ round' \in [Rounds -> RoundStates]
        /\ round'[r] = Idle
        /\ \A p \in Rounds \ {r} : round'[p] = round[p]
    BY <2>1, <2>2
  <2>4. Idle.todo = {} /\ \A d \in Deliveries : Idle.posting # d
    BY NotNone DEF Idle
  <2> WITNESS {} \in SUBSET live
  <2> QED
    BY <2>1, <2>3, <2>4 DEF GoesOn
<1>3. CASE live # {}
  <2>1. PICK d \in live :
          /\ round' = [round EXCEPT ![r] =
               [q EXCEPT !.posting = d, !.todo = live \ {d}, !.waited = 0]]
          /\ posts' = [posts EXCEPT ![d] = @ + 1]
    BY <1>3 DEF Proceed
  <2> DEFINE next == [q EXCEPT !.posting = d, !.todo = live \ {d}, !.waited = 0]
  <2>2. next \in RoundStates /\ next.posting = d /\ next.todo = live \ {d} /\ next.seen = q.seen
    <3>1. 0 \in 0 .. Timeout /\ d \in Deliveries /\ live \ {d} \in SUBSET Deliveries
      BY <1>1, OutboxAssumption
    <3> HIDE DEF live
    <3> QED
      BY <3>1 DEF RoundStates
  <2>3. /\ round' \in [Rounds -> RoundStates]
        /\ round'[r] = next
        /\ \A p \in Rounds \ {r} : round'[p] = round[p]
    BY <2>1, <2>2
  <2>4. /\ posts' \in [Deliveries -> Nat]
        /\ \A c \in Deliveries : posts'[c] = IF c \in {d} THEN posts[c] + 1 ELSE posts[c]
    BY <1>1, <2>1
  <2> WITNESS {d} \in SUBSET live
  <2> HIDE DEF next
  <2> QED
    BY <2>2, <2>3, <2>4 DEF GoesOn
<1> QED
  BY <1>2, <1>3

\* dispatchOnce takes due deliveries, with the attempts of their rows.
LEMMA DispatchStep ==
  ASSUME OutboxTypeOK, NEW r \in Rounds, Dispatch(r)
  PROVE  \E taken \in SUBSET {d \in Deliveries : Due(d)} :
         \E sent \in SUBSET {d \in taken : subscription[d[1]] = "active"} :
           /\ GoesOn(r, taken, sent)
           /\ \A d \in round'[r].todo \cup sent : round'[r].seen[d] = delivery[d].attempts
           /\ shared' = shared \union (taken \intersect UNION {Held(p) : p \in Rounds})
<1> DEFINE due == {d \in Deliveries : Due(d)}
<1>1. PICK taken \in SUBSET due :
        /\ Proceed(r, [Idle EXCEPT !.todo = taken,
                         !.seen = [d \in Deliveries |->
                                     IF d \in taken THEN delivery[d].attempts ELSE 0]])
        /\ shared' = shared \union (taken \intersect UNION {Held(p) : p \in Rounds})
  BY DEF Dispatch, kSubset
<1> DEFINE seen == [d \in Deliveries |-> IF d \in taken THEN delivery[d].attempts ELSE 0]
           q == [Idle EXCEPT !.todo = taken, !.seen = seen]
<1>2. q \in RoundStates /\ q.todo = taken /\ q.seen = seen
  <2>1. seen \in [Deliveries -> 0 .. MaxAttempts]
    BY OutboxAssumption DEF OutboxTypeOK
  <2>2. taken \in SUBSET Deliveries /\ 0 \in 0 .. MaxBackoff /\ 0 \in 0 .. Timeout
    BY OutboxAssumption
  <2> HIDE DEF seen
  <2> QED
    BY <2>1, <2>2 DEF Idle, RoundStates
<1>3. round \in [Rounds -> RoundStates] /\ posts \in [Deliveries -> Nat]
  BY DEF OutboxTypeOK
<1>4. Proceed(r, q)
  BY <1>1
<1> HIDE DEF q
<1>5. PICK sent \in SUBSET {d \in q.todo : subscription[d[1]] = "active"} :
           /\ GoesOn(r, q.todo, sent)
           /\ \A d \in round'[r].todo \cup sent : round'[r].seen[d] = q.seen[d]
  BY <1>2, <1>3, <1>4, ProceedStep
<1>6. \A d \in round'[r].todo \cup sent : round'[r].seen[d] = delivery[d].attempts
  <2> SUFFICES ASSUME NEW d \in round'[r].todo \cup sent
               PROVE  round'[r].seen[d] = delivery[d].attempts
    OBVIOUS
  <2>1. d \in taken /\ d \in Deliveries
    BY <1>2, <1>5 DEF GoesOn
  <2> QED
    BY <1>2, <1>5, <2>1
<1> QED
  BY <1>1, <1>2, <1>5, <1>6

\* An answer settles what the round posted, or counts the attempt, and the
\* round goes on.
LEMMA AnswerStep ==
  ASSUME OutboxTypeOK, NEW r \in Rounds, NEW ok \in BOOLEAN, Answer(r, ok)
  PROVE  \E posted \in Deliveries :
         \E sent \in SUBSET {d \in round[r].todo : subscription[d[1]] = "active"} :
           /\ round[r].posting = posted
           /\ delivery' = [delivery EXCEPT ![posted] =
                IF ~Stored(delivery, posted) THEN delivery[posted]
                ELSE IF ok THEN Delivered(delivery[posted])
                ELSE Refused(delivery[posted], round[r].seen[posted] + 1, round[r].age)]
           /\ GoesOn(r, round[r].todo, sent)
           /\ \A d \in (round'[r].todo \cup sent) \ {posted} :
                round'[r].seen[d] = round[r].seen[d]
<1>1. round \in [Rounds -> RoundStates] /\ posts \in [Deliveries -> Nat]
  BY DEF OutboxTypeOK
<1> DEFINE posted == round[r].posting
           q == [round[r] EXCEPT !.seen[posted] = 0]
<1>2. posted \in Deliveries
  BY <1>1 DEF Answer, RoundStates
<1>3. /\ q \in RoundStates /\ q.todo = round[r].todo
      /\ \A d \in Deliveries \ {posted} : q.seen[d] = round[r].seen[d]
  <2>1. round[r] \in RoundStates
    BY <1>1
  <2>2. 0 \in 0 .. MaxAttempts
    BY OutboxAssumption
  <2>3. [round[r].seen EXCEPT ![posted] = 0] \in [Deliveries -> 0 .. MaxAttempts]
    BY <1>2, <2>1, <2>2 DEF RoundStates
  <2> HIDE DEF posted
  <2> QED
    BY <1>2, <2>1, <2>2, <2>3 DEF RoundStates
<1>4. Proceed(r, q)
  BY DEF Answer
<1> HIDE DEF q
<1>5. PICK sent \in SUBSET {d \in q.todo : subscription[d[1]] = "active"} :
           /\ GoesOn(r, q.todo, sent)
           /\ \A d \in round'[r].todo \cup sent : round'[r].seen[d] = q.seen[d]
  BY <1>1, <1>3, <1>4, ProceedStep
<1>6. \A d \in (round'[r].todo \cup sent) \ {posted} : round'[r].seen[d] = round[r].seen[d]
  <2> SUFFICES ASSUME NEW d \in (round'[r].todo \cup sent) \ {posted}
               PROVE  round'[r].seen[d] = round[r].seen[d]
    OBVIOUS
  <2>1. d \in Deliveries \ {posted}
    <3>1. d \in round[r].todo
      BY <1>3, <1>5 DEF GoesOn
    <3> QED
      BY <1>1, <3>1 DEF RoundStates
  <2> QED
    BY <1>3, <1>5, <2>1
<1>7. delivery' = [delivery EXCEPT ![posted] =
        IF ~Stored(delivery, posted) THEN delivery[posted]
        ELSE IF ok THEN Delivered(delivery[posted])
        ELSE Refused(delivery[posted], round[r].seen[posted] + 1, round[r].age)]
  BY DEF Answer
<1> HIDE DEF posted
<1>8. round[r].posting = posted
  BY DEF posted
<1> QED
  BY <1>2, <1>3, <1>5, <1>6, <1>7, <1>8

-----------------------------------------------------------------------------
(* The invariant.                                                           *)

LEMMA RowType ==
  ASSUME OutboxTypeOK, NEW d \in Deliveries
  PROVE  /\ delivery[d] \in Rows
         /\ delivery[d].attempts \in Nat /\ delivery[d].status \in Statuses
         /\ posts[d] \in Nat /\ lost[d] \in Nat
<1>1. delivery[d] \in Rows /\ posts[d] \in Nat /\ lost[d] \in Nat
  BY DEF OutboxTypeOK, Rows
<1> QED
  BY <1>1, OutboxAssumption DEF Rows

LEMMA RoundType ==
  ASSUME OutboxTypeOK, NEW r \in Rounds
  PROVE  /\ round[r].todo \subseteq Deliveries
         /\ round[r].posting \in Deliveries \union {None}
         /\ \A d \in Deliveries : round[r].seen[d] \in Nat
<1>1. round[r] \in RoundStates
  BY DEF OutboxTypeOK
<1> QED
  BY <1>1, OutboxAssumption DEF RoundStates

LEMMA OutboxInitInv == OutboxInit => OutboxIndInv
<1> SUFFICES ASSUME OutboxInit PROVE OutboxIndInv
  OBVIOUS
<1>1. OutboxTypeOK
  <2>1. Idle \in RoundStates
    BY OutboxAssumption DEF Idle, RoundStates
  <2>2. Absent \in Rows
    BY OutboxAssumption DEF Absent, Rows, Statuses
  <2>3. Interval \in 0 .. Interval /\ 0 \in 0 .. MaxCrashes
    BY OutboxAssumption, ProcessAssumption
  <2> QED
    BY <2>1, <2>2, <2>3 DEF OutboxInit, OutboxTypeOK, Rows
<1>2. \A r \in Rounds : Held(r) = {}
  BY DEF OutboxInit, Held, Idle
<1>3. RoundsInv
  BY <1>2, NotNone DEF OutboxInit, RoundsInv, Idle
<1>4. \A d \in Deliveries : delivery[d] = Absent /\ posts[d] = 0 /\ lost[d] = 0
  BY DEF OutboxInit
<1>5. RowsInv
  BY <1>4, OutboxAssumption DEF RowsInv, Absent
<1>6. LoneInv
  BY <1>2, <1>4, OutboxAssumption DEF LoneInv, Absent
<1> QED
  BY <1>1, <1>3, <1>5, <1>6 DEF OutboxIndInv

\* A step that changes neither what rows count nor what rounds hold.
LEMMA Unmoved ==
  ASSUME OutboxIndInv, OutboxTypeOK', UNCHANGED <<recorded, posts, lost, shared>>,
         \A r \in Rounds : /\ round'[r].posting = round[r].posting
                           /\ round'[r].todo = round[r].todo
                           /\ round'[r].seen = round[r].seen,
         \A d \in Deliveries : /\ delivery'[d].status = delivery[d].status
                               /\ delivery'[d].attempts = delivery[d].attempts
                               /\ delivery[d].status = "gone" => subscription'[d[1]] = "deleted"
  PROVE  OutboxIndInv'
<1>1. \A r \in Rounds : Held(r)' = Held(r)
  BY DEF Held
<1>2. RoundsInv'
  <2> SUFFICES ASSUME NEW r \in Rounds
               PROVE  /\ round'[r].posting \notin round'[r].todo
                      /\ \A d \in Held(r) :
                           /\ round'[r].seen[d] < MaxAttempts
                           /\ round'[r].seen[d] <= posts[d]
                           /\ delivery'[d].status # "absent"
                           /\ round'[r].posting = d => round'[r].seen[d] < posts[d]
    BY <1>1 DEF RoundsInv
  <2>1. Held(r) \subseteq Deliveries
    BY RoundType DEF OutboxIndInv, Held
  <2> QED
    BY <2>1 DEF OutboxIndInv, RoundsInv
<1>3. RowsInv'
  BY DEF OutboxIndInv, RowsInv
<1>4. LoneInv'
  <2>1. \A d : Posting(d)' <=> Posting(d)
    BY DEF Posting
  <2> QED
    BY <1>1, <2>1 DEF OutboxIndInv, LoneInv
<1> QED
  BY <1>2, <1>3, <1>4 DEF OutboxIndInv

LEMMA CreateInv ==
  ASSUME OutboxIndInv, NEW s \in Subscriptions, NEW active \in BOOLEAN, CreateSubscription(s, active)
  PROVE  OutboxIndInv'
<1>1. OutboxTypeOK'
  BY DEF OutboxIndInv, OutboxTypeOK, CreateSubscription, outboxHistory
<1>2. \A d \in Deliveries : delivery[d].status = "gone" => subscription'[d[1]] = "deleted"
  BY DEF OutboxIndInv, OutboxTypeOK, RowsInv, CreateSubscription, Deliveries
<1> QED
  BY <1>1, <1>2, Unmoved DEF CreateSubscription, outboxHistory

LEMMA TickInv ==
  ASSUME OutboxIndInv, Tick
  PROVE  OutboxIndInv'
<1> USE DEF OutboxIndInv
<1>1. timer' \in 0 .. Interval
  <2>1. Interval \in Nat /\ timer \in 0 .. Interval /\ timer' = Max({0, timer - 1})
    BY OutboxAssumption DEF OutboxTypeOK, Tick
  <2>2. timer - 1 \in Int
    BY <2>1
  <2> QED
    BY <2>1, <2>2, AtLeastZero
<1>2. \A d \in Deliveries :
        /\ delivery'[d] \in Rows
        /\ delivery'[d].status = delivery[d].status
        /\ delivery'[d].attempts = delivery[d].attempts
  <2> SUFFICES ASSUME NEW d \in Deliveries
               PROVE  /\ delivery'[d] \in Rows
                      /\ delivery'[d].status = delivery[d].status
                      /\ delivery'[d].attempts = delivery[d].attempts
    OBVIOUS
  <2> DEFINE delay == Max({0, delivery[d].delay - 1})
  <2>1. delivery[d] \in Rows
    BY RowType
  <2>2. delay \in 0 .. MaxBackoff
    BY <2>1, AtLeastZero, OutboxAssumption DEF Rows
  <2>3. delivery'[d] = [delivery[d] EXCEPT !.delay = delay]
    BY DEF Tick
  <2> HIDE DEF delay
  <2> QED
    BY <2>1, <2>2, <2>3 DEF Rows
<1>3. \A r \in Rounds :
        /\ round'[r] \in RoundStates
        /\ round'[r].posting = round[r].posting
        /\ round'[r].todo = round[r].todo
        /\ round'[r].seen = round[r].seen
  <2> SUFFICES ASSUME NEW r \in Rounds
               PROVE  /\ round'[r] \in RoundStates
                      /\ round'[r].posting = round[r].posting
                      /\ round'[r].todo = round[r].todo
                      /\ round'[r].seen = round[r].seen
    OBVIOUS
  <2> DEFINE age == Min({MaxBackoff, round[r].age + 1})
             waited == Min({Timeout, round[r].waited + 1})
  <2>1. round[r] \in RoundStates
    BY DEF OutboxTypeOK
  <2>2. age \in 0 .. MaxBackoff /\ waited \in 0 .. Timeout
    BY <2>1, AtMost, OutboxAssumption DEF RoundStates
  <2>3. round'[r] = IF round[r].posting = None THEN round[r]
                    ELSE [round[r] EXCEPT !.age = age, !.waited = waited]
    BY DEF Tick
  <2> HIDE DEF age, waited
  <2> QED
    BY <2>1, <2>2, <2>3 DEF RoundStates
<1>4. OutboxTypeOK'
  <2>1. delivery' \in [Deliveries -> Rows] /\ round' \in [Rounds -> RoundStates]
    BY <1>2, <1>3 DEF Tick
  <2> QED
    BY <1>1, <2>1 DEF OutboxTypeOK, Tick, outboxHistory, Rows
<1> QED
  BY <1>2, <1>3, <1>4, Unmoved DEF RowsInv, Tick, outboxHistory

LEMMA RestartInv ==
  ASSUME OutboxIndInv, Restart
  PROVE  OutboxIndInv'
<1>1. OutboxTypeOK'
  BY OutboxAssumption DEF OutboxIndInv, OutboxTypeOK, Restart, store, outboxHistory
<1> QED
  BY <1>1, Unmoved DEF OutboxIndInv, RowsInv, Restart, store, outboxHistory

LEMMA DeleteInv ==
  ASSUME OutboxIndInv, NEW s \in Subscriptions, DeleteSubscription(s)
  PROVE  OutboxIndInv'
<1> DEFINE gone == [Absent EXCEPT !.status = "gone"]
<1>1. gone \in Rows /\ gone.status = "gone" /\ gone.attempts = 0
  BY OutboxAssumption DEF Absent, Rows, Statuses
<1> HIDE DEF gone
<1>2. \A d \in Deliveries :
        delivery'[d] = IF d[1] = s /\ delivery[d].status # "absent" THEN gone ELSE delivery[d]
  BY DEF DeleteSubscription, gone
<1>3. UNCHANGED <<recorded, round, posts, lost, shared>>
        /\ subscription' = [subscription EXCEPT ![s] = "deleted"]
  BY DEF DeleteSubscription, outboxHistory
<1>4. OutboxTypeOK'
  <2>1. \A d \in Deliveries : delivery'[d] \in Rows
    BY <1>1, <1>2, RowType DEF OutboxIndInv
  <2>2. delivery' \in [Deliveries -> Rows]
    BY <2>1 DEF DeleteSubscription
  <2>3. subscription' \in [Subscriptions -> {"absent", "active", "inactive", "deleted"}]
    BY <1>3 DEF OutboxIndInv, OutboxTypeOK
  <2> QED
    BY <2>2, <2>3 DEF OutboxIndInv, OutboxTypeOK, Rows, DeleteSubscription, outboxHistory
<1>5. \A r \in Rounds : Held(r)' = Held(r)
  BY <1>3 DEF Held
<1>6. RoundsInv'
  <2>1. \A r \in Rounds : Held(r) \subseteq Deliveries
    BY RoundType DEF OutboxIndInv, Held
  <2> QED
    BY <1>1, <1>2, <1>3, <1>5, <2>1 DEF OutboxIndInv, RoundsInv
<1>7. RowsInv'
  <2> SUFFICES ASSUME NEW d \in Deliveries
               PROVE  /\ delivery'[d].attempts <= posts[d]
                      /\ delivery'[d].status = "absent" => posts[d] = 0
                      /\ delivery'[d].status # "absent" => d[2] \in recorded
                      /\ delivery'[d].status = "pending" => delivery'[d].attempts < MaxAttempts
                      /\ delivery'[d].status = "failed" => posts[d] >= MaxAttempts
                      /\ delivery'[d].status = "gone" => subscription'[d[1]] = "deleted"
    BY <1>3 DEF RowsInv
  <2>1. d[1] \in Subscriptions
    BY DEF Deliveries
  <2>2. posts[d] >= 0
    BY RowType DEF OutboxIndInv
  <2>3. subscription \in [Subscriptions -> {"absent", "active", "inactive", "deleted"}]
    BY DEF OutboxIndInv, OutboxTypeOK
  <2>4. CASE d[1] = s /\ delivery[d].status # "absent"
    BY <1>1, <1>2, <1>3, <2>1, <2>2, <2>3, <2>4 DEF OutboxIndInv, RowsInv
  <2>5. CASE ~(d[1] = s /\ delivery[d].status # "absent")
    BY <1>2, <1>3, <2>1, <2>3, <2>5 DEF OutboxIndInv, RowsInv
  <2> QED
    BY <2>4, <2>5
<1>8. LoneInv'
  <2>1. \A d : Posting(d)' <=> Posting(d)
    BY <1>3 DEF Posting
  <2> QED
    BY <1>1, <1>2, <1>3, <1>5, <2>1 DEF OutboxIndInv, LoneInv
<1> QED
  BY <1>4, <1>6, <1>7, <1>8 DEF OutboxIndInv

\* Deliveries of new events get rows that did not exist, due at once.
LEMMA EnqueuedIs ==
  ASSUME OutboxIndInv, NEW events \in SUBSET Events, events \intersect recorded = {},
         Enqueued(events)
  PROVE  \E new \in SUBSET Deliveries, fresh \in Rows :
           /\ fresh.status = "pending" /\ fresh.attempts = 0
           /\ delivery' \in [Deliveries -> Rows]
           /\ \A d \in Deliveries : delivery'[d] = IF d \in new THEN fresh ELSE delivery[d]
           /\ \A d \in new : /\ d[2] \in events /\ delivery[d].status = "absent"
                             /\ posts[d] = 0
           /\ recorded' = recorded \union events /\ recorded' \subseteq Events
           /\ subscription' = subscription
<1> DEFINE fresh == [Absent EXCEPT !.status = "pending"]
           new == {d \in Deliveries :
                     d[2] \in events /\ d \in Matching /\ subscription[d[1]] = "active"}
<1>1. fresh \in Rows /\ fresh.status = "pending" /\ fresh.attempts = 0
  BY OutboxAssumption DEF Absent, Rows, Statuses
<1> HIDE DEF fresh
<1>2. /\ \A d \in Deliveries : delivery'[d] = IF d \in new THEN fresh ELSE delivery[d]
      /\ delivery' = [d \in Deliveries |-> delivery'[d]]
  BY DEF Enqueued, fresh
<1>3. subscription' = subscription /\ recorded' = recorded \union events
  BY DEF Enqueued
<1>4. recorded' \subseteq Events
  BY <1>3 DEF OutboxIndInv, OutboxTypeOK
<1>5. \A d \in new : d[2] \in events /\ delivery[d].status = "absent" /\ posts[d] = 0
  BY DEF OutboxIndInv, RowsInv
<1>6. new \in SUBSET Deliveries
  OBVIOUS
<1> HIDE DEF new
<1>7. delivery' \in [Deliveries -> Rows]
  <2>1. \A d \in Deliveries : delivery'[d] \in Rows
    BY <1>1, <1>2, RowType DEF OutboxIndInv
  <2> QED
    BY <1>2, <2>1
<1> QED
  BY <1>1, <1>2, <1>3, <1>4, <1>5, <1>6, <1>7

\* They are new rows of the events that are recorded now.
LEMMA EnqueuedRowsInv ==
  ASSUME OutboxIndInv, NEW events \in SUBSET Events, events \intersect recorded = {},
         Enqueued(events), posts' = posts
  PROVE  RowsInv'
<1>1. PICK new \in SUBSET Deliveries, fresh \in Rows :
        /\ fresh.status = "pending" /\ fresh.attempts = 0
        /\ \A d \in Deliveries : delivery'[d] = IF d \in new THEN fresh ELSE delivery[d]
        /\ \A d \in new : d[2] \in events /\ posts[d] = 0
        /\ recorded' = recorded \union events /\ subscription' = subscription
  BY EnqueuedIs
<1> QED
  BY <1>1, OutboxAssumption DEF OutboxIndInv, RowsInv

LEMMA EnqueueInv ==
  ASSUME OutboxIndInv, NEW events \in SUBSET Events, Enqueue(events)
  PROVE  OutboxIndInv'
<1>0. Enqueued(events) /\ events \intersect recorded = {}
  BY DEF Enqueue
<1>1. PICK new \in SUBSET Deliveries, fresh \in Rows :
        /\ fresh.status = "pending" /\ fresh.attempts = 0
        /\ delivery' \in [Deliveries -> Rows]
        /\ \A d \in Deliveries : delivery'[d] = IF d \in new THEN fresh ELSE delivery[d]
        /\ \A d \in new : delivery[d].status = "absent" /\ posts[d] = 0
        /\ recorded' \subseteq Events /\ subscription' = subscription
  BY <1>0, EnqueuedIs
<1>2. \A d \in Deliveries : delivery'[d] = IF d \in new THEN fresh ELSE delivery[d]
  BY <1>1
<1>3. UNCHANGED <<subscription, up, timer, round, posts, lost, shared, crashes>>
  BY <1>1 DEF Enqueue, outboxHistory
<1>4. \A d \in new : d \in Deliveries /\ delivery[d].status = "absent" /\ posts[d] = 0
  BY <1>1
<1>6. OutboxTypeOK'
  BY <1>1, <1>3 DEF OutboxIndInv, OutboxTypeOK, Rows
<1>7. \A r \in Rounds : Held(r)' = Held(r) /\ Held(r) \subseteq Deliveries
  BY <1>3, RoundType DEF OutboxIndInv, Held
<1>8. \A r \in Rounds : \A d \in Held(r) : d \notin new
  BY <1>4 DEF OutboxIndInv, RoundsInv
<1>9. RoundsInv'
  BY <1>2, <1>3, <1>7, <1>8 DEF OutboxIndInv, RoundsInv
<1>10. RowsInv'
  BY <1>0, <1>3, EnqueuedRowsInv
<1>11. LoneInv'
  <2>1. \A d : Posting(d)' <=> Posting(d)
    BY <1>3 DEF Posting
  <2>2. \A d \in Deliveries : lost[d] \in Nat
    BY RowType DEF OutboxIndInv
  <2> SUFFICES ASSUME NEW d \in Deliveries \ shared
               PROVE
      /\ \A q, r \in Rounds : d \in Held(q) /\ d \in Held(r) => q = r
      /\ \A r \in Rounds : d \in Held(r) =>
           /\ delivery'[d].status \in {"pending", "gone"}
           /\ delivery'[d].status = "pending" => round[r].seen[d] = delivery'[d].attempts
      /\ delivery'[d].status = "pending" =>
           /\ posts[d] <= delivery'[d].attempts + lost[d] + 1
           /\ ~Posting(d) => posts[d] <= delivery'[d].attempts + lost[d]
      /\ posts[d] <= MaxAttempts + lost[d]
    BY <1>3, <1>7, <2>1 DEF LoneInv
  <2>3. CASE d \in new
    BY <1>1, <1>2, <1>4, <1>8, <2>2, <2>3, OutboxAssumption
  <2>4. CASE d \notin new
    BY <1>2, <2>4 DEF OutboxIndInv, LoneInv
  <2> QED
    BY <2>3, <2>4
<1> QED
  BY <1>6, <1>9, <1>10, <1>11 DEF OutboxIndInv

LEMMA CrashInv ==
  ASSUME OutboxIndInv, NEW events \in SUBSET Events, OutboxCrash(events)
  PROVE  OutboxIndInv'
<1> DEFINE posting(d) == {r \in Rounds : round[r].posting = d}
<1>1. /\ lost' = [d \in Deliveries |-> lost[d] + Cardinality(posting(d))]
      /\ round' = [r \in Rounds |-> Idle]
      /\ UNCHANGED <<timer, posts, shared>>
      /\ up' = FALSE /\ crashes < MaxCrashes /\ crashes' = crashes + 1
      /\ Enqueued(events) /\ events \intersect recorded = {}
  BY DEF OutboxCrash, ProcessDies
<1>n. PICK new \in SUBSET Deliveries, fresh \in Rows :
        /\ fresh.status = "pending" /\ fresh.attempts = 0
        /\ delivery' \in [Deliveries -> Rows]
        /\ \A d \in Deliveries : delivery'[d] = IF d \in new THEN fresh ELSE delivery[d]
        /\ \A d \in new : posts[d] = 0
        /\ recorded' \subseteq Events /\ subscription' = subscription
  BY <1>1, EnqueuedIs
<1>2. \A d : /\ Cardinality(posting(d)) \in Nat
             /\ Posting(d) => Cardinality(posting(d)) >= 1
  <2> SUFFICES ASSUME NEW d
               PROVE  /\ Cardinality(posting(d)) \in Nat
                      /\ Posting(d) => Cardinality(posting(d)) >= 1
    OBVIOUS
  <2>1. posting(d) \in SUBSET Rounds /\ IsFiniteSet(Rounds)
    BY OutboxAssumption
  <2>2. IsFiniteSet(posting(d)) /\ (Posting(d) => posting(d) # {})
    BY <2>1, FS_Subset DEF Posting
  <2> HIDE DEF posting
  <2> QED
    BY <2>2, FS_CardinalityType, FS_EmptySet
<1> HIDE DEF posting
<1>3. OutboxTypeOK'
  <2>1. Idle \in RoundStates
    BY OutboxAssumption DEF Idle, RoundStates
  <2>2. lost' \in [Deliveries -> Nat]
    BY <1>1, <1>2 DEF OutboxIndInv, OutboxTypeOK
  <2>3. crashes' \in 0 .. MaxCrashes
    BY <1>1, ProcessAssumption DEF OutboxIndInv, OutboxTypeOK
  <2> QED
    BY <1>1, <1>n, <2>1, <2>2, <2>3 DEF OutboxIndInv, OutboxTypeOK, Rows
<1>4. \A r \in Rounds : Held(r)' = {} /\ round'[r] = Idle
  BY <1>1 DEF Held, Idle
<1>5. RoundsInv'
  BY <1>4 DEF RoundsInv, Idle
<1>6. RowsInv'
  BY <1>1, EnqueuedRowsInv
<1>7. LoneInv'
  <2> SUFFICES ASSUME NEW d \in Deliveries \ shared
               PROVE  /\ delivery'[d].status = "pending" =>
                           /\ posts[d] <= delivery'[d].attempts + lost'[d] + 1
                           /\ posts[d] <= delivery'[d].attempts + lost'[d]
                      /\ posts[d] <= MaxAttempts + lost'[d]
    BY <1>1, <1>4 DEF LoneInv
  <2>1. lost'[d] = lost[d] + Cardinality(posting(d)) /\ lost'[d] \in Nat
    BY <1>1, <1>2, RowType DEF OutboxIndInv
  <2>2. lost[d] \in Nat /\ posts[d] \in Nat /\ delivery[d].attempts \in Nat
    BY RowType DEF OutboxIndInv
  <2>3. MaxAttempts \in Nat
    BY OutboxAssumption
  <2>4. CASE d \in new
    BY <1>n, <2>1, <2>3, <2>4
  <2>5. CASE d \notin new
    <3>1. delivery'[d] = delivery[d]
      BY <1>n, <2>5
    <3> QED
      BY <1>2, <2>1, <2>2, <2>3, <3>1 DEF OutboxIndInv, LoneInv
  <2> QED
    BY <2>4, <2>5
<1> QED
  BY <1>3, <1>5, <1>6, <1>7 DEF OutboxIndInv

LEMMA DispatchInv ==
  ASSUME OutboxIndInv, NEW r \in Rounds, Dispatch(r)
  PROVE  OutboxIndInv'
<1>0. OutboxTypeOK /\ RoundsInv /\ RowsInv /\ LoneInv
  BY DEF OutboxIndInv
<1>1. PICK taken \in SUBSET {d \in Deliveries : Due(d)} :
      \E sent \in SUBSET {d \in taken : subscription[d[1]] = "active"} :
        /\ GoesOn(r, taken, sent)
        /\ \A d \in round'[r].todo \cup sent : round'[r].seen[d] = delivery[d].attempts
        /\ shared' = shared \union (taken \intersect UNION {Held(p) : p \in Rounds})
  BY <1>0, DispatchStep
<1>2. PICK sent \in SUBSET taken :
        /\ GoesOn(r, taken, sent)
        /\ \A d \in round'[r].todo \cup sent : round'[r].seen[d] = delivery[d].attempts
        /\ shared' = shared \union (taken \intersect UNION {Held(p) : p \in Rounds})
  BY <1>1
<1>3. round[r].posting = None /\ Held(r) = {}
  BY DEF Dispatch, Idle, Held
<1>4. UNCHANGED <<store, up, lost, crashes>> /\ timer' = Interval
  BY DEF Dispatch
<1>5. \A d \in taken : /\ d \in Deliveries /\ delivery[d].status = "pending"
                       /\ delivery[d].attempts < MaxAttempts
                       /\ delivery[d].attempts <= posts[d]
  BY <1>0 DEF Due, RowsInv
<1>6. \A p \in Rounds \ {r} : round'[p] = round[p] /\ Held(p)' = Held(p)
  BY <1>2 DEF GoesOn, Held
<1>7. \A d \in Held(r)' : /\ d \in taken /\ round'[r].seen[d] = delivery[d].attempts
                          /\ round'[r].posting = d => d \in sent
  <2>1. round'[r].posting \in Deliveries \union {None}
    BY <1>2 DEF GoesOn, RoundStates
  <2> QED
    BY <1>2, <1>5, <2>1 DEF GoesOn, Held
<1>8. \A d \in taken : d \notin shared' => \A p \in Rounds : d \notin Held(p)
  BY <1>2
<1>9. \A d \in Deliveries : /\ posts[d] \in Nat /\ lost[d] \in Nat
                            /\ delivery[d].attempts \in Nat
                            /\ posts'[d] = IF d \in sent THEN posts[d] + 1 ELSE posts[d]
  BY <1>0, <1>2, RowType DEF GoesOn
<1>10. MaxAttempts \in Nat
  BY OutboxAssumption
<1>11. OutboxTypeOK'
  <2>1. shared' \subseteq Deliveries /\ timer' \in 0 .. Interval
    BY <1>0, <1>2, <1>4, <1>5, OutboxAssumption DEF OutboxTypeOK
  <2> QED
    BY <1>0, <1>2, <1>4, <2>1 DEF OutboxTypeOK, GoesOn, store
<1>12. RoundsInv'
  <2> SUFFICES ASSUME NEW p \in Rounds
               PROVE  /\ round'[p].posting \notin round'[p].todo
                      /\ \A d \in Held(p)' :
                           /\ round'[p].seen[d] < MaxAttempts
                           /\ round'[p].seen[d] <= posts'[d]
                           /\ delivery[d].status # "absent"
                           /\ round'[p].posting = d => round'[p].seen[d] < posts'[d]
    BY <1>4 DEF RoundsInv, store
  <2>1. CASE p = r
    BY <1>2, <1>5, <1>7, <1>9, <2>1 DEF GoesOn
  <2>2. CASE p # r
    <3>1. Held(p) \subseteq Deliveries /\ \A d \in Deliveries : round[p].seen[d] \in Nat
      BY <1>0, RoundType DEF Held
    <3>2. round'[p] = round[p] /\ Held(p)' = Held(p)
      BY <1>6, <2>2
    <3> QED
      BY <1>0, <1>9, <3>1, <3>2 DEF RoundsInv
  <2> QED
    BY <2>1, <2>2
<1>13. RowsInv'
  <2>1. UNCHANGED <<subscription, delivery, recorded>>
    BY <1>4 DEF store
  <2>2. \A d \in sent : delivery[d].status = "pending"
    BY <1>5
  <2> QED
    BY <1>0, <1>9, <1>10, <2>1, <2>2 DEF RowsInv
<1>14. LoneInv'
  <2>0. delivery' = delivery /\ lost' = lost
    BY <1>4 DEF store
  <2> SUFFICES ASSUME NEW d \in Deliveries \ shared'
               PROVE
      /\ \A p, q \in Rounds : d \in Held(p)' /\ d \in Held(q)' => p = q
      /\ \A p \in Rounds : d \in Held(p)' =>
           /\ delivery[d].status \in {"pending", "gone"}
           /\ delivery[d].status = "pending" => round'[p].seen[d] = delivery[d].attempts
      /\ delivery[d].status = "pending" =>
           /\ posts'[d] <= delivery[d].attempts + lost[d] + 1
           /\ ~Posting(d)' => posts'[d] <= delivery[d].attempts + lost[d]
      /\ posts'[d] <= MaxAttempts + lost[d]
    BY <2>0 DEF LoneInv
  <2>1. d \in Deliveries \ shared
    BY <1>2
  <2>2. \A p, q \in Rounds : d \in Held(p)' /\ d \in Held(q)' => p = q
    BY <1>0, <1>6, <1>7, <1>8, <2>1 DEF LoneInv
  <2>3. ASSUME NEW p \in Rounds, d \in Held(p)'
        PROVE  /\ delivery[d].status \in {"pending", "gone"}
               /\ delivery[d].status = "pending" => round'[p].seen[d] = delivery[d].attempts
    BY <1>0, <1>5, <1>6, <1>7, <2>1, <2>3 DEF LoneInv
  <2>4. CASE d \in sent
    <3>1. ~Posting(d) /\ delivery[d].status = "pending" /\ delivery[d].attempts < MaxAttempts
      BY <1>5, <1>8, <2>4, HeldBy DEF Posting
    <3>2. posts[d] <= delivery[d].attempts + lost[d]
      BY <1>0, <2>1, <3>1 DEF LoneInv
    <3>3. Posting(d)'
      BY <1>2, <2>4 DEF GoesOn, Posting
    <3> QED
      BY <1>9, <1>10, <2>2, <2>3, <2>4, <3>1, <3>2, <3>3
  <2>5. CASE d \notin sent
    <3>1. Posting(d) => Posting(d)'
      BY <1>3, <1>6, NotNone DEF Posting
    <3> QED
      BY <1>0, <1>9, <2>1, <2>2, <2>3, <2>5, <3>1 DEF LoneInv
  <2> QED
    BY <2>4, <2>5
<1> QED
  BY <1>11, <1>12, <1>13, <1>14 DEF OutboxIndInv

LEMMA AnswerInv ==
  ASSUME OutboxIndInv, NEW r \in Rounds, NEW ok \in BOOLEAN, Answer(r, ok)
  PROVE  OutboxIndInv'
<1>0. OutboxTypeOK /\ RoundsInv /\ RowsInv /\ LoneInv
  BY DEF OutboxIndInv
<1>1. PICK c \in Deliveries :
      \E sent \in SUBSET {d \in round[r].todo : subscription[d[1]] = "active"} :
        /\ round[r].posting = c
        /\ delivery' = [delivery EXCEPT ![c] =
             IF ~Stored(delivery, c) THEN delivery[c]
             ELSE IF ok THEN Delivered(delivery[c])
             ELSE Refused(delivery[c], round[r].seen[c] + 1, round[r].age)]
        /\ GoesOn(r, round[r].todo, sent)
        /\ \A d \in (round'[r].todo \cup sent) \ {c} : round'[r].seen[d] = round[r].seen[d]
  BY <1>0, AnswerStep
<1>2. PICK sent \in SUBSET round[r].todo :
        /\ \A d \in sent : subscription[d[1]] = "active"
        /\ GoesOn(r, round[r].todo, sent)
        /\ \A d \in (round'[r].todo \cup sent) \ {c} : round'[r].seen[d] = round[r].seen[d]
  BY <1>1
<1>3. UNCHANGED <<subscription, recorded, up, timer, lost, shared, crashes>>
  BY DEF Answer
<1>4. /\ c \in Held(r) /\ c \notin round[r].todo /\ c \notin Held(r)'
      /\ \A p \in Rounds \ {r} : round'[p] = round[p] /\ Held(p)' = Held(p)
  <2>1. c \in Held(r) /\ c \notin round[r].todo
    BY <1>0, <1>1, HeldBy DEF RoundsInv
  <2> QED
    BY <1>1, <1>2, <2>1 DEF GoesOn, Held
<1>5. \A d \in Held(r)' : /\ d \in round[r].todo /\ d \in Held(r) /\ d \in Deliveries
                          /\ round'[r].seen[d] = round[r].seen[d]
                          /\ round'[r].posting = d => d \in sent
  <2>1. round'[r].posting \in Deliveries \union {None} /\ round[r].todo \subseteq Deliveries
    BY <1>0, <1>2, RoundType DEF GoesOn, RoundStates
  <2> QED
    BY <1>2, <1>4, <2>1 DEF GoesOn, Held
<1>6. \A d \in Deliveries : /\ posts[d] \in Nat /\ lost[d] \in Nat
                            /\ delivery[d].attempts \in Nat /\ delivery[d] \in Rows
                            /\ posts'[d] = IF d \in sent THEN posts[d] + 1 ELSE posts[d]
  BY <1>0, <1>2, RowType DEF GoesOn
<1>7. MaxAttempts \in Nat
  BY OutboxAssumption
<1>8. \A d \in Deliveries \ {c} : delivery'[d] = delivery[d]
  BY <1>0, <1>1 DEF OutboxTypeOK
<1> DEFINE n == round[r].seen[c]
<1>9. n \in 0 .. MaxAttempts - 1 /\ n < posts[c] /\ c \notin sent
  <2>1. n \in Nat
    BY <1>0, RoundType
  <2> QED
    BY <1>0, <1>1, <1>2, <1>4, <1>7, <2>1 DEF RoundsInv
\* What the answer makes of the row.
<1>10. /\ delivery'[c] \in Rows
       /\ ~Stored(delivery, c) => delivery'[c] = delivery[c]
       /\ Stored(delivery, c) =>
            \/ delivery'[c].status = "delivered" /\ delivery'[c].attempts = delivery[c].attempts
            \/ /\ n + 1 >= MaxAttempts
               /\ delivery'[c].status = "failed" /\ delivery'[c].attempts = n + 1
            \/ /\ n + 1 < MaxAttempts
               /\ delivery'[c].status = delivery[c].status /\ delivery'[c].attempts = n + 1
  <2>1. delivery'[c] = IF ~Stored(delivery, c) THEN delivery[c]
                       ELSE IF ok THEN Delivered(delivery[c])
                       ELSE Refused(delivery[c], n + 1, round[r].age)
    BY <1>0, <1>1 DEF OutboxTypeOK
  <2>2. delivery[c] \in Rows
    BY <1>6
  <2>3. /\ Delivered(delivery[c]) \in Rows
        /\ Delivered(delivery[c]).status = "delivered"
        /\ Delivered(delivery[c]).attempts = delivery[c].attempts
    BY <2>2 DEF Delivered, Rows, Statuses
  <2>4. round[r].age \in 0 .. MaxBackoff
    BY <1>0 DEF OutboxTypeOK, RoundStates
  <2> HIDE DEF n
  <2>5. /\ Refused(delivery[c], n + 1, round[r].age) \in Rows
        /\ Refused(delivery[c], n + 1, round[r].age).attempts = n + 1
        /\ n + 1 >= MaxAttempts => Refused(delivery[c], n + 1, round[r].age).status = "failed"
        /\ n + 1 < MaxAttempts =>
             Refused(delivery[c], n + 1, round[r].age).status = delivery[c].status
    BY <1>9, <2>2, <2>4, RefusedRow
  <2>6. n + 1 >= MaxAttempts \/ n + 1 < MaxAttempts
    BY <1>7, <1>9
  <2>7. CASE ~Stored(delivery, c)
    BY <2>1, <2>2, <2>7
  <2>8. CASE Stored(delivery, c) /\ ok
    BY <2>1, <2>3, <2>8
  <2>9. CASE Stored(delivery, c) /\ ~ok
    BY <2>1, <2>5, <2>6, <2>9
  <2> QED
    BY <2>7, <2>8, <2>9
<1> HIDE DEF n
<1>11. delivery[c].status # "absent" /\ delivery'[c].status # "absent"
  <2>1. delivery[c].status # "absent"
    BY <1>0, <1>4 DEF RoundsInv
  <2> QED
    BY <1>10, <2>1
<1>12. OutboxTypeOK'
  <2>1. delivery' \in [Deliveries -> Rows]
    BY <1>0, <1>1, <1>8, <1>10 DEF OutboxTypeOK, Rows
  <2> QED
    BY <1>0, <1>2, <1>3, <2>1 DEF OutboxTypeOK, GoesOn, Rows
<1>13. RoundsInv'
  <2> SUFFICES ASSUME NEW p \in Rounds
               PROVE  /\ round'[p].posting \notin round'[p].todo
                      /\ \A d \in Held(p)' :
                           /\ round'[p].seen[d] < MaxAttempts
                           /\ round'[p].seen[d] <= posts'[d]
                           /\ delivery'[d].status # "absent"
                           /\ round'[p].posting = d => round'[p].seen[d] < posts'[d]
    BY DEF RoundsInv
  <2>1. Held(p) \subseteq Deliveries /\ \A d \in Deliveries : round[p].seen[d] \in Nat
    BY <1>0, RoundType DEF Held
  <2>2. CASE p = r
    <3>1. round'[r].posting \notin round'[r].todo
      BY <1>2 DEF GoesOn
    <3>2. ASSUME NEW d \in Held(r)'
          PROVE  /\ round'[r].seen[d] < MaxAttempts
                 /\ round'[r].seen[d] <= posts'[d]
                 /\ delivery'[d].status # "absent"
                 /\ round'[r].posting = d => round'[r].seen[d] < posts'[d]
      <4>1. /\ d \in Deliveries \ {c} /\ d \in Held(r) /\ round'[r].seen[d] = round[r].seen[d]
            /\ round'[r].posting = d => d \in sent
        BY <1>4, <1>5
      <4>2. /\ round[r].seen[d] < MaxAttempts /\ round[r].seen[d] <= posts[d]
            /\ delivery[d].status # "absent"
        BY <1>0, <4>1 DEF RoundsInv
      <4> QED
        BY <1>6, <1>8, <2>1, <2>2, <4>1, <4>2
    <3> QED
      BY <2>2, <3>1, <3>2
  <2>3. CASE p # r
    <3>1. round'[p] = round[p] /\ Held(p)' = Held(p)
      BY <1>4, <2>3
    <3>2. \A d \in Held(p) : delivery[d].status # "absent" => delivery'[d].status # "absent"
      BY <1>8, <1>11, <2>1
    <3> QED
      BY <1>0, <1>6, <2>1, <3>1, <3>2 DEF RoundsInv
  <2> QED
    BY <2>2, <2>3
<1>14. RowsInv'
  <2> SUFFICES ASSUME NEW d \in Deliveries
               PROVE  /\ delivery'[d].attempts <= posts'[d]
                      /\ delivery'[d].status = "absent" => posts'[d] = 0
                      /\ delivery'[d].status # "absent" => d[2] \in recorded
                      /\ delivery'[d].status = "pending" => delivery'[d].attempts < MaxAttempts
                      /\ delivery'[d].status = "failed" => posts'[d] >= MaxAttempts
                      /\ delivery'[d].status = "gone" => subscription[d[1]] = "deleted"
    BY <1>3 DEF RowsInv
  <2>1. CASE d = c
    <3>1. posts'[c] = posts[c] /\ n + 1 <= posts[c] /\ n \in Int
      BY <1>6, <1>7, <1>9
    <3>2. CASE ~Stored(delivery, c)
      BY <1>0, <1>10, <2>1, <3>1, <3>2 DEF RowsInv
    <3>3. CASE Stored(delivery, c)
      BY <1>0, <1>6, <1>7, <1>10, <1>11, <2>1, <3>1, <3>3 DEF RowsInv, Stored
    <3> QED
      BY <3>2, <3>3
  <2>2. CASE d # c
    <3>1. d \in sent => delivery[d].status # "absent"
      BY <1>0, <1>2 DEF RoundsInv, Held, GoesOn
    <3> QED
      BY <1>0, <1>6, <1>7, <1>8, <2>2, <3>1 DEF RowsInv
  <2> QED
    BY <2>1, <2>2
<1>15. LoneInv'
  <2> SUFFICES ASSUME NEW d \in Deliveries \ shared
               PROVE
      /\ \A p, q \in Rounds : d \in Held(p)' /\ d \in Held(q)' => p = q
      /\ \A p \in Rounds : d \in Held(p)' =>
           /\ delivery'[d].status \in {"pending", "gone"}
           /\ delivery'[d].status = "pending" => round'[p].seen[d] = delivery'[d].attempts
      /\ delivery'[d].status = "pending" =>
           /\ posts'[d] <= delivery'[d].attempts + lost[d] + 1
           /\ ~Posting(d)' => posts'[d] <= delivery'[d].attempts + lost[d]
      /\ posts'[d] <= MaxAttempts + lost[d]
    BY <1>3 DEF LoneInv
  <2>1. \A p \in Rounds : d \in Held(p)' => d \in Held(p) /\ d # c
    <3> SUFFICES ASSUME NEW p \in Rounds, d \in Held(p)' PROVE d \in Held(p) /\ d # c
      OBVIOUS
    <3>1. d \in Held(p)
      BY <1>4, <1>5
    <3> QED
      BY <1>0, <1>4, <3>1 DEF LoneInv
  <2>2. \A p, q \in Rounds : d \in Held(p)' /\ d \in Held(q)' => p = q
    BY <1>0, <2>1 DEF LoneInv
  <2>3. ASSUME NEW p \in Rounds, d \in Held(p)'
        PROVE  /\ delivery'[d].status \in {"pending", "gone"}
               /\ delivery'[d].status = "pending" => round'[p].seen[d] = delivery'[d].attempts
    <3>1. d \in Held(p) /\ delivery'[d] = delivery[d]
      BY <1>8, <2>1, <2>3
    <3>2. round'[p].seen[d] = round[p].seen[d]
      BY <1>4, <1>5, <2>3
    <3> QED
      BY <1>0, <3>1, <3>2 DEF LoneInv
  <2>4. CASE d = c
    <3>1. posts'[c] = posts[c] /\ n \in Int
      BY <1>6, <1>7, <1>9
    <3>2. posts[c] <= MaxAttempts + lost[c]
      BY <1>0, <2>4 DEF LoneInv
    <3>3. ASSUME delivery'[c].status = "pending"
          PROVE  posts[c] <= delivery'[c].attempts + lost[c]
      <4>1. /\ delivery[c].status = "pending" /\ delivery'[c].attempts = n + 1
        BY <1>10, <3>3 DEF Stored
      <4>2. n = delivery[c].attempts
        BY <1>0, <1>4, <2>4, <4>1 DEF LoneInv, n
      <4>3. posts[c] <= delivery[c].attempts + lost[c] + 1
        BY <1>0, <2>4, <4>1 DEF LoneInv
      <4> QED
        BY <1>6, <4>1, <4>2, <4>3
    <3>4. delivery'[c].attempts \in Nat
      BY <1>7, <1>10 DEF Rows
    <3> QED
      BY <1>6, <1>7, <2>2, <2>3, <2>4, <3>1, <3>2, <3>3, <3>4
  <2>5. CASE d \in sent
    <3>1. d \in Held(r) /\ d # c /\ delivery'[d] = delivery[d]
      BY <1>2, <1>4, <1>8, <2>5 DEF Held
    <3>2. delivery[d].status = "pending"
      BY <1>0, <1>2, <2>5, <3>1 DEF LoneInv, RowsInv
    <3>3. ~Posting(d)
      BY <1>0, <1>1, <3>1, HeldBy DEF LoneInv, Posting
    <3>4. posts[d] <= delivery[d].attempts + lost[d] /\ delivery[d].attempts < MaxAttempts
      BY <1>0, <3>2, <3>3 DEF LoneInv, RowsInv
    <3>5. Posting(d)'
      BY <1>2, <2>5 DEF GoesOn, Posting
    <3> QED
      BY <1>6, <1>7, <2>2, <2>3, <2>5, <3>1, <3>4, <3>5
  <2>6. CASE d # c /\ d \notin sent
    <3>1. Posting(d) => Posting(d)'
      BY <1>1, <1>4, <2>6 DEF Posting
    <3>2. delivery'[d] = delivery[d] /\ posts'[d] = posts[d]
      BY <1>6, <1>8, <2>6
    <3> QED
      BY <1>0, <2>2, <2>3, <3>1, <3>2 DEF LoneInv
  <2> QED
    BY <2>4, <2>5, <2>6
<1> QED
  BY <1>12, <1>13, <1>14, <1>15 DEF OutboxIndInv

LEMMA OutboxNextInv == OutboxIndInv /\ [OutboxNext]_outboxVars => OutboxIndInv'
<1> SUFFICES ASSUME OutboxIndInv, [OutboxNext]_outboxVars PROVE OutboxIndInv'
  OBVIOUS
<1>1. CASE UNCHANGED outboxVars
  <2>1. OutboxTypeOK'
    BY <1>1 DEF OutboxIndInv, OutboxTypeOK, outboxVars, store, outboxHistory
  <2> QED
    BY <1>1, <2>1, Unmoved DEF OutboxIndInv, RowsInv, outboxVars, store, outboxHistory
<1> QED
  BY <1>1, CreateInv, DeleteInv, EnqueueInv, DispatchInv, AnswerInv, TickInv, CrashInv, RestartInv
  DEF OutboxNext

-----------------------------------------------------------------------------
(* What the invariant says of the outbox.                                   *)

\* A webhook_deliveries row never counts an attempt that was not made, is never
\* failed before MaxAttempts posts, and, unless two rounds of dispatchOnce once
\* held it, is never posted more often than that, but for answers a crash lost.
THEOREM AttemptsAlwaysCounted == OutboxSpec => []OutboxInv
<1>1. OutboxIndInv => OutboxInv
  <2> SUFFICES ASSUME OutboxIndInv PROVE OutboxInv
    OBVIOUS
  <2>1. FailedWasTried
    BY RowType DEF OutboxIndInv, RowsInv, FailedWasTried
  <2>2. RetriesWithinMax
    BY DEF OutboxIndInv, LoneInv, RetriesWithinMax
  <2> QED
    BY <2>1, <2>2 DEF OutboxIndInv, OutboxInv
<1> QED
  BY <1>1, OutboxInitInv, OutboxNextInv, PTL DEF OutboxSpec

\* What a step leaves of the deliveries that have succeeded.
Settled ==
  \A d \in Deliveries :
    delivery[d].status = "delivered" /\ d \notin shared =>
      /\ delivery'[d].status \in {"delivered", "gone"}
      /\ posts'[d] = posts[d]

LEMMA NextSettled == OutboxIndInv /\ [OutboxNext]_outboxVars => Settled
<1> SUFFICES ASSUME OutboxIndInv, [OutboxNext]_outboxVars,
                    NEW d \in Deliveries, delivery[d].status = "delivered", d \notin shared
             PROVE  delivery'[d].status \in {"delivered", "gone"} /\ posts'[d] = posts[d]
  BY DEF Settled
<1>0. OutboxTypeOK
  BY DEF OutboxIndInv
\* No round holds d.
<1>1. \A r \in Rounds : d \notin Held(r)
  BY DEF OutboxIndInv, LoneInv
<1>2. ASSUME NEW r \in Rounds, Dispatch(r)
      PROVE  delivery'[d] = delivery[d] /\ posts'[d] = posts[d]
  <2>1. PICK taken \in SUBSET {c \in Deliveries : Due(c)} :
        \E sent \in SUBSET {c \in taken : subscription[c[1]] = "active"} :
          GoesOn(r, taken, sent)
    BY <1>0, <1>2, DispatchStep
  <2>2. d \notin taken
    BY DEF Due
  <2> QED
    BY <1>2, <2>1, <2>2 DEF GoesOn, Dispatch, store
<1>3. ASSUME NEW r \in Rounds, NEW ok \in BOOLEAN, Answer(r, ok)
      PROVE  delivery'[d] = delivery[d] /\ posts'[d] = posts[d]
  <2>1. PICK posted \in Deliveries :
        \E sent \in SUBSET {c \in round[r].todo : subscription[c[1]] = "active"} :
          /\ round[r].posting = posted
          /\ delivery' = [delivery EXCEPT ![posted] = delivery'[posted]]
          /\ GoesOn(r, round[r].todo, sent)
    <3>1. delivery \in [Deliveries -> Rows]
      BY <1>0 DEF OutboxTypeOK, Rows
    <3> QED
      BY <1>0, <1>3, <3>1, AnswerStep
  <2>2. d # posted /\ d \notin round[r].todo
    BY <1>1, <2>1, HeldBy
  <2> QED
    BY <1>0, <2>1, <2>2 DEF GoesOn, OutboxTypeOK
<1>4. ASSUME NEW s \in Subscriptions, DeleteSubscription(s)
      PROVE  delivery'[d].status \in {"delivered", "gone"} /\ posts'[d] = posts[d]
  BY <1>4 DEF DeleteSubscription, Absent, outboxHistory
<1>5. ASSUME NEW events \in SUBSET Events, Enqueue(events) \/ OutboxCrash(events)
      PROVE  delivery'[d].status = "delivered" /\ posts'[d] = posts[d]
  <2>1. Enqueued(events) /\ events \intersect recorded = {} /\ posts' = posts
    BY <1>5 DEF Enqueue, OutboxCrash, outboxHistory
  <2>2. d[2] \notin events
    BY <2>1 DEF OutboxIndInv, RowsInv
  <2> QED
    BY <2>1, <2>2 DEF Enqueued
<1>6. ASSUME Tick
      PROVE  delivery'[d].status = "delivered" /\ posts'[d] = posts[d]
  BY <1>0, <1>6, RowType DEF Tick, outboxHistory, Rows
<1>7. CASE \/ \E s \in Subscriptions, active \in BOOLEAN : CreateSubscription(s, active)
           \/ Restart \/ UNCHANGED outboxVars
  BY <1>7 DEF CreateSubscription, Restart, outboxVars, store, outboxHistory
<1> QED
  BY <1>2, <1>3, <1>4, <1>5, <1>6, <1>7 DEF OutboxNext

\* A delivery that no two rounds of dispatchOnce ever held at once stays delivered
\* once markDelivered wrote it, and is not posted again.
THEOREM DeliveredForGood == OutboxSpec => DeliveredStays
<1>1. Settled => [\A d \in Deliveries :
       delivery[d].status = "delivered" /\ d \notin shared =>
         /\ delivery'[d].status \in {"delivered", "gone"}
         /\ posts'[d] = posts[d]]_outboxVars
  BY DEF Settled
<1> QED
  BY <1>1, OutboxInitInv, OutboxNextInv, NextSettled, PTL DEF OutboxSpec, DeliveredStays

-----------------------------------------------------------------------------
(* Ingestion and the outbox in one process.                                 *)

\* An event is handed to the outbox exactly when ingestion announces it.
LinkInv == recorded = {i \in Events : notices[i] = 1}

IndexerIndInv == IngestIndInv /\ OutboxIndInv /\ LinkInv

LEMMA EventsAre ==
  ASSUME EventsOfContracts
  PROVE  /\ Events \subseteq Items /\ \A i \in Events : i[1] # Horizon
         /\ \A i \in Items : i[1] # Horizon => i \in Events
BY DEF EventsOfContracts

\* What ingestion announces of a page: events that the outbox does not have.
LEMMA AnnouncedIs ==
  ASSUME EventsOfContracts, IngestIndInv, LinkInv, NEW page \in SUBSET Items, \A i \in page : i[1] # Horizon
  PROVE  /\ Announced(page) \in SUBSET Events
         /\ Announced(page) \intersect recorded = {}
BY EventsAre DEF Announced, IngestIndInv, NoticesInv, LinkInv

\* A page that is being written, all of it or up to where the process dies.
LEMMA PageAnnounced ==
  ASSUME EventsOfContracts, IngestIndInv, LinkInv, poll.at = "page", NEW n \in Int, NEW announced \in BOOLEAN
  PROVE  /\ Announced(PageOf(poll.contract, poll.from)) \in SUBSET Events
         /\ Announced(PageOf(poll.contract, poll.from)) \intersect recorded = {}
         /\ Announced(Done(n, announced)) \in SUBSET Events
         /\ Announced(Done(n, announced)) \intersect recorded = {}
<1>1. PICK page : page = PageOf(poll.contract, poll.from)
  OBVIOUS
<1>2. page \subseteq Items /\ \A i \in page : i[1] # Horizon
  BY <1>1, AnswerIs DEF IngestIndInv
<1>3. Done(n, announced) \subseteq page
  BY <1>1 DEF Done, Begun, FirstOf
<1>4. Done(n, announced) \in SUBSET Items /\ \A i \in Done(n, announced) : i[1] # Horizon
  BY <1>2, <1>3
<1> QED
  BY <1>1, <1>2, <1>4, AnnouncedIs

\* The step of the composition is one of ingestion, or leaves ingestion alone.
LEMMA IngestSimulated == [IndexerNext]_indexerVars => [IngestNext]_ingestVars
<1> SUFFICES ASSUME [IndexerNext]_indexerVars PROVE [IngestNext]_ingestVars
  OBVIOUS
<1>1. CASE UNCHANGED indexerVars
  BY <1>1 DEF indexerVars
<1>2. CASE ChainMoves
  BY <1>2 DEF ChainMoves, IngestNext
<1>3. CASE IngestStep
  BY <1>3 DEF IngestStep, IngestNext
<1>4. ASSUME NEW last \in BOOLEAN, PageStep(last)
      PROVE  IngestNext
  BY <1>4 DEF PageStep, IngestNext
<1>5. CASE OutboxStep
  BY <1>5 DEF OutboxStep
<1>6. CASE Dies
  BY <1>6 DEF Dies, IngestNext
<1> QED
  BY <1>1, <1>2, <1>3, <1>4, <1>5, <1>6 DEF IndexerNext

\* And one of the outbox, or it leaves the outbox alone.
LEMMA OutboxSimulated ==
  ASSUME EventsOfContracts
  PROVE  IngestIndInv /\ LinkInv /\ [IndexerNext]_indexerVars => [OutboxNext]_outboxVars
<1> SUFFICES ASSUME IngestIndInv, LinkInv, [IndexerNext]_indexerVars
             PROVE  [OutboxNext]_outboxVars
  OBVIOUS
<1>1. CASE UNCHANGED indexerVars
  BY <1>1 DEF indexerVars
<1>2. CASE ChainMoves
  BY <1>2 DEF ChainMoves
<1>3. CASE IngestStep
  BY <1>3 DEF IngestStep
<1>4. ASSUME NEW last \in BOOLEAN, PageStep(last)
      PROVE  [OutboxNext]_outboxVars
  <2>1. /\ poll.at = "page"
        /\ \/ UNCHANGED outboxVars
           \/ Enqueue(Announced(PageOf(poll.contract, poll.from)))
    BY <1>4 DEF PageStep, GotPage, EnqueuedNew
  <2>2. Announced(PageOf(poll.contract, poll.from)) \in SUBSET Events
    BY <2>1, PageAnnounced
  <2> QED
    BY <2>1, <2>2 DEF OutboxNext
<1>5. CASE OutboxStep
  BY <1>5 DEF OutboxStep, OutboxNext
<1>6. CASE (IngestCrash \/ CrashInLedger) /\ OutboxCrash({})
  BY <1>6 DEF OutboxNext
<1>7. ASSUME NEW n \in 1 .. PageSize, NEW announced \in BOOLEAN,
             CrashInPage(n, announced), OutboxCrash(Announced(Done(n, announced)))
      PROVE  OutboxNext
  <2>1. poll.at = "page" /\ n \in Int
    BY <1>7 DEF CrashInPage
  <2>2. Announced(Done(n, announced)) \in SUBSET Events
    BY <2>1, PageAnnounced
  <2> QED
    BY <1>7, <2>2 DEF OutboxNext
<1> QED
  BY <1>1, <1>2, <1>3, <1>4, <1>5, <1>6, <1>7 DEF IndexerNext, Dies

\* Announced events are recorded in the same step.
LEMMA LinkKept ==
  ASSUME EventsOfContracts, IngestIndInv, LinkInv, NEW events \in SUBSET Events, events \intersect recorded = {},
         notices' = [i \in Items |-> IF i \in events THEN notices[i] + 1 ELSE notices[i]],
         recorded' = recorded \union events
  PROVE  LinkInv'
<1>1. \A i \in Events : notices[i] \in {0, 1} /\ (i \in recorded <=> notices[i] = 1)
  BY EventsAre DEF IngestIndInv, NoticesInv, LinkInv
<1>2. \A i \in Events : notices'[i] = IF i \in events THEN notices[i] + 1 ELSE notices[i]
  BY EventsAre
<1>3. recorded \subseteq Events /\ recorded' \subseteq Events
  BY DEF LinkInv
<1>4. \A i \in Events : i \in recorded' <=> notices'[i] = 1
  BY <1>1, <1>2
<1> QED
  BY <1>3, <1>4 DEF LinkInv

LEMMA LinkNext ==
  ASSUME EventsOfContracts
  PROVE  IngestIndInv /\ LinkInv /\ [IndexerNext]_indexerVars => LinkInv'
<1> SUFFICES ASSUME IngestIndInv, LinkInv, [IndexerNext]_indexerVars PROVE LinkInv'
  OBVIOUS
<1>1. ASSUME UNCHANGED <<notices, recorded>>
      PROVE  LinkInv'
  BY <1>1 DEF LinkInv
<1>2. CASE UNCHANGED indexerVars
  BY <1>1, <1>2 DEF indexerVars, ingestVars, tables, outboxVars, store
<1>3. CASE ChainMoves
  BY <1>1, <1>3 DEF ChainMoves, CloseLedger, tables, outboxVars, store
<1>4. CASE IngestStep
  <2>1. UNCHANGED recorded
    BY <1>4 DEF IngestStep, outboxVars, store
  <2>2. UNCHANGED notices
    BY <1>4 DEF IngestStep, PollStart, GotHead, GotNoPage, GotHorizonHead, GotLedgers,
                GotLedger, Fail, ResetStream, tables
  <2> QED
    BY <1>1, <2>1, <2>2
<1>5. ASSUME NEW last \in BOOLEAN, PageStep(last)
      PROVE  LinkInv'
  <2>1. PICK events : events = Announced(PageOf(poll.contract, poll.from))
    OBVIOUS
  <2>2. /\ poll.at = "page"
        /\ notices' = [i \in Items |-> IF i \in events THEN notices[i] + 1 ELSE notices[i]]
    BY <1>5, <2>1 DEF PageStep, GotPage, Written
  <2>3. events \in SUBSET Events /\ events \intersect recorded = {}
    BY <2>1, <2>2, PageAnnounced
  <2>4. recorded' = recorded \union events
    BY <1>5, <2>1 DEF PageStep, EnqueuedNew, Enqueue, Enqueued, outboxVars, store
  <2> QED
    BY <2>2, <2>3, <2>4, LinkKept
<1>6. CASE OutboxStep
  <2>1. UNCHANGED notices
    BY <1>6 DEF OutboxStep, ingestVars, tables
  <2>2. UNCHANGED recorded
    BY <1>6 DEF OutboxStep, CreateSubscription, DeleteSubscription, Dispatch, Answer, Tick,
                Restart, store
  <2> QED
    BY <1>1, <2>1, <2>2
<1>7. CASE (IngestCrash \/ CrashInLedger) /\ OutboxCrash({})
  <2>1. UNCHANGED notices
    BY <1>7 DEF IngestCrash, CrashInLedger
  <2>2. UNCHANGED recorded
    BY <1>7 DEF OutboxCrash, Enqueued
  <2> QED
    BY <1>1, <2>1, <2>2
<1>8. ASSUME NEW n \in 1 .. PageSize, NEW announced \in BOOLEAN,
             CrashInPage(n, announced), OutboxCrash(Announced(Done(n, announced)))
      PROVE  LinkInv'
  <2>1. PICK events : events = Announced(Done(n, announced))
    OBVIOUS
  <2>2. /\ poll.at = "page" /\ n \in Int
        /\ notices' = [i \in Items |-> IF i \in events THEN notices[i] + 1 ELSE notices[i]]
    BY <1>8, <2>1 DEF CrashInPage, Written
  <2>3. events \in SUBSET Events /\ events \intersect recorded = {}
    BY <2>1, <2>2, PageAnnounced
  <2>4. recorded' = recorded \union events
    BY <1>8, <2>1 DEF OutboxCrash, Enqueued
  <2> QED
    BY <2>2, <2>3, <2>4, LinkKept
<1> QED
  BY <1>2, <1>3, <1>4, <1>5, <1>6, <1>7, <1>8 DEF IndexerNext, Dies

LEMMA IndexerInitInv ==
  ASSUME EventsOfContracts
  PROVE  IndexerInit => IndexerIndInv
<1> SUFFICES ASSUME IndexerInit PROVE IndexerIndInv
  OBVIOUS
<1>1. LinkInv
  BY EventsAre DEF IndexerInit, IngestInit, OutboxInit, LinkInv
<1> QED
  BY <1>1, IngestInitInv, OutboxInitInv DEF IndexerInit, IndexerIndInv

LEMMA IndexerNextInv ==
  ASSUME EventsOfContracts
  PROVE  IndexerIndInv /\ [IndexerNext]_indexerVars => IndexerIndInv'
BY IngestSimulated, IngestNextInv, OutboxSimulated, OutboxNextInv, LinkNext DEF IndexerIndInv

LEMMA IndexerInvariant ==
  ASSUME EventsOfContracts
  PROVE  IndexerSpec => []IndexerIndInv
BY IndexerInitInv, IndexerNextInv, PTL DEF IndexerSpec

\* In one process with the dispatcher, whatever it does, ingestion behaves as its
\* own specification says: pollOnce and POST /admin/replay, with the crashes.
THEOREM IngestionUndisturbed == IndexerSpec => IngestSpec
<1>1. IndexerInit => IngestInit
  BY DEF IndexerInit
<1> QED
  BY <1>1, IngestSimulated, PTL DEF IndexerSpec, IngestSpec

\* And the outbox behaves as its own: what the pages of ingestion enqueue is what
\* its specification allows, new events and each only once (enqueue, dispatchOnce).
THEOREM OutboxUndisturbed ==
  ASSUME EventsOfContracts
  PROVE  IndexerSpec => OutboxSpec
<1>1. IndexerInit => OutboxInit
  BY DEF IndexerInit
<1>2. IndexerIndInv => IngestIndInv /\ LinkInv
  BY DEF IndexerIndInv
<1> QED
  BY <1>1, <1>2, IndexerInvariant, OutboxSimulated, PTL DEF IndexerSpec, OutboxSpec

\* So everything that is promised of the two alone holds of the indexer: the
\* checkpoints vouch, rows and attempts are counted, a delivery is for good.
THEOREM IndexerKeepsBothPromises ==
  ASSUME EventsOfContracts
  PROVE  IndexerSpec => /\ [](IngestInv /\ NoGap /\ OutboxInv)
                        /\ DeliveredStays
BY IngestionUndisturbed, OutboxUndisturbed, CheckpointsVouch, AnnouncementsCounted,
   AttemptsAlwaysCounted, DeliveredForGood, PTL

\* Deliveries are made of events whose row is there, and without a crash of all of
\* them, exactly as pollContractEvents called enqueue: for every configuration, and
\* whatever is replayed, deleted or cut off in a page.
THEOREM DeliveriesOnlyOfRows ==
  ASSUME EventsOfContracts
  PROVE  IndexerSpec => []DeliveriesMatchRows
<1>1. IndexerIndInv => DeliveriesMatchRows
  <2> SUFFICES ASSUME IngestIndInv, OutboxIndInv, LinkInv PROVE DeliveriesMatchRows
    BY DEF IndexerIndInv
  <2>1. recorded = {i \in Events : notices[i] = 1}
    BY DEF LinkInv
  <2>2. \A d \in Deliveries : delivery[d].status # "absent" => d[2] \in recorded
    BY DEF OutboxIndInv, RowsInv
  <2>3. recorded \subseteq stored
    BY <2>1, EventsAre DEF IngestIndInv, NoticesInv
  <2>4. ASSUME crashes = 0, NEW i \in stored \intersect Events
        PROVE  i \in recorded
    BY <2>1, <2>4, EventsAre DEF IngestIndInv, NoticesInv
  <2> QED
    BY <2>1, <2>2, <2>3, <2>4 DEF DeliveriesMatchRows
<1> QED
  BY <1>1, IndexerInvariant, PTL

\* What a step does for the events that get a row in it.
Heard ==
  \A d \in Matching :
    d[2] \in stored' \ stored /\ subscription[d[1]] = "active" /\ up'
      => delivery'[d].status = "pending"

LEMMA NewRowsHeard ==
  ASSUME EventsOfContracts
  PROVE  [IndexerNext]_indexerVars => Heard
<1> SUFFICES ASSUME [IndexerNext]_indexerVars, NEW d \in Matching,
                    d[2] \in stored' \ stored, subscription[d[1]] = "active", up'
             PROVE  delivery'[d].status = "pending"
  BY DEF Heard
<1>0. d \in Deliveries /\ d[2] \in Events
  BY OutboxAssumption DEF Deliveries
<1>1. stored' # stored
  OBVIOUS
<1>2. CASE \/ UNCHANGED indexerVars \/ ChainMoves \/ OutboxStep
  BY <1>1, <1>2 DEF indexerVars, ChainMoves, CloseLedger, OutboxStep, ingestVars, tables
<1>3. CASE IngestStep
  <2>1. \E l : stored' = stored \union {<<Horizon, l, 1>>}
    BY <1>1, <1>3 DEF IngestStep, PollStart, GotHead, GotNoPage, GotHorizonHead, GotLedgers,
                      GotLedger, Fail, ResetStream, tables
  <2>2. PICK l : d[2] = <<Horizon, l, 1>>
    BY <2>1
  <2> QED
    BY <1>0, <2>2, EventsAre
<1>4. ASSUME NEW last \in BOOLEAN, PageStep(last)
      PROVE  delivery'[d].status = "pending"
  <2>1. PICK page : page = PageOf(poll.contract, poll.from)
    OBVIOUS
  <2>2. stored' = stored \union page
    BY <1>4, <2>1 DEF PageStep, GotPage, Written
  <2>3. d[2] \in Announced(page)
    BY <2>2 DEF Announced
  <2>4. Enqueued(Announced(page))
    BY <1>4, <2>1, <2>3 DEF PageStep, EnqueuedNew, Enqueue
  <2> QED
    BY <1>0, <2>3, <2>4 DEF Enqueued, Absent
<1>5. CASE Dies
  BY <1>5 DEF Dies, OutboxCrash
<1> QED
  BY <1>2, <1>3, <1>4, <1>5 DEF IndexerNext

\* A subscriber hears of each event of a page that is new, whatever else the page
\* repeats and whatever the dispatcher is doing, unless the process dies in that
\* step (pollContractEvents, enqueue).
THEOREM NewEventsHeard ==
  ASSUME EventsOfContracts
  PROVE  IndexerSpec => NewEventsAreEnqueued
<1>1. Heard => [\A d \in Matching :
       d[2] \in stored' \ stored /\ subscription[d[1]] = "active" /\ up'
         => delivery'[d].status = "pending"]_indexerVars
  BY DEF Heard
<1> QED
  BY <1>1, NewRowsHeard, PTL DEF IndexerSpec, NewEventsAreEnqueued
=============================================================================
