---------------------------- MODULE WebhookOutbox ----------------------------
(***************************************************************************)
(* The webhook outbox of the event indexer: the subscriptions, the         *)
(* deliveries that an indexed event creates for them, and the dispatcher   *)
(* that posts due deliveries and retries with exponential backoff.         *)
(*                                                                         *)
(* Subscriptions and deliveries are rows of SQLite and survive a crash;    *)
(* the dispatcher's rounds are in memory.  setInterval starts a round      *)
(* whether or not the one before has finished, so several may run.  A      *)
(* round reads its deliveries once, then posts them one after the other:   *)
(* what it knows of a delivery, its attempts included, is as old as the    *)
(* round.  Each step below runs up to the next await of the code.          *)
(*                                                                         *)
(* Time is counted in seconds.  A delivery carries the time left until     *)
(* its next attempt and a round its age, so that no clock is needed.       *)
(***************************************************************************)
EXTENDS IndexerProcess, FiniteSets, FiniteSetsExt

CONSTANTS
  Subscriptions,  \* ids of subscriptions
  Events,         \* ids of indexed events
  Matching,       \* <<s, e>> such that the filters of s accept e
  Rounds,         \* names of rounds: bounds how many run at once
  MaxAttempts,    \* config.webhook.maxAttempts
  BaseBackoff,    \* config.webhook.baseBackoffMs, in seconds
  MaxBackoff,     \* config.webhook.maxBackoffMs, in seconds
  Interval,       \* config.webhook.dispatchIntervalMs, in seconds
  Timeout,        \* config.webhook.timeoutMs, in seconds
  Limit           \* deliveries that a round takes at most

ASSUME OutboxAssumption ==
  /\ Matching \subseteq Subscriptions \X Events
  /\ IsFiniteSet(Rounds)
  /\ {MaxAttempts, BaseBackoff, MaxBackoff, Interval, Timeout, Limit} \subseteq Nat \ {0}

VARIABLES
  subscription,  \* webhook_subscriptions: what became of each id
  recorded,      \* events that were inserted and handed to enqueue
  delivery,      \* webhook_deliveries: status, attempts, time to next_attempt_at
  up,            \* the process is running
  timer,         \* time until setInterval starts the next round
  round,         \* the rounds of dispatchOnce that have not finished
  posts,         \* history: POSTs sent for each delivery
  lost,          \* history: POSTs whose answer a crash lost, for each delivery
  shared         \* history: deliveries that two rounds have held at once

store == <<subscription, recorded, delivery>>
outboxHistory == <<posts, lost, shared, crashes>>
outboxVars == <<store, up, timer, round, outboxHistory>>

Deliveries == Subscriptions \X Events
None == <<>>

\* A row of webhook_deliveries that does not exist.
Absent == [status |-> "absent", attempts |-> 0, delay |-> 0]

\* A round that is not running.
Idle == [posting |-> None, todo |-> {}, seen |-> [d \in Deliveries |-> 0],
         age |-> 0, waited |-> 0]

Statuses == {"absent", "pending", "delivered", "failed", "gone"}

RoundStates ==
  [posting : Deliveries \union {None}, todo : SUBSET Deliveries,
   seen : [Deliveries -> 0 .. MaxAttempts], age : 0 .. MaxBackoff, waited : 0 .. Timeout]

OutboxTypeOK ==
  /\ subscription \in [Subscriptions -> {"absent", "active", "inactive", "deleted"}]
  /\ recorded \subseteq Events
  /\ delivery \in [Deliveries -> [status : Statuses, attempts : 0 .. MaxAttempts,
                                  delay : 0 .. MaxBackoff]]
  /\ up \in BOOLEAN
  /\ timer \in 0 .. Interval
  /\ round \in [Rounds -> RoundStates]
  /\ posts \in [Deliveries -> Nat]
  /\ lost \in [Deliveries -> Nat]
  /\ shared \subseteq Deliveries
  /\ crashes \in 0 .. MaxCrashes

OutboxInit ==
  /\ subscription = [s \in Subscriptions |-> "absent"]
  /\ recorded = {}
  /\ delivery = [d \in Deliveries |-> Absent]
  /\ up = TRUE
  /\ timer = Interval
  /\ round = [r \in Rounds |-> Idle]
  /\ posts = [d \in Deliveries |-> 0]
  /\ lost = [d \in Deliveries |-> 0]
  /\ shared = {}
  /\ crashes = 0

-----------------------------------------------------------------------------
(* The API and the ingestor.                                               *)

CreateSubscription(s, active) ==
  /\ up
  /\ subscription[s] = "absent"
  /\ subscription' = [subscription EXCEPT ![s] = IF active THEN "active" ELSE "inactive"]
  /\ UNCHANGED <<recorded, delivery, up, timer, round, outboxHistory>>

\* Deleting a subscription deletes its deliveries: ON DELETE CASCADE.
DeleteSubscription(s) ==
  /\ up
  /\ subscription[s] \in {"active", "inactive"}
  /\ subscription' = [subscription EXCEPT ![s] = "deleted"]
  /\ delivery' = [d \in Deliveries |->
       IF d[1] = s /\ delivery[d].status # "absent"
       THEN [Absent EXCEPT !.status = "gone"] ELSE delivery[d]]
  /\ UNCHANGED <<recorded, up, timer, round, outboxHistory>>

\* The ingestor enqueues an event when its row is new: one delivery, due at
\* once, for each active subscription that the event matches.
Enqueued(events) ==
  /\ recorded' = recorded \union events
  /\ delivery' = [d \in Deliveries |->
       IF d[2] \in events /\ d \in Matching /\ subscription[d[1]] = "active"
       THEN [Absent EXCEPT !.status = "pending"] ELSE delivery[d]]
  /\ UNCHANGED subscription

\* The new events of a page, one after the other without an await between them.
Enqueue(events) ==
  /\ up
  /\ events # {} /\ events \intersect recorded = {}
  /\ Enqueued(events)
  /\ UNCHANGED <<up, timer, round, outboxHistory>>

-----------------------------------------------------------------------------
(* The dispatcher.                                                         *)

\* Fault: due reads deliveries in any status.
DueInAnyStatus(d) == delivery[d].status \notin {"absent", "gone"} /\ delivery[d].delay = 0

Due(d) == delivery[d].status = "pending" /\ delivery[d].delay = 0

\* A row that exists; an UPDATE of another one changes nothing.
Stored(deliveries, d) == deliveries[d].status \notin {"absent", "gone"}

Delivered(row) == [row EXCEPT !.status = "delivered"]

\* Fault: the last attempt is never made.
LastAttemptEarly(attempts) == attempts + 1 >= MaxAttempts

LastAttempt(attempts) == attempts >= MaxAttempts

Backoff(attempts) == Min({MaxBackoff, BaseBackoff * 2 ^ (attempts - 1)})

\* Fault: a retry forgets to count the attempt.
RetriedUncounted(row, attempts, age) ==
  [row EXCEPT !.delay = Max({0, Backoff(attempts) - age})]

\* markRetry counts from the start of the round, as dispatchOnce's `now` does,
\* and leaves the status as it is.
Retried(row, attempts, age) ==
  [row EXCEPT !.attempts = attempts, !.delay = Max({0, Backoff(attempts) - age})]

Failed(row, attempts) == [row EXCEPT !.status = "failed", !.attempts = attempts]

\* The row after handleFailure with the attempts that the round read, plus one.
Refused(row, attempts, age) ==
  IF LastAttempt(attempts) THEN Failed(row, attempts) ELSE Retried(row, attempts, age)

\* Round q posts its next delivery.  Deliveries whose subscription is gone or
\* inactive are marked failed on the way: their rows are gone with it, since
\* no delivery is made for an inactive subscription and none is deactivated.
Proceed(r, q) ==
  LET live == {d \in q.todo : subscription[d[1]] = "active"}
  IN IF live = {}
     THEN /\ round' = [round EXCEPT ![r] = Idle]
          /\ UNCHANGED posts
     ELSE \E d \in live :
            /\ round' = [round EXCEPT ![r] =
                 [q EXCEPT !.posting = d, !.todo = live \ {d}, !.waited = 0]]
            /\ posts' = [posts EXCEPT ![d] = @ + 1]

Held(r) == round[r].todo \union ({round[r].posting} \ {None})

\* setInterval starts a round, which takes the due deliveries, Limit at most.
\* The oldest come first in the code; here any of them may.
Dispatch(r) ==
  /\ up
  /\ timer = 0
  /\ round[r] = Idle
  /\ timer' = Interval
  /\ \E taken \in kSubset(Min({Limit, Cardinality({d \in Deliveries : Due(d)})}),
                          {d \in Deliveries : Due(d)}) :
       /\ Proceed(r, [Idle EXCEPT !.todo = taken,
                        !.seen = [d \in Deliveries |->
                                    IF d \in taken THEN delivery[d].attempts ELSE 0]])
       /\ shared' = shared \union (taken \intersect UNION {Held(q) : q \in Rounds})
  /\ UNCHANGED <<store, up, lost, crashes>>

\* The POST is answered.  A refusal is an HTTP status that is not ok, an error
\* of the network, or the abort when the time is up; the receiver may have
\* accepted the event all the same.
Answer(r, ok) ==
  LET q == round[r]
      d == q.posting
      row == delivery[d]
  IN /\ up
     /\ d # None
     /\ delivery' = [delivery EXCEPT ![d] =
          IF ~Stored(delivery, d) THEN row
          ELSE IF ok THEN Delivered(row)
          ELSE Refused(row, q.seen[d] + 1, q.age)]
     /\ Proceed(r, [q EXCEPT !.seen[d] = 0])
     /\ UNCHANGED <<subscription, recorded, up, timer, lost, shared, crashes>>

\* Fault: the POST is sent without the abort signal.
AbortNever(r) == Answer(r, FALSE) /\ round[r].waited > Timeout

\* The AbortController's timer fires: the POST is refused.
Abort(r) == round[r].waited >= Timeout /\ Answer(r, FALSE)

\* A second passes.
Tick ==
  /\ timer' = Max({0, timer - 1})
  /\ delivery' = [d \in Deliveries |->
       [delivery[d] EXCEPT !.delay = Max({0, @ - 1})]]
  /\ round' = [r \in Rounds |->
       IF round[r].posting = None THEN round[r]
       ELSE [round[r] EXCEPT !.age = Min({MaxBackoff, @ + 1}),
                             !.waited = Min({Timeout, @ + 1})]]
  /\ UNCHANGED <<subscription, recorded, up, outboxHistory>>

\* The process dies, perhaps within a page of which some new events have been
\* enqueued: its rounds are lost, and with them the answers to come.
OutboxCrash(events) ==
  /\ up
  /\ ProcessDies
  /\ events \intersect recorded = {}
  /\ Enqueued(events)
  /\ up' = FALSE
  /\ lost' = [d \in Deliveries |->
       lost[d] + Cardinality({r \in Rounds : round[r].posting = d})]
  /\ round' = [r \in Rounds |-> Idle]
  /\ UNCHANGED <<timer, posts, shared>>

Restart ==
  /\ ~up
  /\ up' = TRUE
  /\ timer' = Interval
  /\ UNCHANGED <<store, round, outboxHistory>>

OutboxNext ==
  \/ \E s \in Subscriptions, active \in BOOLEAN : CreateSubscription(s, active)
  \/ \E s \in Subscriptions : DeleteSubscription(s)
  \/ \E events \in SUBSET Events : Enqueue(events) \/ OutboxCrash(events)
  \/ \E r \in Rounds : Dispatch(r)
  \/ \E r \in Rounds, ok \in BOOLEAN : Answer(r, ok)
  \/ Tick
  \/ Restart

OutboxSpec == OutboxInit /\ [][OutboxNext]_outboxVars

\* Time passes, the timers of the event loop fire, and a supervisor restarts
\* the process.  Nothing is assumed of the receivers.
OutboxFairness ==
  /\ WF_outboxVars(Tick)
  /\ WF_outboxVars(Restart)
  /\ WF_outboxVars(\E r \in Rounds : Dispatch(r))
  /\ \A r \in Rounds : WF_outboxVars(Abort(r))

OutboxFairSpec == OutboxSpec /\ OutboxFairness

-----------------------------------------------------------------------------
(* Properties.                                                             *)

\* The attempts that a row counts were all made: no interleaving of rounds
\* and no crash makes the dispatcher (handleFailure) give up on a delivery
\* before it has been posted MaxAttempts times.
FailedWasTried ==
  \A d \in Deliveries :
    /\ posts[d] >= delivery[d].attempts
    /\ delivery[d].status = "failed" => posts[d] >= MaxAttempts

\* A delivery that no two rounds ever held at once is posted MaxAttempts
\* times at most, but for the posts whose answer a crash lost (dispatchOnce).
RetriesWithinMax ==
  \A d \in Deliveries \ shared : posts[d] <= MaxAttempts + lost[d]

\* The outbox's rows (webhook_deliveries) keep their types, count no attempt that
\* was not made, and allow no more attempts than are counted (dispatchOnce).
OutboxInv == OutboxTypeOK /\ FailedWasTried /\ RetriesWithinMax

\* A delivery that no two rounds ever held at once stays delivered once it
\* is: the dispatcher neither posts it again nor marks it failed.
DeliveredStays ==
  [][\A d \in Deliveries :
       delivery[d].status = "delivered" /\ d \notin shared =>
         /\ delivery'[d].status \in {"delivered", "gone"}
         /\ posts'[d] = posts[d]]_outboxVars

\* Every delivery is settled in the end, whatever the receivers answer and
\* however the rounds overlap: it is delivered, given up, or deleted with its
\* subscription.
DeliveriesSettle ==
  \A d \in Deliveries :
    delivery[d].status = "pending" ~> delivery[d].status \in {"delivered", "failed", "gone"}

\* README.md of the indexer: failed deliveries are retried, "stopping after
\* INDEXER_WEBHOOK_MAX_ATTEMPTS attempts", and dispatchOnce is what stops.
StopsAfterMaxAttempts ==
  \A d \in Deliveries : posts[d] <= MaxAttempts
=============================================================================
