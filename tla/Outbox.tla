------------------------------- MODULE Outbox -------------------------------
(***************************************************************************)
(* The transactional outbox: enrichment sessions insert event rows, every  *)
(* replica's publish loop (workers.py) leases the oldest row it may send,  *)
(* sends it to Kafka and completes it after the broker's acknowledgement.  *)
(*                                                                         *)
(* Events are numbered by (created_at, id).  created_at is taken from the  *)
(* inserting replica's clock when the row is flushed, so between sessions  *)
(* that order is neither the order of the commits nor, if clocks disagree, *)
(* the order of the inserts.                                               *)
(***************************************************************************)
EXTENDS WorkQueue, Sequences, FiniteSets

CONSTANTS Event,      \* outbox rows that may come to exist, a set of positive integers
          Account,    \* partition keys
          Batch,      \* enrichment transactions, each inserts the events of one ledger row
          Replica,    \* replicas: each runs an enrichment and a publish loop
          AccountOf,  \* the partition key of an event
          BatchOf,    \* the enrichment transaction that inserts an event
          ClockAhead  \* seconds each replica's clock is ahead of the slowest one

ASSUME EventAssumption == Event \subseteq Nat \ {0}
ASSUME AccountAssumption == AccountOf \in [Event -> Account]
ASSUME BatchAssumption == BatchOf \in [Event -> Batch]
ASSUME SameAccountAssumption ==
  \A e, f \in Event : BatchOf[e] = BatchOf[f] => AccountOf[e] = AccountOf[f]
ASSUME ReplicaAssumption == ClockAhead \in [Replica -> Nat]

VARIABLES stage,    \* how far an event's insertion has come
          writing,  \* the enrichment transaction a replica has open
          row,      \* the lease columns of outbox_events
          loop,     \* the publish loops
          started,  \* _producer_started of each replica
          log,      \* the records Kafka stored for each partition key
          inflight, \* records sent, by event and claim, that Kafka may still store
          late      \* history: pairs of an event and a later one claimed before it committed

vars == <<stage, writing, row, loop, started, log, inflight, late>>

NoBatch == "none"
ASSUME NoBatchAssumption == NoBatch \notin Batch

NoEvent == 0
Idle == [pc |-> "idle", event |-> NoEvent, token |-> NoToken]
LoopState == [pc    : {"idle", "sending", "acked", "failed"},
              event : Event \cup {NoEvent},
              token : Token \cup {NoToken}]

\* Publish loop p goes on to pc with its claim.
At(p, pc) == [pc |-> pc, event |-> loop[p].event, token |-> loop[p].token]

EventsOf(b) == {e \in Event : BatchOf[e] = b}
Earlier(e, f) == e < f /\ AccountOf[e] = AccountOf[f]
Delivered(e) == \E i \in 1..Len(log[AccountOf[e]]) : log[AccountOf[e]][i] = e

Init ==
  /\ stage = [e \in Event |-> "future"]
  /\ writing = [r \in Replica |-> NoBatch]
  /\ row = [e \in Event |-> NewRow(0)]
  /\ loop = [r \in Replica |-> Idle]
  /\ started = [r \in Replica |-> FALSE]
  /\ log = [a \in Account |-> <<>>]
  /\ inflight = {}
  /\ late = {}

-----------------------------------------------------------------------------
\* An enrichment transaction begins; owns() lets one replica at a time work on a batch.
BeginBatch(r, b) ==
  /\ writing[r] = NoBatch
  /\ \A q \in Replica : writing[q] # b
  /\ \A e \in EventsOf(b) : stage[e] = "future"
  /\ writing' = [writing EXCEPT ![r] = b]
  /\ UNCHANGED <<stage, row, loop, started, log, inflight, late>>

\* session.add and flush of the next event of the batch: created_at is stamped here.
Insert(r, e) ==
  /\ writing[r] = BatchOf[e]
  /\ stage[e] = "future"
  /\ \A f \in EventsOf(BatchOf[e]) : f < e => stage[f] # "future"
  /\ stage' = [stage EXCEPT ![e] = "flushed"]
  /\ row' = [row EXCEPT ![e] = NewRow(ClockAhead[r])]
  /\ UNCHANGED <<writing, loop, started, log, inflight, late>>

\* The transaction commits: its rows become visible to the publishers together.
CommitBatch(r) ==
  LET b == writing[r] IN
  /\ b # NoBatch
  /\ \A e \in EventsOf(b) : stage[e] = "flushed"
  /\ stage' = [e \in Event |-> IF BatchOf[e] = b THEN "committed" ELSE stage[e]]
  /\ writing' = [writing EXCEPT ![r] = NoBatch]
  /\ late' = late \cup {pair \in Event \X Event :
                          /\ BatchOf[pair[1]] = b
                          /\ Earlier(pair[1], pair[2])
                          /\ row[pair[2]].attempts > 0}
  /\ UNCHANGED <<row, loop, started, log, inflight>>

\* The transaction fails; what its job inserts on a retry gets new ids and timestamps.
RollbackBatch(r) ==
  LET b == writing[r] IN
  /\ b # NoBatch
  /\ stage' = [e \in Event |-> IF BatchOf[e] = b THEN "dropped" ELSE stage[e]]
  /\ writing' = [writing EXCEPT ![r] = NoBatch]
  /\ UNCHANGED <<row, loop, started, log, inflight, late>>

-----------------------------------------------------------------------------
\* Mutant: earlier open rows of the account are not looked at.
ClaimableOutOfOrder(p) ==
  {e \in Event : stage[e] = "committed" /\ Eligible(row[e], ClockAhead[p])}

\* The rows claim() may return: eligible, and with no open earlier row of the account.
Claimable(p) ==
  {e \in Event :
     /\ stage[e] = "committed"
     /\ Eligible(row[e], ClockAhead[p])
     /\ \A f \in Event : Earlier(f, e) /\ stage[f] = "committed" => row[f].completed}

\* publish_once, first transaction: claim the oldest claimable row.
Claim(p, e) ==
  /\ loop[p].pc = "idle"
  /\ e \in Claimable(p)
  /\ \A f \in Claimable(p) : e <= f
  /\ row' = [row EXCEPT ![e] = Claimed(@, ClockAhead[p])]
  /\ loop' = [loop EXCEPT ![p] = [pc |-> "sending", event |-> e, token |-> row[e].attempts + 1]]
  /\ UNCHANGED <<stage, writing, started, log, inflight, late>>

\* The producer is started on first use and after every failure.
StartProducer(p) ==
  /\ loop[p].pc = "sending"
  /\ ~started[p]
  /\ started' = [started EXCEPT ![p] = TRUE]
  /\ UNCHANGED <<stage, writing, row, loop, log, inflight, late>>

\* Kafka stores the record on the partition of its key.
Store(e) == log' = [log EXCEPT ![AccountOf[e]] = Append(@, e)]

\* send_and_wait returns: the broker has stored the record and acknowledged it.
Send(p) ==
  /\ loop[p].pc = "sending"
  /\ started[p]
  /\ Store(loop[p].event)
  /\ loop' = [loop EXCEPT ![p] = At(p, "acked")]
  /\ UNCHANGED <<stage, writing, row, started, inflight, late>>

(***************************************************************************)
(* The loop sees an exception, or its timeout, but the record is still in  *)
(* the producer's buffer or on its way: the broker may store it at any     *)
(* later time (_stop_producer flushes, and gives up waiting after 5 s).    *)
(***************************************************************************)
SendUnacknowledged(p) ==
  /\ loop[p].pc = "sending"
  /\ started[p]
  /\ inflight' = inflight \cup {<<loop[p].event, loop[p].token>>}
  /\ loop' = [loop EXCEPT ![p] = At(p, "failed")]
  /\ UNCHANGED <<stage, writing, row, started, log, late>>

\* The idempotent producer stores a record once, however late.
StoreLate(e, token) ==
  /\ <<e, token>> \in inflight
  /\ Store(e)
  /\ inflight' = inflight \ {<<e, token>>}
  /\ UNCHANGED <<stage, writing, row, loop, started, late>>

\* A record on its way is lost with the connection or the process.
LoseLate(e, token) ==
  /\ <<e, token>> \in inflight
  /\ inflight' = inflight \ {<<e, token>>}
  /\ UNCHANGED <<stage, writing, row, loop, started, log, late>>

\* Mutant: a send that raises is taken for one that was acknowledged.
PublishFailsUnnoticed(p) ==
  /\ loop[p].pc \in {"sending", "acked"}
  /\ loop' = [loop EXCEPT ![p] = At(p, "acked")]
  /\ UNCHANGED <<stage, writing, row, started, log, inflight, late>>

\* The producer cannot start, the send fails, or the completing transaction raises.
PublishFails(p) ==
  /\ loop[p].pc \in {"sending", "acked"}
  /\ loop' = [loop EXCEPT ![p] = At(p, "failed")]
  /\ UNCHANGED <<stage, writing, row, started, log, inflight, late>>

(***************************************************************************)
(* Second transaction: owns() and complete() under the row's lock.  If the *)
(* acknowledgement of the commit is lost the loop sees an exception.       *)
(***************************************************************************)
Complete(p, acknowledged) ==
  LET e == loop[p].event IN
  /\ loop[p].pc = "acked"
  /\ row' = IF Owns(row[e], loop[p].token, ClockAhead[p])
            THEN [row EXCEPT ![e] = Completed(@, loop[p].token)]
            ELSE row
  /\ loop' = [loop EXCEPT ![p] = IF acknowledged THEN Idle ELSE At(p, "failed")]
  /\ UNCHANGED <<stage, writing, started, log, inflight, late>>

\* Mutant: the handler publishes again under the claim it already has.
RetryAtOnce(p) ==
  /\ loop[p].pc = "failed"
  /\ loop' = [loop EXCEPT ![p] = At(p, "sending")]
  /\ UNCHANGED <<stage, writing, row, started, log, inflight, late>>

\* The exception handler: stop the producer, then give the row back with a delay.
Retry(p) ==
  LET e == loop[p].event IN
  /\ loop[p].pc = "failed"
  /\ started' = [started EXCEPT ![p] = FALSE]
  /\ row' = [row EXCEPT ![e] = Retried(@, loop[p].token, ClockAhead[p])]
  /\ loop' = [loop EXCEPT ![p] = Idle]
  /\ UNCHANGED <<stage, writing, log, inflight, late>>

\* The process dies or stop() cancels the loop, or _retry raises: the claim is left to expire.
Abandon(p) ==
  /\ loop[p].pc # "idle"
  /\ loop' = [loop EXCEPT ![p] = Idle]
  /\ started' = [started EXCEPT ![p] = FALSE]
  /\ UNCHANGED <<stage, writing, row, log, inflight, late>>

\* One second passes; it changes something only while a timer runs.
Tick ==
  /\ \E e \in Event : row[e].wait > 0 \/ row[e].lease > 0
  /\ row' = [e \in Event |-> Elapse(row[e])]
  /\ UNCHANGED <<stage, writing, loop, started, log, inflight, late>>

EnrichmentStep(r) ==
  \/ \E b \in Batch : BeginBatch(r, b)
  \/ \E e \in Event : Insert(r, e)
  \/ CommitBatch(r)
  \/ RollbackBatch(r)

PublishStep(p) ==
  \/ \E e \in Event : Claim(p, e)
  \/ StartProducer(p)
  \/ Send(p)
  \/ \E acknowledged \in BOOLEAN : Complete(p, acknowledged)
  \/ Retry(p)

Next ==
  \/ \E r \in Replica : EnrichmentStep(r) \/ PublishStep(r)
  \/ \E r \in Replica : SendUnacknowledged(r) \/ PublishFails(r) \/ Abandon(r)
  \/ \E e \in Event, token \in Token : StoreLate(e, token) \/ LoseLate(e, token)
  \/ Tick

Spec == Init /\ [][Next]_vars

(***************************************************************************)
(* Fairness.  The publish loops poll for ever, publishing is bounded by    *)
(* asyncio.timeout, and time passes.  Failures are not fair, nor are       *)
(* enrichment transactions.                                                *)
(***************************************************************************)
FairSpec == Spec /\ WF_vars(Tick) /\ \A p \in Replica : WF_vars(PublishStep(p))

-----------------------------------------------------------------------------
TypeOK ==
  /\ stage \in [Event -> {"future", "flushed", "committed", "dropped"}]
  /\ writing \in [Replica -> Batch \cup {NoBatch}]
  /\ row \in [Event -> WorkRow]
  /\ loop \in [Replica -> LoopState]
  /\ started \in [Replica -> BOOLEAN]
  /\ log \in [Account -> Seq(Event)]
  /\ inflight \subseteq Event \X Token
  /\ late \subseteq Event \X Event

(***************************************************************************)
(* "It marks completion only after acknowledgement": a completed row is in *)
(* Kafka's log whatever crashed or was retried, and nothing is published   *)
(* that its transaction did not commit.                                    *)
(***************************************************************************)
CompletedWasPublished ==
  \A e \in Event :
    /\ row[e].completed => Delivered(e)
    /\ Delivered(e) => stage[e] = "committed"

\* The first delivery of e comes before every delivery of f.
InOrder(e, f) ==
  \A j \in 1..Len(log[AccountOf[f]]) :
    log[AccountOf[f]][j] = f => \E i \in 1..(j - 1) : log[AccountOf[f]][i] = e

(***************************************************************************)
(* The order an account's consumer can rely on: the first delivery of an   *)
(* event comes after that of every earlier event of its account, unless    *)
(* the earlier one was committed only after the event had been claimed.    *)
(***************************************************************************)
AccountOrder ==
  \A e, f \in Event :
    Earlier(e, f) /\ stage[e] = "committed" /\ <<e, f>> \notin late => InOrder(e, f)

(***************************************************************************)
(* At least once, but not without bound: every delivery of an event, late  *)
(* ones included, is paid for by a claim of its row.                       *)
(***************************************************************************)
Deliveries(e) == {i \in 1..Len(log[AccountOf[e]]) : log[AccountOf[e]][i] = e}
DeliveriesBounded == \A e \in Event : Cardinality(Deliveries(e)) <= row[e].attempts

\* A row that no publisher will ever claim again, or that waits behind one.
Stuck(e) == \E f \in Event : (f = e \/ Earlier(f, e)) /\ stage[f] = "committed" /\ Exhausted(row[f])

\* Every committed event is published and completed, or its account is held up by a parked row.
EveryEventSettles ==
  \A e \in Event : stage[e] = "committed" ~> (row[e].completed \/ Stuck(e))

-----------------------------------------------------------------------------
(***************************************************************************)
(* The inductive invariant behind the three safety properties, in parts.   *)
(***************************************************************************)

\* Only a committed row is ever claimed or completed.
OnlyCommittedWorked ==
  \A e \in Event : stage[e] # "committed" => row[e].attempts = 0 /\ ~row[e].completed

\* The events of an open transaction are not committed, and it is open once.
OpenIsUncommitted ==
  \A r \in Replica : writing[r] # NoBatch =>
    /\ \A e \in EventsOf(writing[r]) : stage[e] # "committed"
    /\ \A q \in Replica : writing[q] = writing[r] => q = r

\* What a loop works on it has claimed.
LoopsHoldClaims ==
  \A p \in Replica : loop[p].pc # "idle" =>
    /\ loop[p].event \in Event /\ loop[p].token \in Token
    /\ loop[p].token <= row[loop[p].event].attempts

\* A claim belongs to one loop, and is in flight only once its loop has given up on it.
ClaimsUnique ==
  \A p \in Replica : loop[p].pc # "idle" =>
    /\ \A q \in Replica :
         loop[q].pc # "idle" /\ loop[q].event = loop[p].event /\ loop[q].token = loop[p].token => q = p
    /\ <<loop[p].event, loop[p].token>> \in inflight => loop[p].pc = "failed"

\* What is on its way or in the log was claimed.
RecordsWereClaimed ==
  /\ \A e \in Event, k \in Token : <<e, k>> \in inflight => k <= row[e].attempts
  /\ \A e \in Event : Delivered(e) => row[e].attempts > 0

\* The broker acknowledges what it has stored.
AckedIsDelivered == \A p \in Replica : loop[p].pc = "acked" => Delivered(loop[p].event)

\* A claimed event has no open predecessor but those that committed too late.
ClaimedHasNoOpenEarlier ==
  \A e, f \in Event :
    Earlier(e, f) /\ stage[e] = "committed" /\ <<e, f>> \notin late /\ row[f].attempts > 0
      => row[e].completed

\* The claims of an event that may still put a record of it into the log.
Outstanding(e) ==
  {k \in Token :
     \/ <<e, k>> \in inflight
     \/ \E p \in Replica : loop[p].pc = "sending" /\ loop[p].event = e /\ loop[p].token = k}

\* Every delivery and every delivery to come has a claim of its own.
ClaimsPay ==
  \A e \in Event : Cardinality(Deliveries(e)) + Cardinality(Outstanding(e)) <= row[e].attempts

IInv ==
  /\ TypeOK
  /\ OnlyCommittedWorked
  /\ OpenIsUncommitted
  /\ LoopsHoldClaims
  /\ ClaimsUnique
  /\ RecordsWereClaimed
  /\ AckedIsDelivered
  /\ CompletedWasPublished
  /\ ClaimedHasNoOpenEarlier
  /\ AccountOrder
  /\ ClaimsPay
=============================================================================
