---------------------------- MODULE Notifications ----------------------------
(***************************************************************************)
(* The notifications service: the replicas of a consumer group read one    *)
(* partition of transaction events (libs/events/consumer.py) and turn each *)
(* event into stored and delivered alerts (services/notifications).        *)
(*                                                                         *)
(* Offsets are committed by hand after the handler succeeds.  A record is  *)
(* held and retried until then, unless the partition is taken away.  The   *)
(* coordinator moves the partition while handlers run; a replica may hear  *)
(* of it late, or never before it dies, so two replicas can be at work on  *)
(* one record at the same time.                                            *)
(***************************************************************************)
EXTENDS Integers

CONSTANTS Consumer,      \* replicas of the service
          Tx,            \* transactions
          Bucket,        \* budget keys: user, currency, category and month
          LogLength,     \* records of the partition
          Kind,          \* the kind of a record: a known event type, or "unusable"
          TxOf,          \* the transaction of a record
          Large,         \* transactions that are large outflows
          BucketOf,      \* the budget a transaction counts towards
          MaxGeneration  \* rebalances (bounds the model)

ASSUME LogAssumption ==
  /\ LogLength \in Nat
  /\ Kind \in [1..LogLength -> {"categorized", "anomaly_flagged", "unusable"}]
  /\ TxOf \in [1..LogLength -> Tx]
ASSUME BucketAssumption == BucketOf \in [Tx -> Bucket]
ASSUME LargeAssumption == Large \subseteq Tx
ASSUME GenerationAssumption == MaxGeneration \in Nat

VARIABLES committed,   \* records below the group's committed offset
          generation,  \* generation of the group
          memberOf,    \* the generation a replica belongs to, as far as it knows
          joining,     \* replicas that are rejoining the group
          assigned,    \* assignment(): replicas that believe they own the partition
          position,    \* records a replica has fetched since it was assigned the partition
          current,     \* the held record's epoch is still the replica's _assignment_epoch
          pc,          \* where a replica's loop is
          held,        \* the record a replica's loop holds
          work,        \* the alerts its handler is about to store or to deliver
          sending,     \* the alert its handler has sent and not yet marked
          asked,       \* the generation its commit request carries
          owner,       \* notifications: the transaction_id of a stored alert, by dedupe_key
          delivered,   \* notifications whose delivered_at is set
          sent         \* alerts the channel was given

group == <<committed, generation, memberOf, joining, assigned, position>>
table == <<owner, delivered, sent>>
vars == <<group, table, current, pc, held, work, sending, asked>>

NoTx == "none"
NoKey == <<"none", "none">>
ASSUME NoTxAssumption == NoTx \notin Tx

\* dedupe_key
Key == ({"large", "anomaly"} \X Tx) \cup ({"budget"} \X Bucket)

\* The alerts evaluate() raises for record i whenever it is handled ...
Certain(i) ==
  {k \in Key : \/ Kind[i] = "anomaly_flagged" /\ k = <<"anomaly", TxOf[i]>>
               \/ Kind[i] = "categorized" /\ TxOf[i] \in Large /\ k = <<"large", TxOf[i]>>}

\* ... and with the budget alert, if the month's spending is over the limit at that moment.
Alerts(i, over) ==
  Certain(i) \cup {k \in Key : over /\ Kind[i] = "categorized" /\ k = <<"budget", BucketOf[TxOf[i]]>>}

Stored(k) == owner[k] # NoTx

\* pending_for_transaction, of the rows of a transaction in progress
Pending(rows, t) == {k \in Key : rows[k] = t /\ k \notin delivered}

Init ==
  /\ committed = 0
  /\ generation = 0
  /\ memberOf = [c \in Consumer |-> 0]
  /\ joining = Consumer
  /\ assigned = [c \in Consumer |-> FALSE]
  /\ position = [c \in Consumer |-> 0]
  /\ current = [c \in Consumer |-> FALSE]
  /\ pc = [c \in Consumer |-> "polling"]
  /\ held = [c \in Consumer |-> 0]
  /\ work = [c \in Consumer |-> {}]
  /\ sending = [c \in Consumer |-> NoKey]
  /\ asked = [c \in Consumer |-> 0]
  /\ owner = [k \in Key |-> NoTx]
  /\ delivered = {}
  /\ sent = {}

-----------------------------------------------------------------------------
(* The consumer group, as aiokafka shows it to the code. *)

\* A rebalance begins and reaches c: on_partitions_revoked; the old assignment stays visible.
Revoke(c) ==
  /\ c \notin joining
  /\ generation < MaxGeneration
  /\ joining' = joining \cup {c}
  /\ current' = [current EXCEPT ![c] = FALSE]
  /\ UNCHANGED <<committed, generation, memberOf, assigned, position, table,
                 pc, held, work, sending, asked>>

(***************************************************************************)
(* The rebalance ends for the replicas that took part in it: the partition *)
(* goes to c, which reads on from the committed offset.  Replicas that did *)
(* not hear of it stay in their old generation.  on_partitions_assigned.   *)
(***************************************************************************)
Assign(c) ==
  /\ c \in joining
  /\ generation' = generation + 1
  /\ memberOf' = [d \in Consumer |-> IF d \in joining THEN generation' ELSE memberOf[d]]
  /\ assigned' = [d \in Consumer |-> IF d \in joining THEN d = c ELSE assigned[d]]
  /\ current' = [d \in Consumer |-> IF d \in joining THEN FALSE ELSE current[d]]
  /\ position' = [position EXCEPT ![c] = committed]
  /\ joining' = {}
  /\ UNCHANGED <<committed, table, pc, held, work, sending, asked>>

\* The process dies and is started again.
Restart(c) ==
  /\ generation < MaxGeneration
  /\ joining' = joining \cup {c}
  /\ assigned' = [assigned EXCEPT ![c] = FALSE]
  /\ current' = [current EXCEPT ![c] = FALSE]
  /\ pc' = [pc EXCEPT ![c] = "polling"]
  /\ UNCHANGED <<committed, generation, memberOf, position, table, held, work, sending, asked>>

-----------------------------------------------------------------------------
(* _run, _handle_message and _commit. *)

Go(c, label) == pc' = [pc EXCEPT ![c] = label]

\* The next record; aiokafka returns none while a reassignment is in progress.
Fetch(c) ==
  /\ pc[c] = "polling"
  /\ assigned[c]
  /\ c \notin joining
  /\ position[c] < LogLength
  /\ position' = [position EXCEPT ![c] = @ + 1]
  /\ held' = [held EXCEPT ![c] = position'[c]]
  /\ current' = [current EXCEPT ![c] = TRUE]
  /\ Go(c, "holding")
  /\ UNCHANGED <<committed, generation, memberOf, joining, assigned, table, work, sending, asked>>

\* Mutant: the epoch is not looked at.
StillAssigned(c) == assigned[c]

\* The condition of the loop that holds a record.
StillOwned(c) == current[c] /\ assigned[c]

\* The partition was taken away: poll again, leaving the record to its new owner.
LetGo(c) ==
  /\ pc[c] = "holding"
  /\ ~StillOwned(c)
  /\ Go(c, "polling")
  /\ UNCHANGED <<group, table, current, held, work, sending, asked>>

\* Undecodable, invalid or unknown: skipped without a handler.
Skip(c) ==
  /\ pc[c] = "holding"
  /\ StillOwned(c)
  /\ Kind[held[c]] = "unusable"
  /\ Go(c, "handled")
  /\ UNCHANGED <<group, table, current, held, work, sending, asked>>

\* The handler's transaction evaluates the rules and looks each dedupe_key up ...
Evaluate(c, over) ==
  /\ pc[c] = "holding"
  /\ StillOwned(c)
  /\ Kind[held[c]] # "unusable"
  /\ work' = [work EXCEPT ![c] = {k \in Alerts(held[c], over) : ~Stored(k)}]
  /\ Go(c, "storing")
  /\ UNCHANGED <<group, table, current, held, sending, asked>>

\* Mutant: the alerts are delivered from the transaction that has yet to commit them.
StoreAfterwards(c) ==
  /\ pc[c] = "storing"
  /\ Go(c, "delivering")
  /\ UNCHANGED <<group, table, current, held, work, sending, asked>>

\* ... inserts the new alerts, reads the transaction's undelivered ones, and commits.
Store(c) ==
  LET t == TxOf[held[c]] IN
  /\ pc[c] = "storing"
  /\ \A k \in work[c] : ~Stored(k)
  /\ owner' = [k \in Key |-> IF k \in work[c] THEN t ELSE owner[k]]
  /\ work' = [work EXCEPT ![c] = Pending(owner', t)]
  /\ Go(c, "delivering")
  /\ UNCHANGED <<group, delivered, sent, current, held, sending, asked>>

\* Another replica stored one of them since the lookup: the unique constraint raises.
StoreConflict(c) ==
  /\ pc[c] = "storing"
  /\ \E k \in work[c] : Stored(k)
  /\ Go(c, "holding")
  /\ UNCHANGED <<group, table, current, held, work, sending, asked>>

\* channel.send of the next pending alert
Send(c, k) ==
  /\ pc[c] = "delivering"
  /\ k \in work[c]
  /\ sent' = sent \cup {k}
  /\ sending' = [sending EXCEPT ![c] = k]
  /\ Go(c, "marking")
  /\ UNCHANGED <<group, owner, delivered, current, held, work, asked>>

\* delivered_at is set in a transaction of its own.
Mark(c) ==
  /\ pc[c] = "marking"
  /\ delivered' = delivered \cup {sending[c]}
  /\ work' = [work EXCEPT ![c] = @ \ {sending[c]}]
  /\ Go(c, "delivering")
  /\ UNCHANGED <<group, owner, sent, current, held, sending, asked>>

\* Mutant: the handler's failure is logged and the record passed over.
HandlerFailsForGood(c) ==
  /\ \/ pc[c] \in {"storing", "marking"}
     \/ pc[c] = "delivering" /\ work[c] # {}
  /\ Go(c, "handled")
  /\ UNCHANGED <<group, table, current, held, work, sending, asked>>

\* A transaction or the channel raises: the same record is tried again a second later.
HandlerFails(c) ==
  /\ \/ pc[c] \in {"storing", "marking"}
     \/ pc[c] = "delivering" /\ work[c] # {}
  /\ Go(c, "holding")
  /\ UNCHANGED <<group, table, current, held, work, sending, asked>>

HandlerReturns(c) ==
  /\ pc[c] = "delivering"
  /\ work[c] = {}
  /\ Go(c, "handled")
  /\ UNCHANGED <<group, table, current, held, work, sending, asked>>

\* Mutant: the epoch is not compared.
CommitAnyEpoch(c) ==
  /\ pc[c] = "handled"
  /\ Go(c, "committing")
  /\ asked' = [asked EXCEPT ![c] = memberOf[c]]
  /\ UNCHANGED <<group, table, current, held, work, sending>>

\* _commit refuses a stale epoch; the request carries the replica's generation.
Commit(c) ==
  /\ pc[c] = "handled"
  /\ Go(c, IF current[c] THEN "committing" ELSE "holding")
  /\ asked' = [asked EXCEPT ![c] = memberOf[c]]
  /\ UNCHANGED <<group, table, current, held, work, sending>>

\* The coordinator stores the offset; the answer may get lost, and the record is held on.
OffsetStored(c, acknowledged) ==
  /\ pc[c] = "committing"
  /\ asked[c] = generation
  /\ committed' = held[c]
  /\ Go(c, IF acknowledged THEN "polling" ELSE "holding")
  /\ UNCHANGED <<generation, memberOf, joining, assigned, position,
                 table, current, held, work, sending, asked>>

\* It refuses an old generation, or cannot be reached.
CommitFails(c) ==
  /\ pc[c] = "committing"
  /\ Go(c, "holding")
  /\ UNCHANGED <<group, table, current, held, work, sending, asked>>

Step(c) ==
  \/ Fetch(c)
  \/ LetGo(c)
  \/ Skip(c)
  \/ \E over \in BOOLEAN : Evaluate(c, over)
  \/ StoreConflict(c)
  \/ HandlerReturns(c)
  \/ Commit(c)

Progress(c) ==
  \/ Store(c)
  \/ \E k \in Key : Send(c, k)
  \/ Mark(c)

Next ==
  \E c \in Consumer :
    \/ Revoke(c) \/ Assign(c) \/ Restart(c)
    \/ Step(c) \/ Progress(c)
    \/ OffsetStored(c, TRUE) \/ OffsetStored(c, FALSE)
    \/ HandlerFails(c) \/ CommitFails(c)

Spec == Init /\ [][Next]_vars

(***************************************************************************)
(* Fairness.  A loop goes on; the coordinator ends a rebalance and answers *)
(* requests it will refuse.  Database, channel and coordinator, which the  *)
(* loop tries again for ever, do not fail for ever: strong fairness.       *)
(***************************************************************************)
Fairness ==
  /\ WF_vars(\E c \in Consumer : Assign(c))
  /\ \A c \in Consumer :
       /\ WF_vars(Step(c))
       /\ WF_vars(CommitFails(c))
       /\ SF_vars(Store(c))
       /\ SF_vars(\E k \in Key : Send(c, k))
       /\ SF_vars(Mark(c))
       /\ SF_vars(OffsetStored(c, TRUE))

FairSpec == Spec /\ Fairness

-----------------------------------------------------------------------------
TypeOK ==
  /\ committed \in 0..LogLength
  /\ generation \in Nat
  /\ memberOf \in [Consumer -> Nat]
  /\ joining \subseteq Consumer
  /\ assigned \in [Consumer -> BOOLEAN]
  /\ position \in [Consumer -> 0..LogLength]
  /\ current \in [Consumer -> BOOLEAN]
  /\ pc \in [Consumer -> {"polling", "holding", "storing", "delivering", "marking",
                          "handled", "committing"}]
  /\ held \in [Consumer -> 0..LogLength]
  /\ work \in [Consumer -> SUBSET Key]
  /\ sending \in [Consumer -> Key \cup {NoKey}]
  /\ asked \in [Consumer -> Nat]
  /\ owner \in [Key -> Tx \cup {NoTx}]
  /\ delivered \subseteq Key
  /\ sent \subseteq Key

(***************************************************************************)
(* "Offsets are committed only after the handler succeeds": below the      *)
(* committed offset every alert that a record raises is stored and was     *)
(* delivered, whichever replicas shared the work and wherever they failed. *)
(***************************************************************************)
NoAlertLost == \A i \in 1..committed : Certain(i) \subseteq delivered

(***************************************************************************)
(* "Deliver only after the rows are committed": nobody is told of an alert *)
(* that is not stored, and delivered_at is only set on alerts that were    *)
(* handed to the channel.                                                  *)
(***************************************************************************)
SentWasStored == delivered \subseteq sent /\ \A k \in sent : Stored(k)

(***************************************************************************)
(* "Stale epochs cannot commit": the group's offset never moves back, even *)
(* if a replica finishes a record after the partition went to another      *)
(* replica and came back.                                                  *)
(***************************************************************************)
OffsetNeverRewinds == [][committed' >= committed]_vars

(***************************************************************************)
(* The inductive invariant behind the theorems of NotificationsProofs.     *)
(*                                                                         *)
(* The group: nobody belongs to a generation that does not exist yet, and  *)
(* the partition has at most one owner in the current one.  An epoch that  *)
(* is still current was not revoked.                                       *)
(***************************************************************************)
Owner(c) == assigned[c] /\ memberOf[c] = generation

OneOwner ==
  /\ \A c \in Consumer : memberOf[c] <= generation
  /\ \A c, d \in Consumer : Owner(c) /\ Owner(d) => c = d
  /\ \A c \in Consumer : current[c] => assigned[c] /\ c \notin joining

\* A commit request the coordinator will accept.
Acceptable(c) == pc[c] = "committing" /\ asked[c] = generation

\* It is the owner's, and if its epoch has ended since, the owner is rejoining the group.
RequestsAreOwners ==
  \A c \in Consumer :
    /\ pc[c] = "committing" => asked[c] <= memberOf[c]
    /\ Acceptable(c) => Owner(c) /\ (current[c] \/ c \in joining)

(***************************************************************************)
(* The owner's place in the log: the record it holds is the one after the  *)
(* committed offset, or the one at it if an acknowledgement was lost; with *)
(* no record of this assignment in its hands it reads on from the offset.  *)
(***************************************************************************)
Holds(c) == pc[c] # "polling" /\ (current[c] \/ Acceptable(c))

OwnerReadsOn ==
  \A c \in Consumer :
    Owner(c) =>
      /\ Holds(c) => held[c] = position[c] /\ committed \in {held[c] - 1, held[c]}
      /\ ~Holds(c) /\ c \notin joining => position[c] = committed

(***************************************************************************)
(* The handler's place: what is stored, about to be stored, pending and    *)
(* delivered of the alerts of the record it holds.  An alert about a       *)
(* transaction is stored as that transaction's.                            *)
(***************************************************************************)
OwnersMatch ==
  \A k \in Key : Stored(k) /\ k[1] # "budget" => owner[k] = k[2]

HandlerKeepsAll ==
  \A c \in Consumer :
    /\ pc[c] # "polling" => held[c] \in 1..LogLength
    /\ pc[c] = "storing" =>
         /\ work[c] \subseteq Alerts(held[c], TRUE)
         /\ \A k \in Certain(held[c]) : Stored(k) \/ k \in work[c]
    /\ pc[c] \in {"delivering", "marking"} =>
         /\ \A k \in work[c] : Stored(k)
         /\ Certain(held[c]) \subseteq delivered \cup work[c]
    /\ pc[c] = "marking" => sending[c] \in sent
    /\ pc[c] \in {"handled", "committing"} => Certain(held[c]) \subseteq delivered

IInv ==
  /\ TypeOK
  /\ OneOwner
  /\ RequestsAreOwners
  /\ OwnerReadsOn
  /\ OwnersMatch
  /\ HandlerKeepsAll
  /\ NoAlertLost
  /\ SentWasStored

\* The group gets through the log once rebalances and restarts end.
LogIsConsumed == <>(committed = LogLength)
=============================================================================
