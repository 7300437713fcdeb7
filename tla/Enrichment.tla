----------------------------- MODULE Enrichment -----------------------------
(***************************************************************************)
(* The durable enrichment of ingested transactions: every replica of the   *)
(* transactions service runs one categorize loop (workers.py) over the     *)
(* shared table of categorization jobs, while users correct categories     *)
(* through PATCH /transactions/{id}.                                       *)
(*                                                                         *)
(* A worker claims a job in a short transaction, calls the classifier with *)
(* no lock held, and then, in one transaction, locks the job row (owns),   *)
(* locks and categorizes the ledger row, stores its events and completes   *)
(* the job.  Every step may fail, and a worker may die at any point.       *)
(*                                                                         *)
(* Transactions are numbered in the order of their jobs' (created_at, id), *)
(* which need not be the order in which they are committed.                *)
(***************************************************************************)
EXTENDS WorkQueue

CONSTANTS Tx,          \* transactions, a set of positive integers
          Worker,      \* one categorize loop per replica
          Session,     \* request sessions that serve PATCH
          ClockAhead,  \* seconds each replica's clock is ahead of the slowest one
          MaxPatches   \* corrections per transaction (bounds the model)

ASSUME TxAssumption == Tx \subseteq Nat \ {0}
ASSUME ClockAssumption == ClockAhead \in [Worker -> Nat]
ASSUME PatchesAssumption == MaxPatches \in Nat

VARIABLES tx,           \* ledger rows
          job,          \* categorization_jobs, one row per ingested transaction
          outbox,       \* event types stored in outbox_events for a transaction
          enrichments,  \* number of "transaction.categorized" audit rows of a transaction
          corrections,  \* number of "transaction.recategorized" audit rows
          worker,       \* the categorize loops
          session       \* the row a PATCH session has locked, or NoTx

vars == <<tx, job, outbox, enrichments, corrections, worker, session>>

NoTx == 0

(***************************************************************************)
(* The states of a ledger row, and what categorization and correction do   *)
(* to it, are shared with the abstract specification.  An ingested row is  *)
(* enriched exactly when its job is completed.                             *)
(***************************************************************************)
Lifecycle == INSTANCE TransactionLifecycle WITH done <- [t \in Tx |-> job[t].completed]

Exists(t) == tx[t].status # "absent"

Idle == [pc |-> "idle", tx |-> NoTx, token |-> NoToken, result |-> "none"]

\* Worker w goes on to pc with its claim.
At(w, pc) == [pc |-> pc, tx |-> worker[w].tx, token |-> worker[w].token,
              result |-> worker[w].result]

WorkerState ==
  [pc     : {"idle", "calling", "ready", "applying", "failed"},
   tx     : Tx \cup {NoTx},
   token  : Token \cup {NoToken},
   result : {"none", "llm", "rules"}]

\* Mutant: owns() reads the row without FOR UPDATE.
NoJobLock(t) == FALSE

\* A session that passed owns() holds the job row's lock until it ends.
JobLocked(t) == \E w \in Worker : worker[w].pc = "applying" /\ worker[w].tx = t

\* A PATCH session holds the ledger row's lock until it ends.
TxLocked(t) == \E s \in Session : session[s] = t

Init ==
  /\ tx = [t \in Tx |-> Lifecycle!Absent]
  /\ job = [t \in Tx |-> NewRow(0)]
  /\ outbox = [t \in Tx |-> {}]
  /\ enrichments = [t \in Tx |-> 0]
  /\ corrections = [t \in Tx |-> 0]
  /\ worker = [w \in Worker |-> Idle]
  /\ session = [s \in Session |-> NoTx]

-----------------------------------------------------------------------------
\* ingest_transaction commits a new row and its job together, on replica w.
Ingest(w, t) ==
  /\ ~Exists(t)
  /\ tx' = [tx EXCEPT ![t] = Lifecycle!Pending]
  /\ job' = [job EXCEPT ![t] = NewRow(ClockAhead[w])]
  /\ UNCHANGED <<outbox, enrichments, corrections, worker, session>>

\* SELECT ... FOR UPDATE SKIP LOCKED of claim(): the rows it may return.
Claimable(w) ==
  {t \in Tx : Exists(t) /\ ~JobLocked(t) /\ Eligible(job[t], ClockAhead[w])}

\* categorize_once, first transaction: claim the oldest claimable job.
Claim(w, t) ==
  /\ worker[w].pc = "idle"
  /\ t \in Claimable(w)
  /\ \A u \in Claimable(w) : t <= u
  /\ job' = [job EXCEPT ![t] = Claimed(@, ClockAhead[w])]
  /\ worker' = [worker EXCEPT ![w] = [pc |-> "calling", tx |-> t,
                                      token |-> job'[t].token, result |-> "none"]]
  /\ UNCHANGED <<tx, outbox, enrichments, corrections, session>>

(***************************************************************************)
(* The classifier answers, or raises, or runs into asyncio.timeout after   *)
(* three quarters of the lease; the last two end with the rules engine.    *)
(* Nothing here stops the lease from running out first.                    *)
(***************************************************************************)
Classify(w, result) ==
  /\ worker[w].pc = "calling"
  /\ worker' = [worker EXCEPT ![w] = [pc |-> "ready", tx |-> worker[w].tx,
                                      token |-> worker[w].token, result |-> result]]
  /\ UNCHANGED <<tx, job, outbox, enrichments, corrections, session>>

\* The second transaction begins with owns(), which waits for the row's lock.
CheckOwnership(w) ==
  LET t == worker[w].tx IN
  /\ worker[w].pc = "ready"
  /\ ~JobLocked(t)
  /\ worker' = [worker EXCEPT ![w] =
                  IF Owns(job[t], worker[w].token, ClockAhead[w])
                  THEN At(w, "applying")
                  ELSE Idle]
  /\ UNCHANGED <<tx, job, outbox, enrichments, corrections, session>>

\* Mutants: events of the row as it was before; an audit entry without a status check.
EnrichedEventsFirst(w, t, score) ==
  /\ tx' = [tx EXCEPT ![t] = Lifecycle!CategorizedRow(@, worker[w].result, score)]
  /\ enrichments' = [enrichments EXCEPT ![t] =
                       IF tx[t].status = "categorized" THEN @ ELSE @ + 1]
  /\ outbox' = [outbox EXCEPT ![t] = @ \cup Lifecycle!EventsOf(tx[t])]
  /\ job' = [job EXCEPT ![t] = Completed(@, worker[w].token)]

(***************************************************************************)
(* categorize_transaction, which waits for the ledger row's lock, the      *)
(* outbox rows that do not exist yet, complete() and the commit.           *)
(***************************************************************************)
Enriched(w, t, score) ==
  /\ tx' = [tx EXCEPT ![t] = Lifecycle!CategorizedRow(@, worker[w].result, score)]
  /\ enrichments' = [enrichments EXCEPT ![t] =
                       IF tx[t].status = "categorized" THEN @ ELSE @ + 1]
  /\ outbox' = [outbox EXCEPT ![t] = @ \cup Lifecycle!EventsOf(tx'[t])]
  /\ job' = [job EXCEPT ![t] = Completed(@, worker[w].token)]

\* The transaction commits; if its acknowledgement is lost the worker sees an exception.
Apply(w, score, acknowledged) ==
  LET t == worker[w].tx IN
  /\ worker[w].pc = "applying"
  /\ ~TxLocked(t)
  /\ Enriched(w, t, score)
  /\ worker' = [worker EXCEPT ![w] = IF acknowledged THEN Idle
                                     ELSE At(w, "failed")]
  /\ UNCHANGED <<corrections, session>>

\* The second transaction raises and is rolled back.
ApplyFails(w) ==
  /\ worker[w].pc \in {"ready", "applying"}
  /\ worker' = [worker EXCEPT ![w] = At(w, "failed")]
  /\ UNCHANGED <<tx, job, outbox, enrichments, corrections, session>>

\* _retry: the UPDATE waits for the row's lock.
Retry(w) ==
  LET t == worker[w].tx IN
  /\ worker[w].pc = "failed"
  /\ ~JobLocked(t)
  /\ job' = [job EXCEPT ![t] = Retried(@, worker[w].token, ClockAhead[w])]
  /\ worker' = [worker EXCEPT ![w] = Idle]
  /\ UNCHANGED <<tx, outbox, enrichments, corrections, session>>

(***************************************************************************)
(* The claim is dropped without a word to the database: the process dies,  *)
(* stop() cancels the loop (CancelledError passes every handler), or       *)
(* _retry itself raises and _loop goes on polling.                         *)
(***************************************************************************)
Abandon(w) ==
  /\ worker[w].pc # "idle"
  /\ worker' = [worker EXCEPT ![w] = Idle]
  /\ UNCHANGED <<tx, job, outbox, enrichments, corrections, session>>

-----------------------------------------------------------------------------
\* PATCH: recategorize_by_user locks the ledger row ...
PatchLock(s, t) ==
  /\ session[s] = NoTx
  /\ Exists(t)
  /\ corrections[t] < MaxPatches
  /\ ~TxLocked(t)
  /\ session' = [session EXCEPT ![s] = t]
  /\ UNCHANGED <<tx, job, outbox, enrichments, corrections, worker>>

\* ... and writes it when the session commits,
PatchCommit(s) ==
  LET t == session[s] IN
  /\ t # NoTx
  /\ tx' = [tx EXCEPT ![t] = Lifecycle!CorrectedRow(@)]
  /\ corrections' = [corrections EXCEPT ![t] = @ + 1]
  /\ session' = [session EXCEPT ![s] = NoTx]
  /\ UNCHANGED <<job, outbox, enrichments, worker>>

\* or rolls back: the caller does not own the account, or the session raises.
PatchRollback(s) ==
  /\ session[s] # NoTx
  /\ session' = [session EXCEPT ![s] = NoTx]
  /\ UNCHANGED <<tx, job, outbox, enrichments, corrections, worker>>

\* One second passes; it changes something only while a timer runs.
Tick ==
  /\ \E t \in Tx : job[t].wait > 0 \/ job[t].lease > 0
  /\ job' = [t \in Tx |-> Elapse(job[t])]
  /\ UNCHANGED <<tx, outbox, enrichments, corrections, worker, session>>

WorkerStep(w) ==
  \/ \E t \in Tx : Claim(w, t)
  \/ \E result \in {"llm", "rules"} : Classify(w, result)
  \/ CheckOwnership(w)
  \/ Retry(w)

ApplyStep(w) ==
  \E score \in {"low", "high"}, acknowledged \in BOOLEAN : Apply(w, score, acknowledged)

PatchEnd(s) == PatchCommit(s) \/ PatchRollback(s)

Next ==
  \/ \E w \in Worker, t \in Tx : Ingest(w, t)
  \/ \E w \in Worker : WorkerStep(w) \/ ApplyStep(w) \/ ApplyFails(w) \/ Abandon(w)
  \/ \E s \in Session, t \in Tx : PatchLock(s, t)
  \/ \E s \in Session : PatchEnd(s)
  \/ Tick

Spec == Init /\ [][Next]_vars

(***************************************************************************)
(* Fairness.  Loops poll for ever, the classifier call is bounded by       *)
(* asyncio.timeout, a session ends, and time passes.  A transaction that   *)
(* waits for a row lock is served in its turn by PostgreSQL's lock queue,  *)
(* which takes strong fairness where others can take the lock in between.  *)
(* No failure and no request is fair.                                      *)
(***************************************************************************)
Fairness ==
  /\ \A w \in Worker : WF_vars(WorkerStep(w)) /\ SF_vars(ApplyStep(w))
  /\ \A s \in Session : WF_vars(PatchEnd(s))
  /\ WF_vars(Tick)

FairSpec == Spec /\ Fairness
-----------------------------------------------------------------------------
TypeOK ==
  /\ tx \in [Tx -> Lifecycle!TxRow]
  /\ job \in [Tx -> WorkRow]
  /\ outbox \in [Tx -> SUBSET Lifecycle!EventType]
  /\ enrichments \in [Tx -> Nat]
  /\ corrections \in [Tx -> Nat]
  /\ worker \in [Worker -> WorkerState]
  /\ session \in [Session -> Tx \cup {NoTx}]

(***************************************************************************)
(* The fence of owns(): from the moment a worker passed it until its       *)
(* transaction ends, the job is still that worker's and still open, even   *)
(* if the lease runs out meanwhile (claimers skip the locked row).         *)
(***************************************************************************)
ApplierOwnsJob ==
  \A w \in Worker :
    worker[w].pc = "applying" =>
      LET t == worker[w].tx IN
      t # NoTx /\ Exists(t) /\ ~job[t].completed /\ job[t].token = worker[w].token

(***************************************************************************)
(* "The enrichment, its events, and job completion commit together": the   *)
(* outbox holds exactly the events of the row as it stands once its job is *)
(* completed, and none before, whatever was retried, and a user correction *)
(* never changes which events the row deserves.                            *)
(***************************************************************************)
EventsMatchRow ==
  \A t \in Tx :
    IF job[t].completed
    THEN tx[t].status = "categorized" /\ outbox[t] = Lifecycle!EventsOf(tx[t])
    ELSE outbox[t] = {}

(***************************************************************************)
(* A row is categorized by the service at most once (one audit entry       *)
(* "transaction.categorized"), and it has a score exactly if it was,       *)
(* although any number of workers may have claimed its job.                *)
(***************************************************************************)
EnrichedAtMostOnce ==
  \A t \in Tx :
    /\ enrichments[t] <= 1
    /\ enrichments[t] = 1 <=> tx[t].score # "none"

(***************************************************************************)
(* "User category corrections ... win over late enrichment results": once  *)
(* the user chose the category no step gives the row another source, nor   *)
(* changes its score.                                                      *)
(***************************************************************************)
CorrectionSticks ==
  [][\A t \in Tx :
       tx[t].source = "user" => tx'[t].source = "user" /\ tx'[t].score = tx[t].score]_vars

(***************************************************************************)
(* A worker that sits on an unexpired claim, unexpired by every replica's  *)
(* clock, keeps it: no step of another worker ends or replaces the claim.  *)
(***************************************************************************)
LiveClaimKept ==
  [][\A w \in Worker :
       LET t == worker[w].tx IN
       /\ worker[w].pc # "idle"
       /\ worker'[w] = worker[w]
       /\ job[t].token = worker[w].token
       /\ \A v \in Worker : job[t].lease > ClockAhead[v]
       => job'[t].token = job[t].token]_vars

(***************************************************************************)
(* The inductive invariant behind the theorems of EnrichmentProofs.  To    *)
(* the properties above it adds the shape of the rows that no categorizer  *)
(* has touched, that claims and PATCH sessions name rows that exist, and   *)
(* that no two claims in flight on one job carry the same token.           *)
(***************************************************************************)
RowShape ==
  \A t \in Tx : tx[t].status # "categorized" => tx[t] \in {Lifecycle!Absent, Lifecycle!Pending}

ClaimsNameRows ==
  \A w \in Worker :
    worker[w].pc # "idle" =>
      /\ worker[w].tx \in Tx
      /\ Exists(worker[w].tx)
      /\ worker[w].token \in 1..job[worker[w].tx].attempts

TokensUnique ==
  \A v, w \in Worker :
    /\ v # w
    /\ worker[v].pc # "idle"
    /\ worker[w].pc # "idle"
    /\ worker[v].tx = worker[w].tx
    => worker[v].token # worker[w].token

\* A result is there by the time it is written, and every PATCH session's row exists.
SessionsReady ==
  /\ \A w \in Worker : worker[w].pc = "applying" => worker[w].result # "none"
  /\ \A w \in Worker : worker[w].pc = "ready" => worker[w].result # "none"
  /\ \A s \in Session : session[s] # NoTx => Exists(session[s])

IInv ==
  /\ TypeOK
  /\ RowShape
  /\ ClaimsNameRows
  /\ TokensUnique
  /\ SessionsReady
  /\ ApplierOwnsJob
  /\ EventsMatchRow
  /\ EnrichedAtMostOnce

\* Every ingested row is enriched, or its job runs out of attempts.
EveryRowSettles ==
  \A t \in Tx : Exists(t) ~> (job[t].completed \/ Exhausted(job[t]))

\* The service implements the promised life of a transaction.
ImplementsLifecycle == Lifecycle!Spec
=============================================================================
