-------------------------- MODULE EnrichmentProofs --------------------------
(***************************************************************************)
(* Proofs about Enrichment, for any set of transactions, replicas, clocks, *)
(* lease length and number of attempts.                                    *)
(***************************************************************************)
EXTENDS Enrichment, TLAPS

USE LeaseAssumption, AttemptsAssumption, TxAssumption, ClockAssumption, PatchesAssumption

-----------------------------------------------------------------------------
(* What the statements of WorkRepository do to a well-formed row. *)

\* The retry delay is a natural number.
LEMMA BackoffType == \A n \in Token : Backoff(n) \in Nat
<1>1. \A n \in Token : Smaller(n, 6) \in 1..6
  BY DEF Smaller, Token
<1>2. \A k \in 1..6 : BackoffTable[k] \in Nat
  BY DEF BackoffTable
<1>3. QED
  BY <1>1, <1>2 DEF Backoff

\* Claiming an eligible row yields a well-formed row with the next token.
LEMMA ClaimedFacts ==
  ASSUME NEW row \in WorkRow, NEW ahead \in Nat, Eligible(row, ahead)
  PROVE  /\ Claimed(row, ahead) \in WorkRow
         /\ Claimed(row, ahead).token = row.attempts + 1
         /\ Claimed(row, ahead).attempts = row.attempts + 1
         /\ Claimed(row, ahead).completed = FALSE
<1>1. row.attempts \in Nat /\ row.attempts + 1 \in 1..MaxAttempts
  BY DEF WorkRow, Eligible
<1>2. LeaseSeconds + ahead \in Nat
  OBVIOUS
<1>3. QED
  BY <1>1, <1>2 DEF WorkRow, Claimed, Eligible, Token, NoToken

\* Completion by the current token completes the row and nothing else ever does.
LEMMA CompletedFacts ==
  ASSUME NEW row \in WorkRow, NEW token \in Token, row.token = token
  PROVE  /\ Completed(row, token) \in WorkRow
         /\ Completed(row, token).completed
         /\ Completed(row, token).attempts = row.attempts
BY DEF WorkRow, Completed, Token, NoToken

\* A retry changes neither attempts nor completion.
LEMMA RetriedFacts ==
  ASSUME NEW row \in WorkRow, NEW token \in Token, NEW ahead \in Nat
  PROVE  /\ Retried(row, token, ahead) \in WorkRow
         /\ Retried(row, token, ahead).completed = row.completed
         /\ Retried(row, token, ahead).attempts = row.attempts
         /\ row.token # token => Retried(row, token, ahead) = row
<1>1. Backoff(token) + ahead \in Nat
  BY BackoffType
<1>2. QED
  BY <1>1 DEF WorkRow, Retried, Token, NoToken

\* The passing of time touches only the timers.
LEMMA ElapseFacts ==
  ASSUME NEW row \in WorkRow
  PROVE  /\ Elapse(row) \in WorkRow
         /\ Elapse(row).completed = row.completed
         /\ Elapse(row).attempts = row.attempts
         /\ Elapse(row).token = row.token
BY DEF WorkRow, Elapse, Sooner, Token, NoToken

\* A freshly inserted row is well-formed and open.
LEMMA NewRowFacts ==
  ASSUME NEW ahead \in Nat
  PROVE  /\ NewRow(ahead) \in WorkRow
         /\ ~NewRow(ahead).completed
         /\ NewRow(ahead).attempts = 0
BY DEF WorkRow, NewRow, Token, NoToken
-----------------------------------------------------------------------------
(* The inductive invariant. *)

\* The initial state satisfies the invariant.
LEMMA InitIInv == Init => IInv
<1> SUFFICES ASSUME Init PROVE IInv
  OBVIOUS
<1>1. TypeOK
  BY NewRowFacts DEF Init, TypeOK, Lifecycle!Absent, Lifecycle!TxRow, Lifecycle!Source,
     Lifecycle!Score, Lifecycle!EventType, WorkerState, Idle, NoTx, NoToken, Token
<1>2. RowShape /\ ClaimsNameRows /\ TokensUnique /\ SessionsReady /\ ApplierOwnsJob
  BY DEF Init, RowShape, ClaimsNameRows, TokensUnique, SessionsReady, ApplierOwnsJob, Idle
<1>3. EventsMatchRow /\ EnrichedAtMostOnce
  BY DEF Init, EventsMatchRow, EnrichedAtMostOnce, NewRow, Lifecycle!Absent
<1>4. QED
  BY <1>1, <1>2, <1>3 DEF IInv

\* Ingestion creates the row together with its open job.
LEMMA IngestStep ==
  ASSUME IInv, NEW w \in Worker, NEW t \in Tx, Ingest(w, t)
  PROVE  IInv'
<1> USE DEF IInv
<1>0. /\ NewRow(ClockAhead[w]) \in WorkRow
      /\ ~NewRow(ClockAhead[w]).completed
      /\ NewRow(ClockAhead[w]).attempts = 0
  BY NewRowFacts
<1>1. TypeOK'
  BY <1>0 DEF TypeOK, Ingest, Lifecycle!Pending, Lifecycle!TxRow, Lifecycle!Source, Lifecycle!Score
<1>2. RowShape'
  BY DEF TypeOK, Ingest, RowShape, Lifecycle!Pending
<1>3. ClaimsNameRows' /\ TokensUnique' /\ SessionsReady' /\ ApplierOwnsJob'
  BY DEF TypeOK, Ingest, ClaimsNameRows, TokensUnique, SessionsReady, ApplierOwnsJob, Exists,
     Lifecycle!Pending
<1>4. EventsMatchRow'
  BY <1>0 DEF TypeOK, Ingest, EventsMatchRow, Exists, Lifecycle!Pending
<1>5. EnrichedAtMostOnce'
  BY DEF TypeOK, Ingest, EnrichedAtMostOnce, RowShape, Exists, Lifecycle!Pending, Lifecycle!Absent
<1>6. QED
  BY <1>1, <1>2, <1>3, <1>4, <1>5

\* A claim hands out a token that no claim in flight on the job carries.
LEMMA ClaimStep ==
  ASSUME IInv, NEW w \in Worker, NEW t \in Tx, Claim(w, t)
  PROVE  IInv'
<1> USE DEF IInv
<1>0. /\ Exists(t)
      /\ ~JobLocked(t)
      /\ job[t] \in WorkRow
      /\ job'[t] \in WorkRow
      /\ job'[t].token = job[t].attempts + 1
      /\ job'[t].attempts = job[t].attempts + 1
      /\ job'[t].completed = FALSE
      /\ ~job[t].completed
  BY ClaimedFacts DEF Claim, Claimable, TypeOK, Eligible
<1>1. TypeOK'
  BY <1>0 DEF TypeOK, Claim, WorkerState, WorkRow
<1>2. RowShape'
  BY DEF Claim, RowShape
<1>3. ClaimsNameRows'
  BY <1>0 DEF TypeOK, Claim, ClaimsNameRows, Exists, WorkRow, WorkerState
<1>4. TokensUnique'
  BY <1>0 DEF TypeOK, Claim, ClaimsNameRows, TokensUnique, WorkRow, WorkerState
<1>5. SessionsReady'
  BY DEF TypeOK, Claim, SessionsReady, Exists
<1>6. ApplierOwnsJob'
  BY <1>0 DEF TypeOK, Claim, ApplierOwnsJob, JobLocked, Exists
<1>7. EventsMatchRow' /\ EnrichedAtMostOnce'
  BY <1>0 DEF TypeOK, Claim, EventsMatchRow, EnrichedAtMostOnce
<1>8. QED
  BY <1>1, <1>2, <1>3, <1>4, <1>5, <1>6, <1>7
\* The classifier's answer changes only the worker.
LEMMA ClassifyStep ==
  ASSUME IInv, NEW w \in Worker, NEW result \in {"llm", "rules"}, Classify(w, result)
  PROVE  IInv'
<1> USE DEF IInv
<1>1. TypeOK'
  BY DEF TypeOK, Classify, WorkerState
<1>2. RowShape' /\ EventsMatchRow' /\ EnrichedAtMostOnce'
  BY DEF Classify, RowShape, EventsMatchRow, EnrichedAtMostOnce
<1>3. ClaimsNameRows' /\ TokensUnique'
  BY DEF TypeOK, Classify, ClaimsNameRows, TokensUnique, Exists
<1>4. SessionsReady' /\ ApplierOwnsJob'
  BY DEF TypeOK, Classify, SessionsReady, ApplierOwnsJob, Exists
<1>5. QED
  BY <1>1, <1>2, <1>3, <1>4

\* Only the holder of the current token gets past owns().
LEMMA CheckOwnershipStep ==
  ASSUME IInv, NEW w \in Worker, CheckOwnership(w)
  PROVE  IInv'
<1> USE DEF IInv
<1>1. TypeOK'
  BY DEF TypeOK, CheckOwnership, WorkerState, At, Idle, NoTx, NoToken
<1>2. RowShape' /\ EventsMatchRow' /\ EnrichedAtMostOnce'
  BY DEF CheckOwnership, RowShape, EventsMatchRow, EnrichedAtMostOnce
<1>3. ClaimsNameRows' /\ TokensUnique'
  BY DEF TypeOK, CheckOwnership, ClaimsNameRows, TokensUnique, Exists, At, Idle
<1>4. SessionsReady'
  BY DEF TypeOK, CheckOwnership, SessionsReady, Exists, At, Idle
<1>5. ApplierOwnsJob'
  BY DEF TypeOK, CheckOwnership, ApplierOwnsJob, ClaimsNameRows, Exists, At, Idle, Owns, NoTx
<1>6. QED
  BY <1>1, <1>2, <1>3, <1>4, <1>5

\* The enrichment commits once, with its events, by the current token.
LEMMA ApplyStepInv ==
  ASSUME IInv, NEW w \in Worker, NEW score \in {"low", "high"}, NEW acknowledged \in BOOLEAN,
         Apply(w, score, acknowledged)
  PROVE  IInv'
<1> USE DEF IInv
<1>t. PICK t \in Tx : t = worker[w].tx
  BY DEF Apply, ClaimsNameRows
<1>0. /\ t # NoTx
      /\ Exists(t)
      /\ worker[w].token \in Token
      /\ worker[w].result \in {"llm", "rules"}
      /\ job[t] \in WorkRow
      /\ ~job[t].completed
      /\ job[t].token = worker[w].token
  <2>1. Exists(t) /\ worker[w].token \in 1..job[t].attempts
    BY <1>t DEF Apply, ClaimsNameRows
  <2>2. job[t] \in WorkRow /\ job[t].attempts \in 0..MaxAttempts
    BY <2>1 DEF TypeOK, WorkRow
  <2>3. worker[w].token \in Token
    BY <2>1, <2>2 DEF Token
  <2>4. worker[w].result \in {"llm", "rules"}
    BY DEF Apply, SessionsReady, TypeOK, WorkerState
  <2>5. t # NoTx /\ ~job[t].completed /\ job[t].token = worker[w].token
    BY <1>t DEF Apply, ApplierOwnsJob
  <2>6. QED
    BY <2>1, <2>2, <2>3, <2>4, <2>5
<1>a. /\ job' = [job EXCEPT ![t] = Completed(job[t], worker[w].token)]
      /\ job'[t] \in WorkRow
      /\ job'[t].completed
      /\ job'[t].attempts = job[t].attempts
      /\ \A u \in Tx : u # t => job'[u] = job[u]
  BY <1>t, <1>0, CompletedFacts DEF Apply, Enriched, TypeOK
<1>b. /\ tx'[t] = Lifecycle!CategorizedRow(tx[t], worker[w].result, score)
      /\ tx'[t] \in Lifecycle!TxRow
      /\ tx'[t].status = "categorized"
      /\ tx' \in [Tx -> Lifecycle!TxRow]
      /\ \A u \in Tx : u # t => tx'[u] = tx[u]
  BY <1>t, <1>0 DEF Apply, Enriched, TypeOK, Lifecycle!CategorizedRow, Lifecycle!TxRow,
     Lifecycle!Source, Lifecycle!Score
<1>c. /\ outbox[t] = {}
      /\ outbox' = [outbox EXCEPT ![t] = Lifecycle!EventsOf(tx'[t])]
  BY <1>t, <1>0 DEF Apply, Enriched, TypeOK, EventsMatchRow
<1>d. \A v \in Worker : worker'[v].pc # "idle" =>
         /\ worker[v].pc # "idle"
         /\ worker'[v].tx = worker[v].tx
         /\ worker'[v].token = worker[v].token
         /\ worker'[v].result = worker[v].result
         /\ worker'[v].pc \in {"applying", "ready"} => v # w /\ worker'[v] = worker[v]
  BY DEF Apply, TypeOK, At, Idle
<1>1. TypeOK'
  <2>1. worker' \in [Worker -> WorkerState]
    BY DEF Apply, TypeOK, WorkerState, At, Idle, NoTx, NoToken
  <2>2. outbox' \in [Tx -> SUBSET Lifecycle!EventType]
    BY <1>0, <1>c DEF TypeOK, Lifecycle!EventsOf, Lifecycle!EventType
  <2>3. job' \in [Tx -> WorkRow]
    BY <1>0, <1>a DEF TypeOK
  <2>4. enrichments' \in [Tx -> Nat]
    <3>1. enrichments \in [Tx -> Nat] /\ enrichments[t] + 1 \in Nat
      BY DEF TypeOK
    <3>2. \/ enrichments' = enrichments
          \/ enrichments' = [enrichments EXCEPT ![t] = enrichments[t] + 1]
      BY <1>t, <3>1 DEF Apply, Enriched
    <3>3. QED
      BY <3>1, <3>2
  <2>5. QED
    BY <2>1, <2>2, <2>3, <2>4, <1>b DEF Apply, TypeOK
<1>2. RowShape'
  BY <1>b DEF RowShape
<1>3. ClaimsNameRows' /\ TokensUnique'
  <2>1. \A u \in Tx : /\ job'[u].attempts = job[u].attempts
                      /\ tx[u].status # "absent" => tx'[u].status # "absent"
    BY <1>a, <1>b
  <2>2. ClaimsNameRows'
    <3> SUFFICES ASSUME NEW v \in Worker, worker'[v].pc # "idle"
                 PROVE  /\ worker'[v].tx \in Tx
                        /\ tx'[worker'[v].tx].status # "absent"
                        /\ worker'[v].token \in 1..job'[worker'[v].tx].attempts
      BY DEF ClaimsNameRows, Exists
    <3>1. /\ worker[v].tx \in Tx
          /\ tx[worker[v].tx].status # "absent"
          /\ worker[v].token \in 1..job[worker[v].tx].attempts
      BY <1>d DEF ClaimsNameRows, Exists
    <3>2. worker'[v].tx = worker[v].tx /\ worker'[v].token = worker[v].token
      BY <1>d
    <3>3. QED
      BY <2>1, <3>1, <3>2, Zenon
  <2>3. TokensUnique'
    BY <1>d DEF TokensUnique
  <2>4. QED
    BY <2>2, <2>3
<1>4. SessionsReady'
  <2>1. \A s \in Session : session'[s] # NoTx => tx'[session'[s]].status # "absent"
    BY <1>b DEF SessionsReady, Apply, TypeOK, Exists
  <2>2. \A v \in Worker : worker'[v].pc \in {"applying", "ready"} => worker'[v].result # "none"
    BY <1>d DEF SessionsReady
  <2>3. QED
    BY <2>1, <2>2 DEF SessionsReady, Exists
<1>5. ApplierOwnsJob'
  <2>1. \A v \in Worker : worker'[v].pc = "applying" =>
          /\ worker'[v] = worker[v]
          /\ worker[v].tx \in Tx
          /\ worker[v].tx # t
    BY <1>t, <1>0, <1>d DEF ApplierOwnsJob, TokensUnique, ClaimsNameRows, Apply
  <2>2. \A u \in Tx : u # t => job'[u] = job[u] /\ tx'[u] = tx[u]
    BY <1>a, <1>b
  <2>3. QED
    BY <2>1, <2>2 DEF ApplierOwnsJob, Exists
<1>6. EventsMatchRow'
  BY <1>0, <1>a, <1>b, <1>c DEF EventsMatchRow, TypeOK
<1>7. EnrichedAtMostOnce'
  BY <1>t, <1>0, <1>b DEF EnrichedAtMostOnce, TypeOK, Apply, Enriched, RowShape,
     Lifecycle!CategorizedRow, Lifecycle!Absent, Lifecycle!Pending
<1>8. QED
  BY <1>1, <1>2, <1>3, <1>4, <1>5, <1>6, <1>7

\* A rolled back transaction leaves only the worker changed.
LEMMA ApplyFailsStep ==
  ASSUME IInv, NEW w \in Worker, ApplyFails(w)
  PROVE  IInv'
<1> USE DEF IInv
<1>1. TypeOK'
  BY DEF TypeOK, ApplyFails, WorkerState, At
<1>2. RowShape' /\ EventsMatchRow' /\ EnrichedAtMostOnce'
  BY DEF ApplyFails, RowShape, EventsMatchRow, EnrichedAtMostOnce
<1>3. ClaimsNameRows' /\ TokensUnique'
  BY DEF TypeOK, ApplyFails, ClaimsNameRows, TokensUnique, Exists, At
<1>4. SessionsReady' /\ ApplierOwnsJob'
  BY DEF TypeOK, ApplyFails, SessionsReady, ApplierOwnsJob, Exists, At
<1>5. QED
  BY <1>1, <1>2, <1>3, <1>4

\* A retry gives the job back, and only if the claim is still the current one.
LEMMA RetryStep ==
  ASSUME IInv, NEW w \in Worker, Retry(w)
  PROVE  IInv'
<1> DEFINE t == worker[w].tx
<1> USE DEF IInv
<1>0. /\ t \in Tx
      /\ worker[w].token \in Token
      /\ job[t] \in WorkRow
      /\ ~JobLocked(t)
  <2>1. t \in Tx /\ worker[w].token \in 1..job[t].attempts
    BY DEF Retry, ClaimsNameRows
  <2>2. job[t] \in WorkRow /\ job[t].attempts \in 0..MaxAttempts
    BY <2>1 DEF TypeOK, WorkRow
  <2>3. QED
    BY <2>1, <2>2 DEF Retry, Token
<1>a. /\ job' \in [Tx -> WorkRow]
      /\ \A u \in Tx : job'[u].completed = job[u].completed /\ job'[u].attempts = job[u].attempts
      /\ \A u \in Tx : u # t => job'[u] = job[u]
  BY <1>0, RetriedFacts DEF Retry, TypeOK
<1>1. TypeOK'
  BY <1>a DEF TypeOK, Retry, WorkerState, Idle, NoTx, NoToken
<1>2. RowShape' /\ EventsMatchRow' /\ EnrichedAtMostOnce'
  BY <1>a DEF Retry, RowShape, EventsMatchRow, EnrichedAtMostOnce
<1>3. ClaimsNameRows' /\ TokensUnique'
  <2>1. \A v \in Worker : worker'[v].pc # "idle" => worker'[v] = worker[v]
    BY DEF TypeOK, Retry, Idle
  <2>2. UNCHANGED tx
    BY DEF Retry
  <2>3. ClaimsNameRows'
    BY <1>a, <2>1, <2>2 DEF ClaimsNameRows, Exists
  <2>4. TokensUnique'
    BY <2>1 DEF TokensUnique
  <2>5. QED
    BY <2>3, <2>4
<1>4. SessionsReady'
  BY DEF TypeOK, Retry, SessionsReady, Exists, Idle
<1>5. ApplierOwnsJob'
  BY <1>0, <1>a DEF TypeOK, Retry, ApplierOwnsJob, ClaimsNameRows, JobLocked, Exists, Idle
<1>6. QED
  BY <1>1, <1>2, <1>3, <1>4, <1>5

\* A dropped claim changes nothing that is stored.
LEMMA AbandonStep ==
  ASSUME IInv, NEW w \in Worker, Abandon(w)
  PROVE  IInv'
<1> USE DEF IInv
<1>1. TypeOK'
  BY DEF TypeOK, Abandon, WorkerState, Idle, NoTx, NoToken
<1>2. RowShape' /\ EventsMatchRow' /\ EnrichedAtMostOnce'
  BY DEF Abandon, RowShape, EventsMatchRow, EnrichedAtMostOnce
<1>3. ClaimsNameRows' /\ TokensUnique'
  BY DEF TypeOK, Abandon, ClaimsNameRows, TokensUnique, Exists, Idle
<1>4. SessionsReady' /\ ApplierOwnsJob'
  BY DEF TypeOK, Abandon, SessionsReady, ApplierOwnsJob, Exists, Idle
<1>5. QED
  BY <1>1, <1>2, <1>3, <1>4

\* PATCH: locking a row, correcting it and giving up.
LEMMA PatchStep ==
  ASSUME IInv, NEW s \in Session,
         (\E t \in Tx : PatchLock(s, t)) \/ PatchCommit(s) \/ PatchRollback(s)
  PROVE  IInv'
<1> USE DEF IInv
<1>1. CASE (\E t \in Tx : PatchLock(s, t)) \/ PatchRollback(s)
  <2>1. TypeOK'
    BY <1>1 DEF TypeOK, PatchLock, PatchRollback
  <2>2. RowShape' /\ EventsMatchRow' /\ EnrichedAtMostOnce' /\ ClaimsNameRows' /\ TokensUnique'
    BY <1>1 DEF PatchLock, PatchRollback, RowShape, EventsMatchRow, EnrichedAtMostOnce,
       ClaimsNameRows, TokensUnique, Exists
  <2>3. SessionsReady' /\ ApplierOwnsJob'
    BY <1>1 DEF TypeOK, PatchLock, PatchRollback, SessionsReady, ApplierOwnsJob, Exists
  <2>4. QED
    BY <2>1, <2>2, <2>3
<1>2. CASE PatchCommit(s)
  <2>t. PICK t \in Tx : t = session[s]
    BY <1>2 DEF PatchCommit, TypeOK
  <2>0. /\ Exists(t)
        /\ tx'[t] = Lifecycle!CorrectedRow(tx[t])
        /\ tx'[t].status = "categorized"
        /\ tx'[t].score = tx[t].score
        /\ tx' \in [Tx -> Lifecycle!TxRow]
        /\ \A u \in Tx : u # t => tx'[u] = tx[u]
    BY <1>2, <2>t DEF PatchCommit, TypeOK, SessionsReady, Lifecycle!CorrectedRow, Lifecycle!TxRow,
       Lifecycle!Source
  <2>1. TypeOK'
    <3>1. corrections[t] + 1 \in Nat
      BY DEF TypeOK
    <3>2. corrections' \in [Tx -> Nat]
      BY <1>2, <2>t, <3>1 DEF TypeOK, PatchCommit
    <3>3. session' \in [Session -> Tx \cup {NoTx}]
      BY <1>2 DEF TypeOK, PatchCommit
    <3>4. QED
      BY <1>2, <2>0, <3>2, <3>3 DEF TypeOK, PatchCommit
  <2>2. RowShape'
    BY <2>0 DEF RowShape
  <2>3. EventsMatchRow' /\ EnrichedAtMostOnce'
    BY <1>2, <2>0 DEF PatchCommit, EventsMatchRow, EnrichedAtMostOnce, Lifecycle!EventsOf
  <2>4. ClaimsNameRows' /\ TokensUnique'
    BY <1>2, <2>0 DEF PatchCommit, ClaimsNameRows, TokensUnique, Exists
  <2>5. SessionsReady' /\ ApplierOwnsJob'
    BY <1>2, <2>0 DEF TypeOK, PatchCommit, SessionsReady, ApplierOwnsJob, ClaimsNameRows, Exists
  <2>6. QED
    BY <2>1, <2>2, <2>3, <2>4, <2>5
<1>3. QED
  BY <1>1, <1>2

\* The passing of time.
LEMMA TickStep ==
  ASSUME IInv, Tick
  PROVE  IInv'
<1> USE DEF IInv
<1>0. /\ job' \in [Tx -> WorkRow]
      /\ \A t \in Tx : /\ job'[t].completed = job[t].completed
                       /\ job'[t].attempts = job[t].attempts
                       /\ job'[t].token = job[t].token
  BY ElapseFacts DEF Tick, TypeOK
<1>1. TypeOK'
  BY <1>0 DEF TypeOK, Tick
<1>2. RowShape' /\ EventsMatchRow' /\ EnrichedAtMostOnce'
  BY <1>0 DEF Tick, RowShape, EventsMatchRow, EnrichedAtMostOnce
<1>3. ClaimsNameRows' /\ TokensUnique' /\ SessionsReady' /\ ApplierOwnsJob'
  BY <1>0 DEF TypeOK, Tick, ClaimsNameRows, TokensUnique, SessionsReady, ApplierOwnsJob, Exists
<1>4. QED
  BY <1>1, <1>2, <1>3
-----------------------------------------------------------------------------
(* Every step keeps the invariant. *)

LEMMA NextIInv == IInv /\ [Next]_vars => IInv'
<1> SUFFICES ASSUME IInv, [Next]_vars PROVE IInv'
  OBVIOUS
<1>1. ASSUME NEW w \in Worker, NEW t \in Tx, Ingest(w, t) PROVE IInv'
  BY <1>1, IngestStep
<1>2. ASSUME NEW w \in Worker, WorkerStep(w) PROVE IInv'
  BY <1>2, ClaimStep, ClassifyStep, CheckOwnershipStep, RetryStep DEF WorkerStep
<1>3. ASSUME NEW w \in Worker, ApplyStep(w) PROVE IInv'
  BY <1>3, ApplyStepInv DEF ApplyStep
<1>4. ASSUME NEW w \in Worker, ApplyFails(w) \/ Abandon(w) PROVE IInv'
  BY <1>4, ApplyFailsStep, AbandonStep
<1>5. ASSUME NEW s \in Session, (\E t \in Tx : PatchLock(s, t)) \/ PatchEnd(s) PROVE IInv'
  BY <1>5, PatchStep DEF PatchEnd
<1>6. CASE Tick
  BY <1>6, TickStep
<1>7. CASE UNCHANGED vars
  BY <1>7 DEF vars, IInv, TypeOK, RowShape, ClaimsNameRows, TokensUnique, SessionsReady,
     ApplierOwnsJob, EventsMatchRow, EnrichedAtMostOnce, Exists
<1>8. QED
  BY <1>1, <1>2, <1>3, <1>4, <1>5, <1>6, <1>7 DEF Next

(***************************************************************************)
(* The invariant holds in every reachable state: for any number of         *)
(* replicas, whatever their clocks, and any lease and attempt limit.       *)
(***************************************************************************)
THEOREM Invariant == Spec => []IInv
<1>1. QED
  BY InitIInv, NextIInv, PTL DEF Spec

(***************************************************************************)
(* The rows, jobs, claims and sessions are well-formed; in particular no   *)
(* job is claimed more than MaxAttempts times.                             *)
(***************************************************************************)
THEOREM TypeCorrect == Spec => []TypeOK
<1>1. IInv => TypeOK
  BY DEF IInv
<1>2. QED
  BY <1>1, Invariant, PTL

(***************************************************************************)
(* The fence: a worker that passed owns() holds the job until its          *)
(* transaction ends, however many replicas compete for it.                 *)
(***************************************************************************)
THEOREM Fence == Spec => []ApplierOwnsJob
<1>1. IInv => ApplierOwnsJob
  BY DEF IInv
<1>2. QED
  BY <1>1, Invariant, PTL

(***************************************************************************)
(* The enrichment, its events and the completion of its job commit         *)
(* together, and happen at most once.                                      *)
(***************************************************************************)
THEOREM AtomicEnrichment == Spec => [](EventsMatchRow /\ EnrichedAtMostOnce)
<1>1. IInv => EventsMatchRow /\ EnrichedAtMostOnce
  BY DEF IInv
<1>2. QED
  BY <1>1, Invariant, PTL
-----------------------------------------------------------------------------
(* Action properties. *)

\* What a step may do to the ledger rows.
LEMMA LedgerSteps ==
  ASSUME IInv, [Next]_vars
  PROVE  \/ UNCHANGED <<tx, outbox, [t \in Tx |-> job[t].completed]>>
         \/ \E t \in Tx : Lifecycle!Ingest(t) \/ Lifecycle!Correct(t) \/ Lifecycle!Enrich(t)
<1> USE DEF IInv
<1>1. ASSUME NEW w \in Worker, NEW t \in Tx, Ingest(w, t)
      PROVE  Lifecycle!Ingest(t)
  <2>1. tx[t] = Lifecycle!Absent
    BY <1>1 DEF Ingest, Exists, RowShape, Lifecycle!Pending
  <2>2. \A u \in Tx : job'[u].completed = job[u].completed
    <3>1. job[t].completed \in BOOLEAN /\ ~job[t].completed
      BY <2>1 DEF TypeOK, EventsMatchRow, WorkRow, Lifecycle!Absent
    <3>2. job[t].completed = FALSE
      BY <3>1, Zenon
    <3>3. job' = [job EXCEPT ![t] = NewRow(ClockAhead[w])] /\ NewRow(ClockAhead[w]).completed = FALSE
      BY <1>1 DEF Ingest, NewRow
    <3>4. QED
      BY <3>2, <3>3 DEF TypeOK
  <2>3. QED
    BY <1>1, <2>1, <2>2 DEF Ingest, Lifecycle!Ingest
<1>2. ASSUME NEW w \in Worker, WorkerStep(w) \/ ApplyFails(w) \/ Abandon(w)
      PROVE  UNCHANGED <<tx, outbox, [t \in Tx |-> job[t].completed]>>
  <2>1. UNCHANGED <<tx, outbox>>
    BY <1>2 DEF WorkerStep, Claim, Classify, CheckOwnership, Retry, ApplyFails, Abandon
  <2>2. \A t \in Tx : job'[t].completed = job[t].completed
    <3>1. CASE \E t \in Tx : Claim(w, t)
      BY <3>1 DEF Claim, TypeOK, Claimed
    <3>2. CASE Retry(w)
      BY <3>2 DEF Retry, TypeOK, Retried
    <3>3. CASE UNCHANGED job
      BY <3>3
    <3>4. QED
      BY <1>2, <3>1, <3>2, <3>3 DEF WorkerStep, Classify, CheckOwnership, ApplyFails, Abandon
  <2>3. QED
    BY <2>1, <2>2
<1>3. ASSUME NEW w \in Worker, NEW score \in {"low", "high"}, NEW acknowledged \in BOOLEAN,
             Apply(w, score, acknowledged)
      PROVE  \E t \in Tx : Lifecycle!Enrich(t)
  <2>1. PICK t \in Tx : t = worker[w].tx
    BY <1>3 DEF Apply, ClaimsNameRows
  <2>2. /\ tx[t] # Lifecycle!Absent
        /\ ~job[t].completed
        /\ job[t].token = worker[w].token
        /\ worker[w].result \in {"llm", "rules"}
        /\ outbox[t] = {}
    BY <1>3, <2>1 DEF Apply, ApplierOwnsJob, SessionsReady, TypeOK, WorkerState, EventsMatchRow,
       Exists, Lifecycle!Absent
  <2>3. tx' = [tx EXCEPT ![t] = Lifecycle!CategorizedRow(tx[t], worker[w].result, score)]
    BY <1>3, <2>1 DEF Apply, Enriched
  <2>4. outbox' = [outbox EXCEPT ![t] = Lifecycle!EventsOf(tx'[t])]
    BY <1>3, <2>1, <2>2 DEF Apply, Enriched, TypeOK
  <2>5. \A u \in Tx : job'[u].completed = IF u = t THEN TRUE ELSE job[u].completed
    BY <1>3, <2>1, <2>2 DEF Apply, Enriched, TypeOK, Completed
  <2>6. [u \in Tx |-> job'[u].completed] = [[u \in Tx |-> job[u].completed] EXCEPT ![t] = TRUE]
    BY <2>5
  <2>7. QED
    BY <2>2, <2>3, <2>4, <2>6 DEF Lifecycle!Enrich
<1>4. ASSUME NEW s \in Session, PatchCommit(s)
      PROVE  \E t \in Tx : Lifecycle!Correct(t)
  <2>1. PICK t \in Tx : t = session[s] /\ tx[t] # Lifecycle!Absent
    <3>1. session[s] \in Tx /\ tx[session[s]].status # "absent"
      BY <1>4 DEF PatchCommit, TypeOK, SessionsReady, Exists
    <3>2. QED
      <4>1. Lifecycle!Absent.status = "absent"
        BY DEF Lifecycle!Absent
      <4>2. QED
        BY <3>1, <4>1, Zenon
  <2>2. QED
    BY <1>4, <2>1 DEF PatchCommit, Lifecycle!Correct
<1>5. ASSUME NEW s \in Session, (\E t \in Tx : PatchLock(s, t)) \/ PatchRollback(s)
      PROVE  UNCHANGED <<tx, outbox, [t \in Tx |-> job[t].completed]>>
  BY <1>5 DEF PatchLock, PatchRollback
<1>6. CASE Tick
  <2>1. \A t \in Tx : job'[t].completed = job[t].completed
    BY <1>6 DEF Tick, Elapse
  <2>2. QED
    BY <1>6, <2>1 DEF Tick
<1>7. CASE UNCHANGED vars
  BY <1>7 DEF vars
<1>8. QED
  BY <1>1, <1>2, <1>3, <1>4, <1>5, <1>6, <1>7 DEF Next, ApplyStep, PatchEnd

(***************************************************************************)
(* Refinement: leases, claims, retries and crashes implement the abstract  *)
(* life of a transaction, one atomic enrichment at most.                   *)
(***************************************************************************)
THEOREM Refinement == Spec => ImplementsLifecycle
<1>1. Init => Lifecycle!Init
  BY DEF Init, Lifecycle!Init, NewRow
<1>2. IInv /\ [Next]_vars => [Lifecycle!Next]_(Lifecycle!vars)
  BY LedgerSteps DEF Lifecycle!Next, Lifecycle!vars
<1>3. QED
  BY <1>1, <1>2, Invariant, PTL DEF Spec, ImplementsLifecycle, Lifecycle!Spec

(***************************************************************************)
(* A user's correction survives every later step, the commit of an         *)
(* enrichment that was under way included.                                 *)
(***************************************************************************)
THEOREM CorrectionsWin == Spec => CorrectionSticks
<1>1. ASSUME IInv, [Next]_vars, NEW t \in Tx, tx[t].source = "user"
      PROVE  tx'[t].source = "user" /\ tx'[t].score = tx[t].score
  <2>0. tx \in [Tx -> Lifecycle!TxRow] /\ tx[t].status = "categorized"
    BY <1>1 DEF IInv, TypeOK, RowShape, Lifecycle!Absent, Lifecycle!Pending
  <2>1. ASSUME NEW u \in Tx, Lifecycle!Ingest(u) \/ Lifecycle!Correct(u) \/ Lifecycle!Enrich(u)
        PROVE  tx'[t].source = "user" /\ tx'[t].score = tx[t].score
    <3>1. CASE Lifecycle!Ingest(u)
      BY <1>1, <2>0, <3>1 DEF Lifecycle!Ingest, Lifecycle!Absent
    <3>2. CASE Lifecycle!Correct(u)
      BY <1>1, <2>0, <3>2 DEF Lifecycle!Correct, Lifecycle!CorrectedRow
    <3>3. CASE Lifecycle!Enrich(u)
      BY <1>1, <2>0, <3>3 DEF Lifecycle!Enrich, Lifecycle!CategorizedRow
    <3>4. QED
      BY <2>1, <3>1, <3>2, <3>3
  <2>2. CASE UNCHANGED tx
    BY <1>1, <2>2
  <2>3. QED
    BY <1>1, <2>1, <2>2, LedgerSteps
<1>2. IInv /\ [Next]_vars =>
        [\A t \in Tx : tx[t].source = "user" =>
                        tx'[t].source = "user" /\ tx'[t].score = tx[t].score]_vars
  BY <1>1
<1>3. QED
  BY <1>2, Invariant, PTL DEF Spec, CorrectionSticks

(***************************************************************************)
(* A claim that no replica's clock sees expired is ended only by the       *)
(* worker that holds it.                                                   *)
(***************************************************************************)
THEOREM ClaimsAreExclusive == Spec => LiveClaimKept
<1> DEFINE Keeps(w) ==
      LET t == worker[w].tx IN
      /\ worker[w].pc # "idle"
      /\ worker'[w] = worker[w]
      /\ job[t].token = worker[w].token
      /\ \A v \in Worker : job[t].lease > ClockAhead[v]
      => job'[t].token = job[t].token
<1>1. ASSUME IInv, [Next]_vars, NEW w \in Worker PROVE Keeps(w)
  <2> SUFFICES ASSUME worker[w].pc # "idle",
                      worker'[w] = worker[w],
                      job[worker[w].tx].token = worker[w].token,
                      \A v \in Worker : job[worker[w].tx].lease > ClockAhead[v]
               PROVE  job'[worker[w].tx].token = job[worker[w].tx].token
    OBVIOUS
  <2> USE <1>1 DEF IInv
  <2>t. PICK t \in Tx : t = worker[w].tx /\ Exists(t)
    BY DEF ClaimsNameRows
  <2>0. /\ job \in [Tx -> WorkRow]
        /\ job[t].lease \in Nat
        /\ \A v \in Worker : ClockAhead[v] \in Nat
    BY DEF TypeOK, WorkRow
  <2>1. ASSUME NEW v \in Worker, NEW u \in Tx, Ingest(v, u) PROVE job'[t].token = job[t].token
    BY <2>t, <2>0, <2>1 DEF Ingest
  <2>2. ASSUME NEW v \in Worker, NEW u \in Tx, Claim(v, u) PROVE job'[t].token = job[t].token
    <3>1. ~(job[t].lease <= ClockAhead[v])
      BY <2>t, <2>0
    <3>2. u # t
      BY <2>2, <3>1 DEF Claim, Claimable, Eligible
    <3>3. QED
      BY <2>2, <2>0, <3>2 DEF Claim
  <2>3. ASSUME NEW v \in Worker, v # w, worker[v].pc # "idle", worker[v].tx = t
        PROVE  worker[v].token # job[t].token
    BY <2>t, <2>3 DEF TokensUnique
  <2>4. ASSUME NEW v \in Worker, Retry(v) PROVE job'[t].token = job[t].token
    <3>1. v # w
      BY <2>4 DEF Retry, TypeOK, Idle
    <3>2. worker[v].tx = t => Retried(job[t], worker[v].token, ClockAhead[v]) = job[t]
      BY <2>3, <2>4, <3>1 DEF Retry, Retried
    <3>3. QED
      BY <2>4, <2>0, <3>2 DEF Retry
  <2>5. ASSUME NEW v \in Worker, NEW score \in {"low", "high"}, NEW acknowledged \in BOOLEAN,
               Apply(v, score, acknowledged)
        PROVE  job'[t].token = job[t].token
    <3>1. v # w
      BY <2>5 DEF Apply, TypeOK, Idle, At
    <3>2. worker[v].tx = t => Completed(job[t], worker[v].token) = job[t]
      BY <2>3, <2>5, <3>1 DEF Apply, Completed
    <3>3. QED
      BY <2>5, <2>0, <3>2 DEF Apply, Enriched
  <2>6. ASSUME Tick PROVE job'[t].token = job[t].token
    BY <2>6, <2>0 DEF Tick, Elapse
  <2>7. ASSUME UNCHANGED job PROVE job'[t].token = job[t].token
    BY <2>7
  <2>8. \/ \E v \in Worker, u \in Tx : Ingest(v, u) \/ Claim(v, u)
        \/ \E v \in Worker : Retry(v) \/ ApplyStep(v)
        \/ Tick
        \/ UNCHANGED job
    BY DEF Next, WorkerStep, Classify, CheckOwnership, ApplyFails, Abandon, PatchLock, PatchEnd,
       PatchCommit, PatchRollback, vars
  <2>9. job'[t].token = job[t].token
    BY <2>1, <2>2, <2>4, <2>5, <2>6, <2>7, <2>8 DEF ApplyStep
  <2>10. QED
    BY <2>t, <2>9, Zenon
<1>2. IInv /\ [Next]_vars => [\A w \in Worker : Keeps(w)]_vars
  BY <1>1
<1>3. QED
  BY <1>2, Invariant, PTL DEF Spec, LiveClaimKept
=============================================================================
