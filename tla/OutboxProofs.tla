---------------------------- MODULE OutboxProofs ----------------------------
(***************************************************************************)
(* Proofs about Outbox, for any set of events, accounts, enrichment        *)
(* transactions and replicas, any clocks, lease and number of attempts.    *)
(***************************************************************************)
EXTENDS Outbox, FiniteSetTheorems, TLAPS

USE LeaseAssumption, AttemptsAssumption, EventAssumption, AccountAssumption, BatchAssumption,
    ReplicaAssumption, NoBatchAssumption

-----------------------------------------------------------------------------
(* What the statements of WorkRepository do to a well-formed row. *)

\* The retry delay is a natural number.
LEMMA BackoffType == \A n \in Token : Backoff(n) \in Nat
<1>1. \A n \in Token : Smaller(n, 6) \in 1..6
  BY DEF Smaller, Token
<1>2. \A k \in 1..6 : BackoffTable[k] \in Nat
  BY DEF BackoffTable
<1>3. QED
  BY <1>1, <1>2 DEF Backoff

\* A claim counts one attempt more and completes nothing.
LEMMA ClaimedRow ==
  ASSUME NEW r \in WorkRow, NEW ahead \in Nat, Eligible(r, ahead)
  PROVE  /\ Claimed(r, ahead) \in WorkRow
         /\ Claimed(r, ahead).attempts = r.attempts + 1
         /\ Claimed(r, ahead).completed = r.completed
         /\ r.attempts + 1 \in Token
<1>1. r.attempts \in Nat /\ r.attempts + 1 \in 1..MaxAttempts
  BY DEF WorkRow, Eligible
<1>2. LeaseSeconds + ahead \in Nat
  OBVIOUS
<1>3. QED
  BY <1>1, <1>2 DEF WorkRow, Claimed, Eligible, Token, NoToken

\* Completing a row leaves its attempts alone and never reopens it.
LEMMA CompletedRow ==
  ASSUME NEW r \in WorkRow, NEW token \in Token
  PROVE  /\ Completed(r, token) \in WorkRow
         /\ Completed(r, token).attempts = r.attempts
         /\ r.completed => Completed(r, token).completed
BY DEF WorkRow, Completed, Token, NoToken

-----------------------------------------------------------------------------
(* One lemma for each kind of step: what it does to the lease columns.  The *)
(* invariant's parts are then proved from these summaries.                  *)

\* No step lowers a row's attempts or reopens it; only Claim and Insert write more than the timers.
RowsKept ==
  \A e \in Event : row'[e].attempts = row[e].attempts /\ row'[e].completed = row[e].completed

\* Giving a row back keeps what the properties read.
LEMMA QuietRows ==
  ASSUME IInv, NEW p \in Replica, Retry(p)
  PROVE  row' \in [Event -> WorkRow] /\ RowsKept
<1> USE DEF IInv, TypeOK
<1> DEFINE e == loop[p].event
           new == Retried(row[e], loop[p].token, ClockAhead[p])
<1>1. e \in Event /\ loop[p].token \in Token /\ row[e] \in WorkRow
  BY DEF Retry, LoopsHoldClaims
<1>2. new \in WorkRow /\ new.attempts = row[e].attempts /\ new.completed = row[e].completed
  <2>1. ClockAhead[p] \in Nat
    OBVIOUS
  <2>2. Backoff(loop[p].token) + ClockAhead[p] \in Nat
    BY <1>1, <2>1, BackoffType
  <2>3. QED
    BY <1>1, <2>2 DEF WorkRow, Retried, Token, NoToken
<1>3. row' = [row EXCEPT ![e] = new]
  BY DEF Retry
<1> HIDE DEF new
<1>4. QED
  BY <1>1, <1>2, <1>3 DEF RowsKept

\* And so does the passing of time.
LEMMA TickRows ==
  ASSUME IInv, Tick
  PROVE  row' \in [Event -> WorkRow] /\ RowsKept
<1>1. \A r \in WorkRow : /\ Elapse(r) \in WorkRow
                         /\ Elapse(r).attempts = r.attempts
                         /\ Elapse(r).completed = r.completed
  BY DEF WorkRow, Elapse, Sooner, Token, NoToken
<1>2. QED
  BY <1>1 DEF Tick, RowsKept, IInv, TypeOK

\* Completing touches only the loop's own row.
LEMMA CompleteRows ==
  ASSUME IInv, NEW p \in Replica, NEW a \in BOOLEAN, Complete(p, a)
  PROVE  /\ row' \in [Event -> WorkRow]
         /\ loop[p].event \in Event /\ loop[p].token \in Token
         /\ \A e \in Event : /\ row'[e].attempts = row[e].attempts
                             /\ row[e].completed => row'[e].completed
                             /\ e # loop[p].event => row'[e].completed = row[e].completed
<1> USE DEF IInv, TypeOK
<1>1. loop[p].event \in Event /\ loop[p].token \in Token
  BY DEF Complete, LoopsHoldClaims
<1> DEFINE e == loop[p].event
           new == Completed(row[e], loop[p].token)
<1>3. row[e] \in WorkRow
  BY <1>1
<1>4. new \in WorkRow /\ new.attempts = row[e].attempts /\ (row[e].completed => new.completed)
  BY <1>1, <1>3, CompletedRow
<1>5. row' = [row EXCEPT ![e] = new] \/ row' = row
  BY <1>1 DEF Complete
<1> HIDE DEF new
<1>6. CASE row' = row
  BY <1>1, <1>6
<1>7. CASE row' = [row EXCEPT ![e] = new]
  <2>1. row' \in [Event -> WorkRow]
    BY <1>1, <1>4, <1>7
  <2>2. row'[e] = new /\ \A f \in Event : f # e => row'[f] = row[f]
    BY <1>1, <1>7
  <2>3. QED
    BY ONLY <1>1, <1>4, <2>1, <2>2
<1>8. QED
  BY <1>5, <1>6, <1>7

\* A claim takes an open row of a committed event and counts one attempt.
LEMMA ClaimRows ==
  ASSUME IInv, NEW p \in Replica, NEW e \in Event, Claim(p, e)
  PROVE  /\ row' \in [Event -> WorkRow]
         /\ row[e].attempts + 1 \in Token
         /\ row'[e].attempts = row[e].attempts + 1
         /\ row'[e].completed = row[e].completed
         /\ \A f \in Event : f # e => row'[f] = row[f]
         /\ stage[e] = "committed"
         /\ \A f \in Event : Earlier(f, e) /\ stage[f] = "committed" => row[f].completed
<1> USE DEF IInv, TypeOK
<1>1. ClockAhead[p] \in Nat
  OBVIOUS
<1>2. QED
  BY <1>1, ClaimedRow DEF Claim, Claimable

\* Inserting overwrites a row nobody has worked on.
LEMMA InsertRows ==
  ASSUME IInv, NEW r \in Replica, NEW e \in Event, Insert(r, e)
  PROVE  row' \in [Event -> WorkRow] /\ RowsKept
<1> USE DEF IInv, TypeOK
<1>1. /\ NewRow(ClockAhead[r]) \in WorkRow
      /\ NewRow(ClockAhead[r]).attempts = 0
      /\ NewRow(ClockAhead[r]).completed = FALSE
  BY DEF WorkRow, NewRow, Token, NoToken
<1>2. row[e].attempts = 0 /\ row[e].completed = FALSE
  BY DEF Insert, OnlyCommittedWorked, WorkRow
<1>3. QED
  BY <1>1, <1>2 DEF Insert, RowsKept

-----------------------------------------------------------------------------
(* Type correctness. *)

\* Every step keeps the types.
LEMMA TypeStep == IInv /\ [Next]_vars => TypeOK'
<1> SUFFICES ASSUME IInv, [Next]_vars PROVE TypeOK'
  OBVIOUS
<1> USE DEF IInv, TypeOK
<1>1. ASSUME NEW r \in Replica, EnrichmentStep(r) PROVE TypeOK'
  <2>1. ASSUME NEW b \in Batch, BeginBatch(r, b) PROVE TypeOK'
    BY <2>1 DEF BeginBatch
  <2>2. ASSUME NEW e \in Event, Insert(r, e) PROVE TypeOK'
    BY <2>2, InsertRows DEF Insert
  <2>3. CASE CommitBatch(r)
    BY <2>3 DEF CommitBatch
  <2>4. CASE RollbackBatch(r)
    BY <2>4 DEF RollbackBatch
  <2>5. QED
    BY <1>1, <2>1, <2>2, <2>3, <2>4 DEF EnrichmentStep
<1>2. ASSUME NEW p \in Replica, PublishStep(p) PROVE TypeOK'
  <2>1. ASSUME NEW e \in Event, Claim(p, e) PROVE TypeOK'
    BY <2>1, ClaimRows DEF Claim, LoopState
  <2>2. CASE StartProducer(p)
    BY <2>2 DEF StartProducer
  <2>3. CASE Send(p)
    <3>1. loop[p].event \in Event
      BY <2>3 DEF Send, LoopsHoldClaims
    <3>2. AccountOf[loop[p].event] \in Account
      BY <3>1
    <3>3. log' \in [Account -> Seq(Event)]
      BY <2>3, <3>1, <3>2 DEF Send, Store
    <3>4. loop' \in [Replica -> LoopState]
      BY <2>3 DEF Send, At, LoopState
    <3>5. QED
      BY <2>3, <3>3, <3>4 DEF Send
  <2>4. ASSUME NEW a \in BOOLEAN, Complete(p, a) PROVE TypeOK'
    <3>1. loop' \in [Replica -> LoopState]
      BY <2>4 DEF Complete, At, Idle, LoopState
    <3>2. QED
      BY <2>4, <3>1, CompleteRows DEF Complete
  <2>5. CASE Retry(p)
    BY <2>5, QuietRows DEF Retry, Idle, LoopState
  <2>6. QED
    BY <1>2, <2>1, <2>2, <2>3, <2>4, <2>5 DEF PublishStep
<1>3. ASSUME NEW p \in Replica, SendUnacknowledged(p) \/ PublishFails(p) \/ Abandon(p) PROVE TypeOK'
  <2>1. CASE SendUnacknowledged(p)
    BY <2>1 DEF SendUnacknowledged, At, LoopState, LoopsHoldClaims
  <2>2. CASE PublishFails(p)
    BY <2>2 DEF PublishFails, At, LoopState
  <2>3. CASE Abandon(p)
    BY <2>3 DEF Abandon, Idle, LoopState
  <2>4. QED
    BY <1>3, <2>1, <2>2, <2>3
<1>4. ASSUME NEW e \in Event, NEW k \in Token, StoreLate(e, k) \/ LoseLate(e, k) PROVE TypeOK'
  <2>1. AccountOf[e] \in Account
    OBVIOUS
  <2>2. CASE LoseLate(e, k)
    BY <2>2 DEF LoseLate
  <2>3. CASE StoreLate(e, k)
    <3>1. log' \in [Account -> Seq(Event)]
      BY <2>1, <2>3 DEF StoreLate, Store
    <3>2. QED
      BY <2>3, <3>1 DEF StoreLate
  <2>4. QED
    BY <1>4, <2>2, <2>3
<1>5. CASE Tick
  BY <1>5, TickRows DEF Tick
<1>6. CASE UNCHANGED vars
  BY <1>6 DEF vars
<1>7. QED
  BY <1>1, <1>2, <1>3, <1>4, <1>5, <1>6 DEF Next

-----------------------------------------------------------------------------
(* The log. *)

\* Storing a record delivers its event and nothing else, at the end of its partition.
LEMMA StoreFacts ==
  ASSUME TypeOK, NEW e \in Event, Store(e)
  PROVE  /\ \A f \in Event : Delivered(f)' <=> Delivered(f) \/ f = e
         /\ \A f \in Event : AccountOf[f] # AccountOf[e] =>
              log'[AccountOf[f]] = log[AccountOf[f]]
         /\ log'[AccountOf[e]] = Append(log[AccountOf[e]], e)
<1> DEFINE a == AccountOf[e]
<1>1. a \in Account /\ log[a] \in Seq(Event)
  BY DEF TypeOK
<1>2. log'[a] = Append(log[a], e)
  BY <1>1 DEF Store, TypeOK
<1>3. \A f \in Event : AccountOf[f] # a => log'[AccountOf[f]] = log[AccountOf[f]]
  BY <1>1 DEF Store, TypeOK
<1>4. ASSUME NEW f \in Event, AccountOf[f] = a
      PROVE  Delivered(f)' <=> Delivered(f) \/ f = e
  <2>1. Len(Append(log[a], e)) = Len(log[a]) + 1 /\ Len(log[a]) \in Nat
    BY <1>1
  <2>2. \A i \in 1..Len(log[a]) : Append(log[a], e)[i] = log[a][i]
    BY <1>1
  <2>3. Append(log[a], e)[Len(log[a]) + 1] = e
    BY <1>1
  <2>4. Delivered(f)' <=> \E i \in 1..(Len(log[a]) + 1) : Append(log[a], e)[i] = f
    BY <1>2, <1>4, <2>1 DEF Delivered
  <2>5. Delivered(f) <=> \E i \in 1..Len(log[a]) : log[a][i] = f
    BY <1>4 DEF Delivered
  <2>6. 1..(Len(log[a]) + 1) = 1..Len(log[a]) \cup {Len(log[a]) + 1}
    BY <2>1
  <2>7. QED
    BY <2>2, <2>3, <2>4, <2>5, <2>6
<1>5. ASSUME NEW f \in Event, AccountOf[f] # a
      PROVE  Delivered(f)' <=> Delivered(f) \/ f = e
  BY <1>3, <1>5 DEF Delivered
<1>6. QED
  BY <1>2, <1>3, <1>4, <1>5

\* An unchanged log delivers what it delivered.
LEMMA SameLog ==
  ASSUME log' = log
  PROVE  /\ \A f \in Event : Delivered(f)' <=> Delivered(f)
         /\ \A f \in Event : Deliveries(f)' = Deliveries(f)
         /\ \A e, f \in Event : InOrder(e, f)' <=> InOrder(e, f)
BY DEF Delivered, Deliveries, InOrder

\* Storing a record of e keeps the order of a pair whose first event was already delivered.
LEMMA StoreKeepsOrder ==
  ASSUME TypeOK, NEW g \in Event, Store(g), NEW e \in Event, NEW f \in Event, Earlier(e, f),
         InOrder(e, f), f = g => Delivered(e)
  PROVE  InOrder(e, f)'
<1> DEFINE a == AccountOf[f]
           l == log[a]
<1>1. a \in Account /\ l \in Seq(Event) /\ AccountOf[e] = a
  BY DEF TypeOK, Earlier
<1>2. CASE AccountOf[g] # a
  <2>1. log'[a] = l
    BY <1>2, StoreFacts
  <2>2. QED
    BY <2>1 DEF InOrder
<1>3. CASE AccountOf[g] = a
  <2>1. log'[a] = Append(l, g)
    BY <1>3, StoreFacts
  <2>2. /\ Len(Append(l, g)) = Len(l) + 1
        /\ Len(l) \in Nat
        /\ \A i \in 1..Len(l) : Append(l, g)[i] = l[i]
        /\ Append(l, g)[Len(l) + 1] = g
    BY <1>1
  <2>3. SUFFICES ASSUME NEW j \in 1..(Len(l) + 1), Append(l, g)[j] = f
                 PROVE  \E i \in 1..(j - 1) : Append(l, g)[i] = e
    BY <2>1, <2>2 DEF InOrder
  <2>4. CASE j \in 1..Len(l)
    <3>1. PICK i \in 1..(j - 1) : l[i] = e
      BY <2>2, <2>3, <2>4 DEF InOrder
    <3>2. i \in 1..Len(l)
      BY <2>2, <2>4
    <3>3. QED
      BY <2>2, <3>1, <3>2
  <2>5. CASE j = Len(l) + 1
    <3>1. PICK i \in 1..Len(l) : l[i] = e
      BY <1>1, <2>2, <2>3, <2>5 DEF Delivered
    <3>2. i \in 1..(j - 1)
      BY <2>2, <2>5
    <3>3. QED
      BY <2>2, <3>1, <3>2
  <2>6. QED
    BY <2>2, <2>4, <2>5
<1>4. QED
  BY <1>2, <1>3

\* Storing a record adds one delivery of its event, and none of another.
LEMMA StoreCounts ==
  ASSUME TypeOK, NEW e \in Event, Store(e)
  PROVE  /\ Cardinality(Deliveries(e)') = Cardinality(Deliveries(e)) + 1
         /\ \A f \in Event : f # e => Deliveries(f)' = Deliveries(f)
<1> DEFINE a == AccountOf[e]
           l == log[a]
<1>1. a \in Account /\ l \in Seq(Event)
  BY DEF TypeOK
<1>2. /\ Len(Append(l, e)) = Len(l) + 1
      /\ Len(l) \in Nat
      /\ \A i \in 1..Len(l) : Append(l, e)[i] = l[i]
      /\ Append(l, e)[Len(l) + 1] = e
  BY <1>1
<1>3. log'[a] = Append(l, e)
  BY StoreFacts
<1>4. Deliveries(e)' = Deliveries(e) \cup {Len(l) + 1}
  BY <1>2, <1>3 DEF Deliveries
<1>5. Len(l) + 1 \notin Deliveries(e)
  BY <1>2 DEF Deliveries
<1>6. IsFiniteSet(Deliveries(e))
  <2>1. IsFiniteSet(1..Len(l))
    BY <1>2, FS_Interval
  <2>2. QED
    BY <2>1, FS_Subset DEF Deliveries
<1>7. ASSUME NEW f \in Event, f # e PROVE Deliveries(f)' = Deliveries(f)
  <2>1. CASE AccountOf[f] = a
    BY <1>2, <1>3, <1>7, <2>1 DEF Deliveries
  <2>2. CASE AccountOf[f] # a
    BY <2>2, StoreFacts DEF Deliveries
  <2>3. QED
    BY <2>1, <2>2
<1>8. Cardinality(Deliveries(e)') = Cardinality(Deliveries(e)) + 1
  BY <1>4, <1>5, <1>6, FS_AddElement
<1>9. QED
  BY <1>7, <1>8

-----------------------------------------------------------------------------
(* Counting claims. *)

\* attempts is a count.
LEMMA AttemptsNat ==
  /\ TypeOK => \A e \in Event : row[e].attempts \in Nat
  /\ TypeOK' => \A e \in Event : row'[e].attempts \in Nat
BY DEF TypeOK, WorkRow

\* The outstanding claims of an event are finitely many, and so are its deliveries.
LEMMA CountsFinite ==
  ASSUME TypeOK, NEW e \in Event
  PROVE  /\ IsFiniteSet(Outstanding(e)) /\ Cardinality(Outstanding(e)) \in Nat
         /\ IsFiniteSet(Deliveries(e)) /\ Cardinality(Deliveries(e)) \in Nat
<1>1. IsFiniteSet(Token)
  BY FS_Interval DEF Token
<1>2. AccountOf[e] \in Account /\ log[AccountOf[e]] \in Seq(Event)
  BY DEF TypeOK
<1>3. Len(log[AccountOf[e]]) \in Nat
  BY <1>2
<1>4. IsFiniteSet(1..Len(log[AccountOf[e]]))
  BY <1>3, FS_Interval
<1>5. Outstanding(e) \subseteq Token
  BY DEF Outstanding
<1>6. Deliveries(e) \subseteq 1..Len(log[AccountOf[e]])
  BY DEF Deliveries
<1>7. IsFiniteSet(Outstanding(e)) /\ IsFiniteSet(Deliveries(e))
  BY <1>1, <1>4, <1>5, <1>6, FS_Subset
<1>8. QED
  BY <1>7, FS_CardinalityType

\* Fewer outstanding claims and the same deliveries are paid for as before.
LEMMA FewerOutstanding ==
  ASSUME IInv, log' = log,
         \A e \in Event : row'[e].attempts = row[e].attempts,
         \A e \in Event : Outstanding(e)' \subseteq Outstanding(e)
  PROVE  ClaimsPay'
<1> SUFFICES ASSUME NEW e \in Event
             PROVE  (Cardinality(Deliveries(e)) + Cardinality(Outstanding(e)) <= row[e].attempts)'
  BY DEF ClaimsPay
<1>1. /\ IsFiniteSet(Outstanding(e)) /\ Cardinality(Outstanding(e)) \in Nat
      /\ Cardinality(Deliveries(e)) \in Nat
  BY CountsFinite DEF IInv
<1>2. /\ Cardinality(Outstanding(e)') <= Cardinality(Outstanding(e))
      /\ IsFiniteSet(Outstanding(e)')
  BY <1>1, FS_Subset
<1>3. Cardinality(Outstanding(e)') \in Nat
  BY <1>2, FS_CardinalityType
<1>4. Deliveries(e)' = Deliveries(e)
  BY SameLog
<1>5. row[e].attempts \in Nat
  BY AttemptsNat DEF IInv
<1>6. Cardinality(Deliveries(e)) + Cardinality(Outstanding(e)) <= row[e].attempts
  BY DEF IInv, ClaimsPay
<1>7. QED
  BY <1>1, <1>2, <1>3, <1>4, <1>5, <1>6

\* Storing a record uses up the claim it was sent under.
LEMMA StoreIsPaid ==
  ASSUME IInv, NEW e \in Event, NEW k \in Token, Store(e), row' = row,
         k \in Outstanding(e), Outstanding(e)' = Outstanding(e) \ {k},
         \A f \in Event : f # e => Outstanding(f)' = Outstanding(f)
  PROVE  ClaimsPay'
<1> SUFFICES ASSUME NEW f \in Event
             PROVE  (Cardinality(Deliveries(f)) + Cardinality(Outstanding(f)) <= row[f].attempts)'
  BY DEF ClaimsPay
<1>1. /\ IsFiniteSet(Outstanding(f)) /\ Cardinality(Outstanding(f)) \in Nat
      /\ Cardinality(Deliveries(f)) \in Nat
  BY CountsFinite DEF IInv
<1>2. Cardinality(Deliveries(f)) + Cardinality(Outstanding(f)) <= row[f].attempts
  BY DEF IInv, ClaimsPay
<1>3. row[f].attempts \in Nat
  BY AttemptsNat DEF IInv
<1>4. CASE f = e
  <2>1. Cardinality(Outstanding(f)') = Cardinality(Outstanding(f)) - 1
    BY <1>1, <1>4, FS_RemoveElement
  <2>2. Cardinality(Deliveries(f)') = Cardinality(Deliveries(f)) + 1
    BY <1>4, StoreCounts DEF IInv
  <2>3. QED
    BY <1>1, <1>2, <1>3, <2>1, <2>2
<1>5. CASE f # e
  <2>1. Deliveries(f)' = Deliveries(f)
    BY <1>5, StoreCounts DEF IInv
  <2>2. QED
    BY <1>2, <1>5, <2>1
<1>6. QED
  BY <1>4, <1>5

-----------------------------------------------------------------------------
(* The inductive invariant, one lemma for each action. *)

\* Initially nothing is written, claimed or sent.
LEMMA InitIInv == Init => IInv
<1> SUFFICES ASSUME Init PROVE IInv
  OBVIOUS
<1>0. NewRow(0) \in WorkRow /\ NewRow(0).attempts = 0 /\ ~NewRow(0).completed
  BY DEF WorkRow, NewRow, Token, NoToken
<1>1. TypeOK
  BY <1>0 DEF Init, TypeOK, LoopState, Idle
<1>2. OnlyCommittedWorked /\ OpenIsUncommitted /\ LoopsHoldClaims /\ ClaimsUnique /\ AckedIsDelivered
  BY <1>0 DEF Init, OnlyCommittedWorked, OpenIsUncommitted, LoopsHoldClaims, ClaimsUnique,
     AckedIsDelivered, Idle
<1>3. ClaimedHasNoOpenEarlier /\ AccountOrder
  BY DEF Init, ClaimedHasNoOpenEarlier, AccountOrder
<1>4. \A e \in Event : Deliveries(e) = {} /\ Outstanding(e) = {} /\ ~Delivered(e)
  BY DEF Init, Deliveries, Outstanding, Idle, Delivered
<1>5. RecordsWereClaimed /\ CompletedWasPublished
  BY <1>0, <1>4 DEF RecordsWereClaimed, CompletedWasPublished, Init
<1>6. ClaimsPay
  <2>1. Cardinality({}) = 0
    BY FS_EmptySet
  <2>2. \A e \in Event : row[e].attempts = 0
    BY <1>0 DEF Init
  <2>3. \A e \in Event : Cardinality(Deliveries(e)) = 0 /\ Cardinality(Outstanding(e)) = 0
    BY <1>4, <2>1
  <2>4. QED
    BY <2>2, <2>3 DEF ClaimsPay
<1>7. QED
  BY <1>1, <1>2, <1>3, <1>5, <1>6 DEF IInv

\* A transaction that opens touches no row.
LEMMA BeginStep ==
  ASSUME IInv, TypeOK', NEW r \in Replica, NEW b \in Batch, BeginBatch(r, b)
  PROVE  IInv'
<1> USE DEF IInv
<1>1. OnlyCommittedWorked' /\ LoopsHoldClaims' /\ ClaimsUnique' /\ ClaimedHasNoOpenEarlier'
  BY DEF BeginBatch, OnlyCommittedWorked, LoopsHoldClaims, ClaimsUnique, ClaimedHasNoOpenEarlier
<1>2. OpenIsUncommitted'
  BY DEF BeginBatch, OpenIsUncommitted, EventsOf, TypeOK
<1>3. RecordsWereClaimed' /\ AckedIsDelivered' /\ CompletedWasPublished' /\ AccountOrder'
  BY SameLog DEF BeginBatch, RecordsWereClaimed, AckedIsDelivered, CompletedWasPublished, AccountOrder,
     LoopsHoldClaims
<1>4. ClaimsPay'
  BY FewerOutstanding DEF BeginBatch, Outstanding
<1>5. QED
  BY <1>1, <1>2, <1>3, <1>4

\* A row is inserted by an open transaction, unclaimed.
LEMMA InsertStep ==
  ASSUME IInv, TypeOK', NEW r \in Replica, NEW e \in Event, Insert(r, e)
  PROVE  IInv'
<1> USE DEF IInv
<1>0. RowsKept
  BY InsertRows
<1>1. stage[e] = "future" /\ \A f \in Event : stage'[f] = "committed" <=> stage[f] = "committed"
  BY DEF Insert, TypeOK
<1>2. OnlyCommittedWorked'
  BY <1>0, <1>1 DEF OnlyCommittedWorked, RowsKept
<1>3. LoopsHoldClaims' /\ ClaimsUnique'
  BY <1>0 DEF Insert, LoopsHoldClaims, ClaimsUnique, RowsKept
<1>4. OpenIsUncommitted'
  BY <1>1 DEF Insert, OpenIsUncommitted, EventsOf
<1>5. RecordsWereClaimed'
  BY <1>0, SameLog DEF Insert, RecordsWereClaimed, RowsKept
<1>6. AckedIsDelivered'
  BY SameLog DEF Insert, AckedIsDelivered, LoopsHoldClaims
<1>7. CompletedWasPublished'
  BY <1>0, <1>1, SameLog DEF Insert, CompletedWasPublished, RowsKept
<1>8. ClaimedHasNoOpenEarlier'
  BY <1>0, <1>1 DEF Insert, ClaimedHasNoOpenEarlier, RowsKept
<1>9. AccountOrder'
  BY <1>1, SameLog DEF Insert, AccountOrder
<1>10. ClaimsPay'
  BY <1>0, FewerOutstanding DEF Insert, Outstanding, RowsKept
<1>11. QED
  BY <1>2, <1>3, <1>4, <1>5, <1>6, <1>7, <1>8, <1>9, <1>10

\* A commit that comes after the claim of a later event is recorded as late.
LEMMA CommitStep ==
  ASSUME IInv, TypeOK', NEW r \in Replica, CommitBatch(r)
  PROVE  IInv'
<1> USE DEF IInv
<1>1. \A e \in Event : stage[e] = "committed" => stage'[e] = "committed"
  BY DEF CommitBatch, TypeOK
<1>2. OnlyCommittedWorked'
  BY <1>1 DEF CommitBatch, OnlyCommittedWorked
<1>3. LoopsHoldClaims' /\ ClaimsUnique'
  BY DEF CommitBatch, LoopsHoldClaims, ClaimsUnique
<1>4. OpenIsUncommitted'
  BY DEF CommitBatch, OpenIsUncommitted, EventsOf, TypeOK
<1>5. RecordsWereClaimed'
  BY SameLog DEF CommitBatch, RecordsWereClaimed
<1>6. AckedIsDelivered'
  BY SameLog DEF CommitBatch, AckedIsDelivered, LoopsHoldClaims
<1>7. CompletedWasPublished'
  BY <1>1, SameLog DEF CommitBatch, CompletedWasPublished
<1>8. ASSUME NEW e \in Event, NEW f \in Event, Earlier(e, f), stage'[e] = "committed",
             <<e, f>> \notin late'
      PROVE  /\ <<e, f>> \notin late
             /\ stage[e] = "committed" \/ row[f].attempts = 0
  <2>1. row[f].attempts \in Nat
    BY DEF TypeOK, WorkRow
  <2>2. QED
    BY <1>8, <2>1 DEF CommitBatch, TypeOK
<1>9. ClaimedHasNoOpenEarlier'
  BY <1>8 DEF CommitBatch, ClaimedHasNoOpenEarlier, Earlier
<1>10. AccountOrder'
  <2> SUFFICES ASSUME NEW e \in Event, NEW f \in Event, Earlier(e, f), stage'[e] = "committed",
                      <<e, f>> \notin late'
               PROVE  InOrder(e, f)'
    BY DEF AccountOrder, Earlier
  <2>1. CASE stage[e] = "committed"
    BY <1>8, <2>1, SameLog DEF AccountOrder, CommitBatch
  <2>2. CASE row[f].attempts = 0
    <3>1. ~Delivered(f)
      <4>1. Delivered(f) => row[f].attempts > 0
        BY DEF RecordsWereClaimed
      <4>2. QED
        BY <2>2, <4>1
    <3>2. InOrder(e, f)
      BY <3>1 DEF Delivered, InOrder
    <3>3. QED
      BY <3>2, SameLog DEF CommitBatch
  <2>3. QED
    BY <1>8, <2>1, <2>2
<1>11. ClaimsPay'
  BY FewerOutstanding DEF CommitBatch, Outstanding
<1>12. QED
  BY <1>2, <1>3, <1>4, <1>5, <1>6, <1>7, <1>9, <1>10, <1>11

\* A rollback drops rows nobody could have claimed.
LEMMA RollbackStep ==
  ASSUME IInv, TypeOK', NEW r \in Replica, RollbackBatch(r)
  PROVE  IInv'
<1> USE DEF IInv
<1>1. \A e \in Event : stage[e] = "committed" <=> stage'[e] = "committed"
  BY DEF RollbackBatch, OpenIsUncommitted, EventsOf, TypeOK
<1>2. OnlyCommittedWorked'
  BY <1>1 DEF RollbackBatch, OnlyCommittedWorked
<1>3. LoopsHoldClaims' /\ ClaimsUnique'
  BY DEF RollbackBatch, LoopsHoldClaims, ClaimsUnique
<1>4. OpenIsUncommitted'
  BY <1>1 DEF RollbackBatch, OpenIsUncommitted, EventsOf, TypeOK
<1>5. RecordsWereClaimed'
  BY SameLog DEF RollbackBatch, RecordsWereClaimed
<1>6. AckedIsDelivered'
  BY SameLog DEF RollbackBatch, AckedIsDelivered, LoopsHoldClaims
<1>7. CompletedWasPublished'
  BY <1>1, SameLog DEF RollbackBatch, CompletedWasPublished
<1>8. ClaimedHasNoOpenEarlier'
  BY <1>1 DEF RollbackBatch, ClaimedHasNoOpenEarlier
<1>9. AccountOrder'
  BY <1>1, SameLog DEF RollbackBatch, AccountOrder
<1>10. ClaimsPay'
  BY FewerOutstanding DEF RollbackBatch, Outstanding
<1>11. QED
  BY <1>2, <1>3, <1>4, <1>5, <1>6, <1>7, <1>8, <1>9, <1>10

\* A claim gets a new token, and has found no open predecessor.
LEMMA ClaimStep ==
  ASSUME IInv, TypeOK', NEW p \in Replica, NEW e \in Event, Claim(p, e)
  PROVE  IInv'
<1> USE DEF IInv
<1> DEFINE k == row[e].attempts + 1
<1>0. /\ row[e].attempts \in Nat
      /\ k \in Token
      /\ row'[e].attempts = row[e].attempts + 1
      /\ row'[e].completed = row[e].completed
      /\ \A f \in Event : f # e => row'[f] = row[f]
      /\ stage[e] = "committed"
      /\ \A f \in Event : Earlier(f, e) /\ stage[f] = "committed" => row[f].completed
  BY ClaimRows, AttemptsNat
<1>1. \A f \in Event : row'[f].completed = row[f].completed
  BY <1>0
<1>2. \A f \in Event : /\ row[f].attempts \in Nat
                        /\ row'[f].attempts \in Nat
                        /\ row[f].attempts <= row'[f].attempts
  <2>1. \A f \in Event : row'[f].attempts = row[f].attempts \/ row'[f].attempts = row[f].attempts + 1
    BY <1>0
  <2>2. \A f \in Event : row[f].attempts \in Nat /\ row'[f].attempts \in Nat
    BY AttemptsNat
  <2>3. QED
    BY ONLY <2>1, <2>2
<1>3. OnlyCommittedWorked'
  BY <1>0, <1>1 DEF Claim, OnlyCommittedWorked
<1>4. OpenIsUncommitted'
  BY DEF Claim, OpenIsUncommitted, EventsOf
<1>5. /\ loop'[p] = [pc |-> "sending", event |-> e, token |-> k]
      /\ \A q \in Replica : q # p => loop'[q] = loop[q]
      /\ loop[p].pc = "idle"
  BY DEF Claim, TypeOK
<1>6. LoopsHoldClaims'
  <2> SUFFICES ASSUME NEW q \in Replica, loop'[q].pc # "idle"
               PROVE  /\ loop'[q].event \in Event /\ loop'[q].token \in Token
                      /\ loop'[q].token <= row'[loop'[q].event].attempts
    BY DEF LoopsHoldClaims
  <2>1. CASE q = p
    BY <1>0, <1>5, <2>1
  <2>2. CASE q # p
    <3>1. /\ loop[q].event \in Event /\ loop[q].token \in Token
          /\ loop[q].token <= row[loop[q].event].attempts
      BY <1>5, <2>2 DEF LoopsHoldClaims
    <3>2. loop[q].token \in Nat
      BY <3>1 DEF Token
    <3>3. loop[q].token <= row'[loop[q].event].attempts
      BY ONLY <1>2, <3>1, <3>2
    <3>4. QED
      BY <1>5, <2>2, <3>1, <3>3
  <2>3. QED
    BY <2>1, <2>2
<1>7. \A q \in Replica : loop[q].pc # "idle" /\ loop[q].event = e => loop[q].token # k
  BY <1>0 DEF LoopsHoldClaims, Token
<1>8. <<e, k>> \notin inflight
  <2>1. ~(k <= row[e].attempts)
    BY <1>0
  <2> HIDE DEF k
  <2>2. QED
    BY <1>0, <2>1 DEF RecordsWereClaimed
<1>9. ClaimsUnique'
  <2>1. inflight' = inflight
    BY DEF Claim
  <2> HIDE DEF k
  <2>2. QED
    BY <1>5, <1>7, <1>8, <2>1 DEF ClaimsUnique
<1>10. RecordsWereClaimed'
  <2>1. inflight' = inflight /\ log' = log
    BY DEF Claim
  <2>2. ASSUME NEW f \in Event, NEW j \in Token, <<f, j>> \in inflight'
        PROVE  j <= row'[f].attempts
    <3>1. j <= row[f].attempts /\ j \in Nat
      BY <2>1, <2>2 DEF RecordsWereClaimed, Token
    <3>2. QED
      BY ONLY <1>2, <3>1
  <2>3. ASSUME NEW f \in Event, Delivered(f)'
        PROVE  row'[f].attempts > 0
    <3>1. row[f].attempts > 0
      BY <2>1, <2>3, SameLog DEF RecordsWereClaimed
    <3>2. QED
      BY ONLY <1>2, <3>1
  <2>4. QED
    BY <2>2, <2>3 DEF RecordsWereClaimed
<1>11. AckedIsDelivered'
  <2> SUFFICES ASSUME NEW q \in Replica, loop'[q].pc = "acked" PROVE Delivered(loop[q].event)'
    BY DEF AckedIsDelivered
  <2>1. q # p
    BY <1>5
  <2>2. loop'[q] = loop[q] /\ loop[q].pc = "acked" /\ loop[q].event \in Event
    BY <1>5, <2>1 DEF LoopsHoldClaims
  <2>3. Delivered(loop[q].event)
    BY <2>2 DEF AckedIsDelivered
  <2>4. QED
    BY <2>2, <2>3 DEF Claim, Delivered
<1>12. CompletedWasPublished'
  BY <1>1, SameLog DEF Claim, CompletedWasPublished
<1>13. ClaimedHasNoOpenEarlier'
  BY <1>0, <1>1 DEF Claim, ClaimedHasNoOpenEarlier
<1>14. AccountOrder'
  BY SameLog DEF Claim, AccountOrder
<1>15. ClaimsPay'
  <2> SUFFICES ASSUME NEW f \in Event
               PROVE  (Cardinality(Deliveries(f)) + Cardinality(Outstanding(f)) <= row[f].attempts)'
    BY DEF ClaimsPay
  <2>1. /\ IsFiniteSet(Outstanding(f)) /\ Cardinality(Outstanding(f)) \in Nat
        /\ Cardinality(Deliveries(f)) \in Nat
    BY CountsFinite
  <2>2. Cardinality(Deliveries(f)) + Cardinality(Outstanding(f)) <= row[f].attempts
    BY DEF ClaimsPay
  <2>3. Deliveries(f)' = Deliveries(f)
    BY SameLog DEF Claim
  <2>4. inflight' = inflight
    BY DEF Claim
  <2>5. CASE f = e
    <3>1. Outstanding(f)' = Outstanding(f) \cup {k}
      BY <1>0, <1>5, <2>4, <2>5 DEF Outstanding
    <3>2. k \notin Outstanding(f)
      BY <1>7, <1>8, <2>5 DEF Outstanding
    <3>3. Cardinality(Outstanding(f)') = Cardinality(Outstanding(f)) + 1
      BY <2>1, <3>1, <3>2, FS_AddElement
    <3>4. row'[f].attempts = row[f].attempts + 1 /\ row[f].attempts \in Nat
      BY <1>0, <2>5
    <3>5. QED
      BY <2>1, <2>2, <2>3, <3>3, <3>4
  <2>6. CASE f # e
    <3>1. Outstanding(f)' = Outstanding(f)
      BY <1>5, <2>4, <2>6 DEF Outstanding
    <3>2. row'[f] = row[f]
      BY <1>0, <2>6
    <3>3. QED
      BY <2>2, <2>3, <3>1, <3>2
  <2>7. QED
    BY <2>5, <2>6
<1>16. QED
  BY <1>3, <1>4, <1>6, <1>9, <1>10, <1>11, <1>12, <1>13, <1>14, <1>15

\* What every step of a publish loop but Claim leaves as it is.
LEMMA LoopStep ==
  ASSUME IInv, TypeOK',
         \A e \in Event : /\ row'[e].attempts = row[e].attempts
                          /\ row[e].completed => row'[e].completed,
         \A e \in Event : row'[e].completed => Delivered(e),
         \A e \in Event : Delivered(e) => Delivered(e)',
         \A q \in Replica : loop'[q].pc # "idle" =>
           /\ loop[q].pc # "idle"
           /\ loop'[q].event = loop[q].event /\ loop'[q].token = loop[q].token,
         \A q \in Replica : loop'[q].pc = "acked" =>
           loop[q].pc = "acked" \/ Delivered(loop[q].event)',
         <<stage, writing, late>>' = <<stage, writing, late>>
  PROVE  /\ OnlyCommittedWorked'
         /\ OpenIsUncommitted'
         /\ LoopsHoldClaims'
         /\ AckedIsDelivered'
         /\ \A e \in Event : row'[e].completed => Delivered(e)'
         /\ ClaimedHasNoOpenEarlier'
<1> USE DEF IInv
<1>1. \A e \in Event : Delivered(e) => stage[e] = "committed"
  BY DEF CompletedWasPublished
<1>2. OnlyCommittedWorked'
  BY <1>1 DEF OnlyCommittedWorked
<1>3. OpenIsUncommitted'
  BY DEF OpenIsUncommitted, EventsOf
<1>4. LoopsHoldClaims'
  BY DEF LoopsHoldClaims
<1>5. AckedIsDelivered'
  <2> SUFFICES ASSUME NEW q \in Replica, loop'[q].pc = "acked" PROVE Delivered(loop[q].event)'
    BY DEF AckedIsDelivered
  <2>1. CASE Delivered(loop[q].event)'
    BY <2>1
  <2>2. CASE loop[q].pc = "acked"
    <3>1. loop'[q].event = loop[q].event /\ loop[q].event \in Event
      BY <2>2 DEF LoopsHoldClaims
    <3>2. PICK x \in Event : x = loop[q].event
      BY <3>1
    <3>3. Delivered(x)
      BY <2>2, <3>1, <3>2 DEF AckedIsDelivered
    <3>4. Delivered(x)'
      BY <3>3
    <3>5. QED
      BY <3>1, <3>2, <3>4 DEF Delivered
  <2>3. QED
    BY <2>1, <2>2
<1>6. ClaimedHasNoOpenEarlier'
  BY DEF ClaimedHasNoOpenEarlier
<1>7. QED
  BY <1>2, <1>3, <1>4, <1>5, <1>6

\* The parts that read the log, when it does not change.
LEMMA NothingStored ==
  ASSUME IInv, log' = log,
         \A e \in Event : row'[e].attempts = row[e].attempts,
         \A e \in Event, k \in Token : <<e, k>> \in inflight' =>
           \/ <<e, k>> \in inflight
           \/ \E q \in Replica : loop[q].pc # "idle" /\ loop[q].event = e /\ loop[q].token = k,
         \A e \in Event : row'[e].completed => Delivered(e)',
         <<stage, late>>' = <<stage, late>>
  PROVE  RecordsWereClaimed' /\ CompletedWasPublished' /\ AccountOrder'
<1> USE DEF IInv
<1>1. \A e \in Event : Delivered(e)' <=> Delivered(e)
  BY SameLog
<1>2. RecordsWereClaimed'
  BY <1>1 DEF RecordsWereClaimed, LoopsHoldClaims
<1>3. CompletedWasPublished'
  <2>1. \A e \in Event : Delivered(e) => stage[e] = "committed"
    BY DEF CompletedWasPublished
  <2>2. \A e \in Event : Delivered(e)' => stage'[e] = "committed"
    BY <1>1, <2>1
  <2>3. QED
    BY <2>2 DEF CompletedWasPublished
<1>4. AccountOrder'
  BY SameLog DEF AccountOrder
<1>5. QED
  BY <1>2, <1>3, <1>4

\* Starting, failing and abandoning a send, giving a row back, losing a record, waiting.
LEMMA QuietStep ==
  ASSUME IInv, TypeOK',
         \/ \E p \in Replica : StartProducer(p) \/ PublishFails(p) \/ Abandon(p) \/ Retry(p)
         \/ \E e \in Event, k \in Token : LoseLate(e, k)
         \/ Tick
  PROVE  IInv'
<1> USE DEF IInv
<1>1. /\ log' = log /\ inflight' \subseteq inflight
      /\ <<stage, writing, late>>' = <<stage, writing, late>>
  BY DEF StartProducer, PublishFails, Abandon, Retry, LoseLate, Tick
<1>2. \A e \in Event : row'[e].attempts = row[e].attempts /\ row'[e].completed = row[e].completed
  <2>1. CASE \E p \in Replica : Retry(p)
    BY <2>1, QuietRows DEF RowsKept
  <2>2. CASE Tick
    BY <2>2, TickRows DEF RowsKept
  <2>3. QED
    BY <2>1, <2>2 DEF StartProducer, PublishFails, Abandon, LoseLate
<1>3. \A q \in Replica :
        \/ loop'[q] = loop[q]
        \/ loop'[q].pc = "idle"
        \/ /\ loop[q].pc # "idle" /\ loop'[q].pc = "failed"
           /\ loop'[q].event = loop[q].event /\ loop'[q].token = loop[q].token
  <2>1. CASE \E p \in Replica : PublishFails(p)
    BY <2>1 DEF PublishFails, At, TypeOK
  <2>2. CASE \E p \in Replica : Abandon(p)
    BY <2>2 DEF Abandon, Idle, TypeOK
  <2>3. CASE \E p \in Replica : Retry(p)
    BY <2>3 DEF Retry, Idle, TypeOK
  <2>4. QED
    BY <2>1, <2>2, <2>3 DEF StartProducer, LoseLate, Tick
<1>4. \A e \in Event : row'[e].completed => Delivered(e)
  BY <1>2 DEF CompletedWasPublished
<1>5. \A e \in Event : Delivered(e)' <=> Delivered(e)
  BY <1>1, SameLog
<1>6. /\ OnlyCommittedWorked' /\ OpenIsUncommitted' /\ LoopsHoldClaims' /\ AckedIsDelivered'
      /\ ClaimedHasNoOpenEarlier'
      /\ \A e \in Event : row'[e].completed => Delivered(e)'
  BY <1>1, <1>2, <1>3, <1>4, <1>5, LoopStep
<1>7. RecordsWereClaimed' /\ CompletedWasPublished' /\ AccountOrder'
  BY <1>1, <1>2, <1>6, NothingStored
<1>8. ClaimsUnique'
  BY <1>1, <1>3 DEF ClaimsUnique
<1>9. ClaimsPay'
  <2>1. \A e \in Event : Outstanding(e)' \subseteq Outstanding(e)
    BY <1>1, <1>3 DEF Outstanding
  <2>2. QED
    BY <1>1, <1>2, <2>1, FewerOutstanding
<1>10. QED
  BY <1>6, <1>7, <1>8, <1>9

\* A send whose answer is lost leaves its record in flight under its claim.
LEMMA UnacknowledgedStep ==
  ASSUME IInv, TypeOK', NEW p \in Replica, SendUnacknowledged(p)
  PROVE  IInv'
<1> USE DEF IInv
<1>1. /\ log' = log /\ row' = row
      /\ inflight' = inflight \cup {<<loop[p].event, loop[p].token>>}
      /\ <<stage, writing, late>>' = <<stage, writing, late>>
  BY DEF SendUnacknowledged
<1>2. /\ \A q \in Replica : q # p => loop'[q] = loop[q]
      /\ loop[p].pc = "sending" /\ loop'[p].pc = "failed"
      /\ loop'[p].event = loop[p].event /\ loop'[p].token = loop[p].token
      /\ loop[p].event \in Event /\ loop[p].token \in Token
  BY DEF SendUnacknowledged, At, TypeOK, LoopsHoldClaims
<1>3. \A e \in Event : row'[e].completed => Delivered(e)
  BY <1>1 DEF CompletedWasPublished
<1>4. \A e \in Event : Delivered(e)' <=> Delivered(e)
  BY <1>1, SameLog
<1>5. /\ OnlyCommittedWorked' /\ OpenIsUncommitted' /\ LoopsHoldClaims' /\ AckedIsDelivered'
      /\ ClaimedHasNoOpenEarlier'
      /\ \A e \in Event : row'[e].completed => Delivered(e)'
  BY <1>1, <1>2, <1>3, <1>4, LoopStep
<1>6. RecordsWereClaimed' /\ CompletedWasPublished' /\ AccountOrder'
  BY <1>1, <1>2, <1>5, NothingStored
<1>7. ClaimsUnique'
  BY <1>1, <1>2 DEF ClaimsUnique
<1>8. ClaimsPay'
  <2>1. \A e \in Event : Outstanding(e)' \subseteq Outstanding(e)
    BY <1>1, <1>2 DEF Outstanding
  <2>2. QED
    BY <1>1, <2>1, FewerOutstanding
<1>9. QED
  BY <1>5, <1>6, <1>7, <1>8

\* Completion is of an event the broker acknowledged.
LEMMA CompleteStep ==
  ASSUME IInv, TypeOK', NEW p \in Replica, NEW a \in BOOLEAN, Complete(p, a)
  PROVE  IInv'
<1> USE DEF IInv
<1>1. /\ log' = log /\ inflight' = inflight
      /\ <<stage, writing, late>>' = <<stage, writing, late>>
  BY DEF Complete
<1>2. /\ \A e \in Event : /\ row'[e].attempts = row[e].attempts
                          /\ row[e].completed => row'[e].completed
      /\ loop[p].event \in Event
      /\ \A e \in Event : e # loop[p].event => row'[e].completed = row[e].completed
  BY CompleteRows
<1>3. /\ \A q \in Replica : q # p => loop'[q] = loop[q]
      /\ loop[p].pc = "acked"
      /\ \/ loop'[p].pc = "idle"
         \/ /\ loop'[p].pc = "failed"
            /\ loop'[p].event = loop[p].event /\ loop'[p].token = loop[p].token
  BY DEF Complete, At, Idle, TypeOK
<1>4. \A e \in Event : row'[e].completed => Delivered(e)
  BY <1>2, <1>3 DEF CompletedWasPublished, AckedIsDelivered
<1>5. \A e \in Event : Delivered(e)' <=> Delivered(e)
  BY <1>1, SameLog
<1>6. /\ OnlyCommittedWorked' /\ OpenIsUncommitted' /\ LoopsHoldClaims' /\ AckedIsDelivered'
      /\ ClaimedHasNoOpenEarlier'
      /\ \A e \in Event : row'[e].completed => Delivered(e)'
  BY <1>1, <1>2, <1>3, <1>4, <1>5, LoopStep
<1>7. RecordsWereClaimed' /\ CompletedWasPublished' /\ AccountOrder'
  BY <1>1, <1>2, <1>6, NothingStored
<1>8. ClaimsUnique'
  BY <1>1, <1>3 DEF ClaimsUnique
<1>9. ClaimsPay'
  <2>1. \A e \in Event : Outstanding(e)' \subseteq Outstanding(e)
    BY <1>1, <1>3 DEF Outstanding
  <2>2. QED
    BY <1>1, <1>2, <2>1, FewerOutstanding
<1>10. QED
  BY <1>6, <1>7, <1>8, <1>9

\* Kafka stores a record: of a send it acknowledges, or of one its loop has given up on.
LEMMA StoreStep ==
  ASSUME IInv, TypeOK', NEW e \in Event, NEW k \in Token, Store(e),
         \/ \E p \in Replica : Send(p) /\ loop[p].event = e /\ loop[p].token = k
         \/ StoreLate(e, k)
  PROVE  IInv'
<1> USE DEF IInv
<1>1. /\ row' = row /\ inflight' \subseteq inflight
      /\ <<stage, writing, late>>' = <<stage, writing, late>>
  BY DEF Send, StoreLate
<1>2. \A f \in Event : Delivered(f)' <=> Delivered(f) \/ f = e
  BY StoreFacts
<1>3. \A q \in Replica :
        \/ loop'[q] = loop[q]
        \/ /\ loop[q].pc = "sending" /\ loop'[q].pc = "acked"
           /\ loop[q].event = e /\ loop[q].token = k
           /\ loop'[q].event = e /\ loop'[q].token = k
  BY DEF Send, StoreLate, At, TypeOK
<1>4. \A q \in Replica : loop'[q].pc = "acked" => loop[q].pc = "acked" \/ Delivered(loop[q].event)'
  <2> SUFFICES ASSUME NEW q \in Replica, loop'[q].pc = "acked", loop[q].pc # "acked"
               PROVE  Delivered(loop[q].event)'
    OBVIOUS
  <2>1. loop'[q].event = e
    BY <1>3
  <2>2. Delivered(e)'
    BY <1>2
  <2>3. QED
    BY <2>1, <2>2 DEF Delivered
<1>5. k <= row[e].attempts /\ row[e].attempts \in Nat /\ row[e].attempts > 0
  <2>1. k <= row[e].attempts
    BY DEF Send, StoreLate, LoopsHoldClaims, RecordsWereClaimed
  <2>2. k \in Nat /\ k > 0
    BY DEF Token
  <2>3. row[e].attempts \in Nat
    BY AttemptsNat
  <2>4. QED
    BY ONLY <2>1, <2>2, <2>3
<1>6. stage[e] = "committed"
  <2>1. stage[e] # "committed" => row[e].attempts = 0
    BY DEF OnlyCommittedWorked
  <2>2. QED
    BY <1>5, <2>1
<1>7. /\ OnlyCommittedWorked' /\ OpenIsUncommitted' /\ LoopsHoldClaims' /\ AckedIsDelivered'
      /\ ClaimedHasNoOpenEarlier'
      /\ \A f \in Event : row'[f].completed => Delivered(f)'
  <2>1. \A f \in Event : row'[f].completed => Delivered(f)
    BY <1>1 DEF CompletedWasPublished
  <2>2. \A q \in Replica : loop'[q].pc # "idle" =>
           /\ loop[q].pc # "idle"
           /\ loop'[q].event = loop[q].event /\ loop'[q].token = loop[q].token
    BY <1>3
  <2>3. QED
    BY <1>1, <1>2, <1>4, <2>1, <2>2, LoopStep
<1>8. CompletedWasPublished'
  BY <1>1, <1>2, <1>6, <1>7 DEF CompletedWasPublished
<1>9. RecordsWereClaimed'
  BY <1>1, <1>2, <1>5 DEF RecordsWereClaimed
<1>10. ClaimsUnique'
  BY <1>1, <1>3 DEF ClaimsUnique
<1>11. AccountOrder'
  <2> SUFFICES ASSUME NEW c \in Event, NEW f \in Event, Earlier(c, f), stage[c] = "committed",
                      <<c, f>> \notin late
               PROVE  InOrder(c, f)'
    BY <1>1 DEF AccountOrder, Earlier
  <2>1. InOrder(c, f)
    BY DEF AccountOrder
  <2>2. f = e => Delivered(c)
    BY <1>5 DEF ClaimedHasNoOpenEarlier, CompletedWasPublished
  <2>3. QED
    BY <2>1, <2>2, StoreKeepsOrder
<1>12. ClaimsPay'
  <2>1. k \in Outstanding(e) /\ Outstanding(e)' = Outstanding(e) \ {k}
    <3>1. CASE StoreLate(e, k)
      <4>1. loop' = loop /\ inflight' = inflight \ {<<e, k>>} /\ <<e, k>> \in inflight
        BY <3>1 DEF StoreLate
      <4>2. \A q \in Replica : ~(loop[q].pc = "sending" /\ loop[q].event = e /\ loop[q].token = k)
        BY <4>1 DEF ClaimsUnique
      <4>3. QED
        BY <4>1, <4>2 DEF Outstanding
    <3>2. ASSUME NEW p \in Replica, Send(p), loop[p].event = e, loop[p].token = k
          PROVE  k \in Outstanding(e) /\ Outstanding(e)' = Outstanding(e) \ {k}
      <4>1. /\ inflight' = inflight /\ loop[p].pc = "sending" /\ loop'[p].pc = "acked"
            /\ \A q \in Replica : q # p => loop'[q] = loop[q]
        BY <3>2 DEF Send, At, TypeOK
      <4>2. /\ <<e, k>> \notin inflight
            /\ \A q \in Replica : loop[q].pc = "sending" /\ loop[q].event = e /\ loop[q].token = k
                                    => q = p
        BY <3>2, <4>1 DEF ClaimsUnique
      <4>3. QED
        BY <3>2, <4>1, <4>2 DEF Outstanding
    <3>3. QED
      BY <3>1, <3>2
  <2>2. \A f \in Event : f # e => Outstanding(f)' = Outstanding(f)
    <3>1. \A f \in Event, j \in Token : f # e => (<<f, j>> \in inflight' <=> <<f, j>> \in inflight)
      BY DEF Send, StoreLate
    <3>2. QED
      BY <1>3, <3>1 DEF Outstanding
  <2>3. QED
    BY <1>1, <2>1, <2>2, StoreIsPaid
<1>13. QED
  BY <1>7, <1>8, <1>9, <1>10, <1>11, <1>12

\* Every step preserves the invariant.
LEMMA Inductive == IInv /\ [Next]_vars => IInv'
<1> SUFFICES ASSUME IInv, [Next]_vars PROVE IInv'
  OBVIOUS
<1>0. TypeOK'
  BY TypeStep
<1>1. ASSUME NEW r \in Replica, EnrichmentStep(r) PROVE IInv'
  BY <1>0, <1>1, BeginStep, InsertStep, CommitStep, RollbackStep DEF EnrichmentStep
<1>2. ASSUME NEW p \in Replica, Send(p) PROVE IInv'
  <2>1. loop[p].event \in Event /\ loop[p].token \in Token /\ Store(loop[p].event)
    BY <1>2 DEF Send, IInv, LoopsHoldClaims
  <2>2. QED
    BY <1>0, <1>2, <2>1, StoreStep
<1>3. ASSUME NEW p \in Replica, PublishStep(p) PROVE IInv'
  BY <1>0, <1>2, <1>3, ClaimStep, CompleteStep, QuietStep DEF PublishStep
<1>4. ASSUME NEW p \in Replica, SendUnacknowledged(p) \/ PublishFails(p) \/ Abandon(p) PROVE IInv'
  BY <1>0, <1>4, UnacknowledgedStep, QuietStep
<1>5. ASSUME NEW e \in Event, NEW k \in Token, StoreLate(e, k) \/ LoseLate(e, k) PROVE IInv'
  <2>1. CASE StoreLate(e, k)
    <3>1. Store(e)
      BY <2>1 DEF StoreLate
    <3>2. QED
      BY <1>0, <2>1, <3>1, StoreStep
  <2>2. CASE LoseLate(e, k)
    BY <1>0, <2>2, QuietStep
  <2>3. QED
    BY <1>5, <2>1, <2>2
<1>6. CASE Tick
  BY <1>0, <1>6, QuietStep
<1>7. CASE UNCHANGED vars
  <2> USE DEF vars
  <2>1. OnlyCommittedWorked' /\ OpenIsUncommitted' /\ LoopsHoldClaims' /\ ClaimsUnique'
    BY <1>7 DEF IInv, OnlyCommittedWorked, OpenIsUncommitted, LoopsHoldClaims, ClaimsUnique
  <2>2. RecordsWereClaimed' /\ AckedIsDelivered' /\ CompletedWasPublished'
    BY <1>7 DEF IInv, RecordsWereClaimed, AckedIsDelivered, CompletedWasPublished, Delivered
  <2>3. ClaimedHasNoOpenEarlier' /\ AccountOrder'
    BY <1>7, SameLog DEF IInv, ClaimedHasNoOpenEarlier, AccountOrder
  <2>4. ClaimsPay'
    BY <1>7, FewerOutstanding DEF Outstanding
  <2>5. QED
    BY <1>0, <2>1, <2>2, <2>3, <2>4 DEF IInv
<1>8. QED
  BY <1>1, <1>3, <1>4, <1>5, <1>6, <1>7 DEF Next

-----------------------------------------------------------------------------
\* The invariant holds throughout every behaviour of the outbox.
THEOREM Invariant == Spec => []IInv
BY InitIInv, Inductive, PTL DEF Spec

(***************************************************************************)
(* publish_once completes a row only after Kafka stored its record, and    *)
(* publishes only what a transaction committed, whatever crashes, expired  *)
(* leases and late answers come in between.                                *)
(***************************************************************************)
THEOREM CompletionFollowsPublication == Spec => []CompletedWasPublished
<1>1. IInv => CompletedWasPublished
  BY DEF IInv
<1>2. QED
  BY <1>1, Invariant, PTL

(***************************************************************************)
(* claim() skips a row with an open predecessor in its account, and that   *)
(* alone orders the first deliveries of an account's events.               *)
(***************************************************************************)
THEOREM AccountsInOrder == Spec => []AccountOrder
<1>1. IInv => AccountOrder
  BY DEF IInv
<1>2. QED
  BY <1>1, Invariant, PTL

\* A row's attempts bound the number of times its event is ever published.
THEOREM DeliveriesArePaidFor == Spec => []DeliveriesBounded
<1>1. IInv => DeliveriesBounded
  <2> SUFFICES ASSUME IInv, NEW e \in Event
               PROVE  Cardinality(Deliveries(e)) <= row[e].attempts
    BY DEF DeliveriesBounded
  <2>1. Cardinality(Deliveries(e)) \in Nat /\ Cardinality(Outstanding(e)) \in Nat
    BY CountsFinite DEF IInv
  <2>2. Cardinality(Deliveries(e)) + Cardinality(Outstanding(e)) <= row[e].attempts
    BY DEF IInv, ClaimsPay
  <2>3. row[e].attempts \in Nat
    BY AttemptsNat DEF IInv
  <2>4. QED
    BY <2>1, <2>2, <2>3
<1>2. QED
  BY <1>1, Invariant, PTL
=============================================================================
