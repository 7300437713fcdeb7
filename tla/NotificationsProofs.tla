------------------------ MODULE NotificationsProofs ------------------------
(***************************************************************************)
(* Proofs about Notifications, for any number of replicas, any log of      *)
(* records, any transactions and budgets, and any number of rebalances.    *)
(***************************************************************************)
EXTENDS Notifications, TLAPS

USE LogAssumption, BucketAssumption, LargeAssumption, GenerationAssumption, NoTxAssumption

\* The steps of one replica: the disjuncts of Next.
ReplicaStep(c) ==
  \/ Revoke(c) \/ Assign(c) \/ Restart(c)
  \/ Fetch(c) \/ LetGo(c) \/ Skip(c)
  \/ (\E over \in BOOLEAN : Evaluate(c, over))
  \/ StoreConflict(c) \/ HandlerReturns(c) \/ Commit(c)
  \/ Store(c) \/ (\E k \in Key : Send(c, k)) \/ Mark(c)
  \/ (\E acknowledged \in BOOLEAN : OffsetStored(c, acknowledged))
  \/ HandlerFails(c) \/ CommitFails(c)

\* Every step is a step of one replica.
LEMMA NextIsReplicaStep == Next => \E c \in Consumer : ReplicaStep(c)
BY DEF Next, Step, Progress, ReplicaStep

-----------------------------------------------------------------------------
(* The rules. *)

\* What is raised for certain is raised whatever the month's spending is.
LEMMA CertainIsRaised ==
  ASSUME NEW i \in 1..LogLength, NEW over \in BOOLEAN
  PROVE  Certain(i) \subseteq Alerts(i, over) /\ Alerts(i, over) \subseteq Alerts(i, TRUE)
BY DEF Certain, Alerts

\* An alert that is not about a budget is about the record's own transaction.
LEMMA AlertsNameTheirTransaction ==
  ASSUME NEW i \in 1..LogLength, NEW k \in Alerts(i, TRUE), k[1] # "budget"
  PROVE  k[2] = TxOf[i]
BY DEF Certain, Alerts

\* Nothing that is certain is a budget alert, and a record that cannot be used raises nothing.
LEMMA CertainKeys ==
  ASSUME NEW i \in 1..LogLength
  PROVE  /\ Certain(i) \subseteq Key
         /\ \A k \in Certain(i) : k[1] # "budget" /\ k[2] = TxOf[i]
         /\ Kind[i] = "unusable" => Certain(i) = {}
BY DEF Certain

-----------------------------------------------------------------------------
(* The inductive invariant. *)

\* The initial state satisfies the invariant.
LEMMA InitIInv == Init => IInv
<1> SUFFICES ASSUME Init PROVE IInv
  OBVIOUS
<1>1. TypeOK
  BY DEF Init, TypeOK
<1>2. OneOwner /\ RequestsAreOwners /\ OwnerReadsOn
  BY DEF Init, OneOwner, RequestsAreOwners, OwnerReadsOn, Owner, Acceptable, Holds
<1>3. OwnersMatch /\ HandlerKeepsAll /\ NoAlertLost /\ SentWasStored
  BY DEF Init, OwnersMatch, HandlerKeepsAll, NoAlertLost, SentWasStored, Stored
<1>4. QED
  BY <1>1, <1>2, <1>3 DEF IInv

\* Every step preserves the types.
LEMMA TypeStep ==
  ASSUME IInv, NEW c \in Consumer, ReplicaStep(c)
  PROVE  TypeOK'
<1> USE DEF IInv, TypeOK, group, table
<1>1. CASE Revoke(c)
  BY <1>1 DEF Revoke
<1>2. CASE Assign(c)
  <2>1. generation' \in Nat /\ \A d \in Consumer : (IF d \in joining THEN generation' ELSE memberOf[d]) \in Nat
    BY <1>2 DEF Assign
  <2>2. memberOf' \in [Consumer -> Nat]
    BY <1>2, <2>1 DEF Assign
  <2>3. assigned' \in [Consumer -> BOOLEAN] /\ current' \in [Consumer -> BOOLEAN]
    BY <1>2, Zenon DEF Assign
  <2>4. QED
    BY <1>2, <2>1, <2>2, <2>3 DEF Assign
<1>3. CASE Restart(c)
  BY <1>3 DEF Restart
<1>4. CASE Fetch(c)
  BY <1>4 DEF Fetch, Go
<1>5. CASE LetGo(c) \/ Skip(c) \/ StoreConflict(c) \/ HandlerReturns(c) \/ HandlerFails(c) \/ CommitFails(c)
  BY <1>5 DEF LetGo, Skip, StoreConflict, HandlerReturns, HandlerFails, CommitFails, Go
<1>6. ASSUME NEW over \in BOOLEAN, Evaluate(c, over) PROVE TypeOK'
  <2>1. {k \in Alerts(held[c], over) : ~Stored(k)} \subseteq Key
    BY DEF Alerts, Certain
  <2>2. QED
    BY <1>6, <2>1 DEF Evaluate, Go
<1>7. CASE Commit(c)
  BY <1>7 DEF Commit, Go
<1>8. CASE Store(c)
  <2>1. TxOf[held[c]] \in Tx
    BY <1>8 DEF Store, HandlerKeepsAll
  <2>2. owner' \in [Key -> Tx \cup {NoTx}]
    BY <1>8, <2>1 DEF Store
  <2>3. Pending(owner', TxOf[held[c]]) \subseteq Key
    BY DEF Pending
  <2>4. QED
    BY <1>8, <2>2, <2>3 DEF Store, Go
<1>9. ASSUME NEW k \in Key, Send(c, k) PROVE TypeOK'
  BY <1>9 DEF Send, Go
<1>10. CASE Mark(c)
  BY <1>10 DEF Mark, Go, HandlerKeepsAll
<1>11. ASSUME NEW acknowledged \in BOOLEAN, OffsetStored(c, acknowledged) PROVE TypeOK'
  BY <1>11 DEF OffsetStored, Go
<1>12. QED
  BY <1>1, <1>2, <1>3, <1>4, <1>5, <1>6, <1>7, <1>8, <1>9, <1>10, <1>11 DEF ReplicaStep

-----------------------------------------------------------------------------
(* The group. *)

\* A rebalance leaves the new generation with one owner, whose record of the old one has gone stale.
LEMMA AssignGroup ==
  ASSUME IInv, NEW c \in Consumer, Assign(c)
  PROVE  OneOwner' /\ RequestsAreOwners' /\ OwnerReadsOn'
<1> USE DEF IInv, TypeOK
<1>1. /\ generation' = generation + 1
      /\ \A d \in Consumer : memberOf'[d] = IF d \in joining THEN generation + 1 ELSE memberOf[d]
      /\ \A d \in joining : assigned'[d] => d = c
      /\ \A d \in Consumer \ joining : assigned'[d] = assigned[d] /\ current'[d] = current[d]
      /\ \A d \in joining : ~current'[d]
      /\ joining' = {}
  BY DEF Assign
<1>2. \A d \in Consumer : memberOf[d] \in Nat /\ memberOf[d] <= generation
  BY DEF OneOwner
<1>3. \A d \in Consumer : Owner(d)' => d = c
  <2>1. \A d \in Consumer : d \notin joining => memberOf'[d] # generation'
    BY <1>1, <1>2
  <2>2. QED
    BY <1>1, <2>1 DEF Owner
<1>4. \A d \in Consumer : current'[d] => assigned'[d]
  BY <1>1 DEF OneOwner
<1>5. OneOwner'
  <2>1. ASSUME NEW d \in Consumer PROVE memberOf'[d] <= generation'
    <3>1. memberOf[d] <= generation + 1 /\ generation \in Nat
      BY <1>2
    <3>2. memberOf'[d] \in {generation + 1, memberOf[d]}
      BY <1>1
    <3>3. QED
      BY <1>1, <3>1, <3>2
  <2>2. QED
    BY <1>1, <1>3, <1>4, <2>1 DEF OneOwner
<1>6. \A d \in Consumer : pc[d] = "committing" => asked[d] <= generation
  BY <1>2 DEF RequestsAreOwners
<1>7. \A d \in Consumer : ~Acceptable(d)'
  BY <1>1, <1>6 DEF Assign, Acceptable
<1>8. RequestsAreOwners'
  BY <1>1, <1>2, <1>7 DEF RequestsAreOwners, Assign
<1>9. ~current'[c] /\ position'[c] = committed' /\ c \in joining
  BY <1>1 DEF Assign
<1>10. OwnerReadsOn'
  BY <1>3, <1>7, <1>9 DEF OwnerReadsOn, Holds
<1>11. QED
  BY <1>5, <1>8, <1>10

\* The other steps neither make an owner nor move anybody else in the log, save for the offset.
LEMMA GroupStep ==
  ASSUME IInv, NEW c \in Consumer, ReplicaStep(c)
  PROVE  OneOwner' /\ RequestsAreOwners' /\ OwnerReadsOn'
<1> DEFINE G == OneOwner /\ RequestsAreOwners /\ OwnerReadsOn
<1> USE DEF IInv, TypeOK, group, table, OneOwner, RequestsAreOwners, OwnerReadsOn, Owner, Acceptable, Holds
<1>1. CASE Revoke(c)
  BY <1>1 DEF Revoke
<1>2. CASE Assign(c)
  BY <1>2, AssignGroup
<1>3. CASE Restart(c)
  BY <1>3 DEF Restart
<1>4. CASE Fetch(c)
  BY <1>4 DEF Fetch, Go
<1>5. CASE LetGo(c) \/ Skip(c) \/ StoreConflict(c) \/ HandlerReturns(c) \/ HandlerFails(c) \/ CommitFails(c)
  BY <1>5 DEF LetGo, StillOwned, Skip, StoreConflict, HandlerReturns, HandlerFails, CommitFails, Go
<1>6. ASSUME NEW over \in BOOLEAN, Evaluate(c, over) PROVE G'
  BY <1>6 DEF Evaluate, Go
<1>7. CASE Commit(c)
  BY <1>7 DEF Commit, Go
<1>8. CASE Store(c) \/ (\E k \in Key : Send(c, k)) \/ Mark(c)
  BY <1>8 DEF Store, Send, Mark, Go
<1>9. ASSUME NEW acknowledged \in BOOLEAN, OffsetStored(c, acknowledged) PROVE G'
  BY <1>9 DEF OffsetStored, Go
<1>10. QED
  BY <1>1, <1>2, <1>3, <1>4, <1>5, <1>6, <1>7, <1>8, <1>9 DEF ReplicaStep

-----------------------------------------------------------------------------
(* The handler and the table of alerts. *)

\* Storing: what was looked up is inserted, and everything certain and not delivered is pending.
LEMMA StoreKeeps ==
  ASSUME IInv, NEW c \in Consumer, Store(c)
  PROVE  OwnersMatch' /\ HandlerKeepsAll' /\ SentWasStored'
<1> DEFINE i == held[c]
           t == TxOf[i]
<1> USE DEF IInv
<1>1. /\ i \in 1..LogLength
      /\ t \in Tx
      /\ t # NoTx
      /\ work[c] \subseteq Alerts(i, TRUE)
      /\ \A k \in Certain(i) : Stored(k) \/ k \in work[c]
      /\ work[c] \subseteq Key
  <2>1. pc[c] = "storing" /\ work[c] \subseteq Key
    BY DEF Store, TypeOK
  <2>2. /\ i \in 1..LogLength
        /\ work[c] \subseteq Alerts(i, TRUE)
        /\ \A k \in Certain(i) : Stored(k) \/ k \in work[c]
    BY <2>1 DEF HandlerKeepsAll
  <2>3. t \in Tx /\ t # NoTx
    BY <2>2
  <2>4. QED
    BY <2>1, <2>2, <2>3
<1>2. \A k \in Key : owner'[k] = IF k \in work[c] THEN t ELSE owner[k]
  BY DEF Store
<1>3. \A k \in Key : Stored(k) => Stored(k)' /\ owner'[k] = owner[k]
  BY <1>1, <1>2 DEF Store, Stored
<1>4. OwnersMatch'
  BY <1>1, <1>2, AlertsNameTheirTransaction DEF OwnersMatch, Stored
<1>5. \A k \in Certain(i) : k \in Key /\ owner'[k] = t
  BY <1>1, <1>2, CertainKeys DEF OwnersMatch, Stored
<1>6. work'[c] = {k \in Key : owner'[k] = t /\ k \notin delivered}
  BY DEF Store, Pending, TypeOK
<1>7. /\ \A k \in work'[c] : Stored(k)'
      /\ Certain(i) \subseteq delivered' \cup work'[c]
  BY <1>1, <1>5, <1>6 DEF Stored, Store, TypeOK
<1>8. /\ pc'[c] = "delivering"
      /\ \A d \in Consumer : d # c => pc'[d] = pc[d] /\ work'[d] = work[d]
      /\ UNCHANGED <<held, sending, sent, delivered>>
  BY DEF Store, Go, TypeOK
<1>9. ASSUME NEW d \in Consumer, d # c
      PROVE  /\ \A k \in Certain(held[d]) : Stored(k) => Stored(k)'
             /\ \A k \in work[d] : Stored(k) => Stored(k)'
  BY <1>3 DEF Certain, TypeOK
<1>10. HandlerKeepsAll'
  BY <1>1, <1>7, <1>8, <1>9 DEF HandlerKeepsAll
<1>11. SentWasStored'
  BY <1>3, <1>8 DEF SentWasStored, TypeOK
<1>12. QED
  BY <1>4, <1>10, <1>11

\* Every step of the handler keeps what it has to do, or has done it.
LEMMA HandlerStep ==
  ASSUME IInv, NEW c \in Consumer, ReplicaStep(c)
  PROVE  OwnersMatch' /\ HandlerKeepsAll' /\ SentWasStored'
<1> DEFINE H == OwnersMatch /\ HandlerKeepsAll /\ SentWasStored
<1> USE DEF IInv, TypeOK, group, table, OwnersMatch, HandlerKeepsAll, SentWasStored, Stored
<1>1. CASE Revoke(c) \/ Assign(c) \/ Restart(c)
  BY <1>1 DEF Revoke, Assign, Restart
<1>2. CASE Fetch(c)
  <2>1. /\ pc'[c] = "holding"
        /\ held'[c] \in 1..LogLength
        /\ \A d \in Consumer : d # c => pc'[d] = pc[d] /\ held'[d] = held[d]
        /\ UNCHANGED <<work, sending, owner, delivered, sent>>
    BY <1>2 DEF Fetch, Go
  <2>2. QED
    BY <2>1
<1>3. CASE LetGo(c) \/ StoreConflict(c) \/ HandlerFails(c) \/ CommitFails(c)
  BY <1>3 DEF LetGo, StoreConflict, HandlerFails, CommitFails, Go
<1>4. CASE Skip(c)
  BY <1>4, CertainKeys DEF Skip, Go
<1>5. CASE HandlerReturns(c)
  BY <1>5 DEF HandlerReturns, Go
<1>6. ASSUME NEW over \in BOOLEAN, Evaluate(c, over) PROVE H'
  <2>1. /\ held[c] \in 1..LogLength
        /\ work'[c] = {k \in Alerts(held[c], over) : owner[k] = NoTx}
        /\ pc'[c] = "storing"
        /\ \A d \in Consumer : d # c => pc'[d] = pc[d] /\ work'[d] = work[d]
        /\ UNCHANGED <<held, sending, table>>
    BY <1>6 DEF Evaluate, Go
  <2>2. /\ work'[c] \subseteq Alerts(held[c], TRUE)
        /\ \A k \in Certain(held[c]) : owner[k] # NoTx \/ k \in work'[c]
    BY <2>1, CertainIsRaised
  <2>3. QED
    BY <2>1, <2>2
<1>7. CASE Commit(c)
  BY <1>7 DEF Commit, Go
<1>8. CASE Store(c)
  BY <1>8, StoreKeeps
<1>9. ASSUME NEW k \in Key, Send(c, k) PROVE H'
  BY <1>9 DEF Send, Go
<1>10. CASE Mark(c)
  BY <1>10 DEF Mark, Go
<1>11. ASSUME NEW acknowledged \in BOOLEAN, OffsetStored(c, acknowledged) PROVE H'
  BY <1>11 DEF OffsetStored, Go
<1>12. QED
  BY <1>1, <1>2, <1>3, <1>4, <1>5, <1>6, <1>7, <1>8, <1>9, <1>10, <1>11 DEF ReplicaStep

-----------------------------------------------------------------------------
(* The committed offset. *)

\* An offset the coordinator accepts is that of the next record, or the same again.
LEMMA AcceptedOffset ==
  ASSUME IInv, NEW c \in Consumer, NEW acknowledged \in BOOLEAN, OffsetStored(c, acknowledged)
  PROVE  /\ committed' = held[c]
         /\ held[c] \in 1..LogLength
         /\ held[c] = committed \/ held[c] = committed + 1
         /\ Certain(held[c]) \subseteq delivered
<1>1. pc[c] = "committing" /\ Acceptable(c) /\ committed' = held[c]
  BY DEF OffsetStored, Acceptable
<1>2. Owner(c) /\ Holds(c)
  BY <1>1 DEF IInv, RequestsAreOwners, Holds
<1>3. committed \in {held[c] - 1, held[c]} /\ committed \in Nat /\ held[c] \in Nat
  BY <1>2 DEF IInv, OwnerReadsOn, TypeOK
<1>4. held[c] \in 1..LogLength /\ Certain(held[c]) \subseteq delivered
  BY <1>1 DEF IInv, HandlerKeepsAll
<1>5. QED
  BY <1>1, <1>3, <1>4

\* No other step moves the offset, and no step takes back a delivery.
LEMMA OffsetStep ==
  ASSUME IInv, NEW c \in Consumer, ReplicaStep(c)
  PROVE  /\ delivered \subseteq delivered'
         /\ \/ committed' = committed
            \/ \E acknowledged \in BOOLEAN : OffsetStored(c, acknowledged)
BY DEF ReplicaStep, Revoke, Assign, Restart, Fetch, LetGo, Skip, Evaluate, StoreConflict, HandlerReturns,
   Commit, Store, Send, Mark, HandlerFails, CommitFails, OffsetStored, group, table

\* The alerts of every record below the offset stay delivered.
LEMMA NoAlertLostStep ==
  ASSUME IInv, NEW c \in Consumer, ReplicaStep(c)
  PROVE  NoAlertLost'
<1>1. CASE committed' = committed
  BY <1>1, OffsetStep DEF IInv, NoAlertLost, Certain
<1>2. ASSUME NEW acknowledged \in BOOLEAN, OffsetStored(c, acknowledged) PROVE NoAlertLost'
  <2>1. ASSUME NEW i \in 1..committed' PROVE Certain(i) \subseteq delivered'
    <3>1. i \in 1..committed \/ i = held[c]
      <4>1. committed' = held[c] /\ (held[c] = committed \/ held[c] = committed + 1)
        BY <1>2, AcceptedOffset
      <4>2. committed \in Nat
        BY DEF IInv, TypeOK
      <4>3. QED
        BY <4>1, <4>2
    <3>2. Certain(i) \subseteq delivered
      <4>1. Certain(held[c]) \subseteq delivered
        BY <1>2, AcceptedOffset
      <4>2. QED
        BY <3>1, <4>1 DEF IInv, NoAlertLost
    <3>3. QED
      BY <3>2, OffsetStep
  <2>2. QED
    BY <2>1 DEF NoAlertLost, Certain
<1>3. QED
  BY <1>1, <1>2, OffsetStep

\* The invariant is inductive.
LEMMA NextIInv == IInv /\ [Next]_vars => IInv'
<1>1. ASSUME IInv, Next PROVE IInv'
  <2>1. PICK c \in Consumer : ReplicaStep(c)
    BY <1>1, NextIsReplicaStep
  <2>2. QED
    BY <1>1, <2>1, TypeStep, GroupStep, HandlerStep, NoAlertLostStep DEF IInv
<1>2. ASSUME IInv, UNCHANGED vars PROVE IInv'
  BY <1>2 DEF IInv, TypeOK, OneOwner, RequestsAreOwners, OwnerReadsOn, OwnersMatch, HandlerKeepsAll,
     NoAlertLost, SentWasStored, Owner, Acceptable, Holds, Stored, vars, group, table
<1>3. QED
  BY <1>1, <1>2

-----------------------------------------------------------------------------
(* Theorems. *)

\* Every reachable state satisfies the inductive invariant.
THEOREM Invariant == Spec => []IInv
BY InitIInv, NextIInv, PTL DEF Spec

(***************************************************************************)
(* Offsets are committed only after the handler succeeds (consumer.py):    *)
(* below the committed offset every alert that a record raises is stored   *)
(* and delivered, however many replicas worked on it and wherever they     *)
(* failed.                                                                 *)
(***************************************************************************)
THEOREM AlertsAreDelivered == Spec => []NoAlertLost
<1>1. IInv => NoAlertLost
  BY DEF IInv
<1>2. QED
  BY <1>1, Invariant, PTL

(***************************************************************************)
(* Delivery after the commit (handlers.py): the channel is given no alert  *)
(* that is not stored, and none is marked that the channel was not given.  *)
(***************************************************************************)
THEOREM NothingUnstoredIsSent == Spec => []SentWasStored
<1>1. IInv => SentWasStored
  BY DEF IInv
<1>2. QED
  BY <1>1, Invariant, PTL

(***************************************************************************)
(* At any time one replica at most owns the partition in the current       *)
(* generation, and it reads on from the committed offset (the assignment   *)
(* epochs of consumer.py).                                                 *)
(***************************************************************************)
THEOREM OwnerIsInPlace == Spec => [](OneOwner /\ OwnerReadsOn)
<1>1. IInv => OneOwner /\ OwnerReadsOn
  BY DEF IInv
<1>2. QED
  BY <1>1, Invariant, PTL

(***************************************************************************)
(* Stale epochs cannot commit (_commit of consumer.py): the group's offset *)
(* never moves back, whatever rebalances happen while records are handled. *)
(***************************************************************************)
THEOREM OffsetsOnlyGrow == Spec => OffsetNeverRewinds
<1>1. IInv /\ Next => committed' >= committed
  <2> SUFFICES ASSUME IInv, Next PROVE committed' >= committed
    OBVIOUS
  <2>1. PICK c \in Consumer : ReplicaStep(c)
    BY NextIsReplicaStep
  <2>2. committed \in Nat
    BY DEF IInv, TypeOK
  <2>3. QED
    BY <2>1, <2>2, OffsetStep, AcceptedOffset
<1>2. IInv /\ [Next]_vars => [committed' >= committed]_vars
  BY <1>1
<1>3. QED
  BY <1>2, Invariant, PTL DEF Spec, OffsetNeverRewinds
=============================================================================
