-------------------------- MODULE ClassifierProofs --------------------------
(***************************************************************************)
(* Proofs about Classifier, for any number of processes and merchants, any *)
(* taxonomy, threshold, number of attempts and any of its times.           *)
(***************************************************************************)
EXTENDS Classifier, WellFoundedInduction, TLAPS

USE SlugsAssumption, ThresholdAssumption, AttemptsAssumption,
    TimesAssumption, NoneAssumption

\* Capping a number at a bound.
LEMMA LeastFacts ==
  ASSUME NEW a \in Nat, NEW b \in Nat
  PROVE  /\ Least(a, b) \in 0..b
         /\ a < b => Least(a, b) = a
         /\ a >= b => Least(a, b) = b
BY DEF Least

\* A non-empty set of natural numbers has a first member.
LEMMA FirstIsMember ==
  ASSUME NEW indices \in SUBSET Nat, indices # {}
  PROVE  First(indices) \in indices /\ \A j \in indices : First(indices) <= j
<1> DEFINE less == OpToRel(<, Nat)
<1>1. IsWellFoundedOn(less, Nat)
  BY NatLessThanWellFounded
<1>2. \A i, j \in Nat : j < i => <<j, i>> \in less
  BY DEF OpToRel
<1> HIDE DEF less
<1>3. PICK i \in indices : \A j \in indices : ~(<<j, i>> \in less)
  BY <1>1, WFMin
<1>4. \A j \in indices : ~(j < i)
  BY <1>2, <1>3, Zenon
<1> SUFFICES \E k \in indices : \A j \in indices : k <= j
  BY DEF First
<1>5. QED
  BY <1>4

\* categorizer.classify names a canonical category, whichever rule of the list comes first.
LEMMA ClassifyCanonical ==
  ASSUME NEW words, NEW credit \in BOOLEAN
  PROVE  classify(words, credit) \in Slugs
<1>1. Matching(words) \subseteq DOMAIN Rules
  BY DEF Matching
<1>2. ASSUME Matching(words) # {} PROVE First(Matching(words)) \in DOMAIN Rules
  BY <1>1, <1>2, FirstIsMember, RulesAssumption
<1>3. QED
  BY <1>2, RulesAssumption DEF classify

\* The initial state satisfies the invariant.
LEMMA InitIInv == Init => IInv
<1>1. Init => TypeOK
  BY DEF Init, TypeOK, CallTypeOK, BreakerTypeOK, CacheTypeOK, Classified, None, NoAnswer
<1>2. Init => ClosedBelowThreshold /\ QuietWhileOpen /\ ServedIsCanonical /\ HeldIsCanonical
  BY DEF Init, ClosedBelowThreshold, QuietWhileOpen, ServedIsCanonical, HeldIsCanonical
<1>3. QED
  BY <1>1, <1>2 DEF IInv

-----------------------------------------------------------------------------
(* Every step preserves the types. *)

\* A call that ends with some category leaves its variables well typed.
LEMMA AnswerType ==
  ASSUME TypeOK, NEW r \in Replica, NEW category \in Reply \cup {"none"},
         NEW source \in {"llm", "rules"}, Answer(r, category, source)
  PROVE  CallTypeOK'
<1>1. [category |-> category, source |-> source] \in Classified
  BY DEF Classified
<1>2. answer' \in [Replica -> Classified]
  BY <1>1 DEF TypeOK, CallTypeOK, Answer
<1>3. QED
  BY <1>2 DEF TypeOK, CallTypeOK, Answer

\* So does one that falls back to the rules engine.
LEMMA FallbackType ==
  ASSUME TypeOK, NEW r \in Replica, Fallback(r)
  PROVE  CallTypeOK'
<1>1. PICK words \in Description, credit \in BOOLEAN : Answer(r, classify(words, credit), "rules")
  BY DEF Fallback
<1>2. classify(words, credit) \in Reply \cup {"none"}
  BY ClassifyCanonical
<1>3. QED
  BY <1>1, <1>2, AnswerType

\* record_failure leaves the breaker well typed.
LEMMA RecordFailureType ==
  ASSUME TypeOK, NEW r \in Replica, RecordFailure(r)
  PROVE  /\ state' \in [Replica -> {"closed", "open", "half_open"}]
         /\ failures' \in [Replica -> 0..Threshold]
         /\ since' \in [Replica -> 0..ResetTimeout]
<1>1. PICK n \in 0..Threshold : n = Least(failures[r] + 1, Threshold)
  BY LeastFacts DEF TypeOK, BreakerTypeOK
<1>2. failures' \in [Replica -> 0..Threshold]
  <2>1. failures' = [failures EXCEPT ![r] = n]
    BY <1>1 DEF RecordFailure
  <2>2. QED
    BY <2>1 DEF TypeOK, BreakerTypeOK
<1>3. state' = state \/ state' = [state EXCEPT ![r] = "open"]
  BY DEF RecordFailure
<1>4. since' = since \/ since' = [since EXCEPT ![r] = 0]
  BY DEF RecordFailure
<1>5. QED
  BY <1>2, <1>3, <1>4 DEF TypeOK, BreakerTypeOK

\* The history of unanswered calls stays within its bound.
LEMMA UnansweredType ==
  ASSUME TypeOK, NEW r \in Replica, Unanswered(r)
  PROVE  unanswered' \in [Replica -> 0..Threshold]
<1>1. PICK n \in 0..Threshold : n = Least(unanswered[r] + 1, Threshold)
  BY LeastFacts DEF TypeOK, BreakerTypeOK
<1>2. unanswered' = [unanswered EXCEPT ![r] = n]
  BY <1>1 DEF Unanswered
<1>3. QED
  BY <1>2 DEF TypeOK, BreakerTypeOK

\* Types, action by action.
LEMMA TypeStep == TypeOK /\ [Next]_vars => TypeOK'
<1> SUFFICES ASSUME TypeOK, [Next]_vars PROVE TypeOK'
  OBVIOUS
<1>1. ASSUME NEW r \in Replica, NEW m \in Merchant, Start(r, m) PROVE TypeOK'
  BY <1>1 DEF Start, NoAnswer, Classified, TypeOK, CallTypeOK, BreakerTypeOK, CacheTypeOK, call, breaker
<1>2. ASSUME NEW r \in Replica, CacheHit(r) PROVE TypeOK'
  <2>1. cache[merchant[r]] \in Reply \cup {"none"}
    BY DEF TypeOK, CallTypeOK, CacheTypeOK
  <2>2. CallTypeOK'
    BY <1>2, <2>1, AnswerType DEF CacheHit
  <2>3. QED
    BY <1>2, <2>2 DEF CacheHit, TypeOK, CallTypeOK, BreakerTypeOK, CacheTypeOK, call, breaker
<1>3. ASSUME NEW r \in Replica, Admit(r) PROVE TypeOK'
  BY <1>3 DEF Admit, Seen, TypeOK, CallTypeOK, BreakerTypeOK, CacheTypeOK, call, breaker
<1>4. ASSUME NEW r \in Replica, Refuse(r) PROVE TypeOK'
  BY <1>4, FallbackType DEF Refuse, TypeOK, CallTypeOK, BreakerTypeOK, CacheTypeOK, call, breaker
<1>5. ASSUME NEW r \in Replica, RateLimited(r) PROVE TypeOK'
  BY <1>5, FallbackType DEF RateLimited, TypeOK, CallTypeOK, BreakerTypeOK, CacheTypeOK, call, breaker
<1>6. ASSUME NEW r \in Replica, Granted(r) PROVE TypeOK'
  BY <1>6 DEF Granted, TypeOK, CallTypeOK, BreakerTypeOK, CacheTypeOK, call, breaker
<1>7. ASSUME NEW r \in Replica, pc[r] = "calling", Retry(r) PROVE TypeOK'
  BY <1>7 DEF Retry, TypeOK, CallTypeOK, BreakerTypeOK, CacheTypeOK, call, breaker
<1>8. ASSUME NEW r \in Replica, pc[r] = "calling", GiveUp(r) PROVE TypeOK'
  <2>1. CallTypeOK'
    BY <1>8, FallbackType DEF GiveUp
  <2>2. BreakerTypeOK'
    BY <1>8, RecordFailureType, UnansweredType DEF GiveUp, BreakerTypeOK
  <2>3. CacheTypeOK'
    BY <1>8 DEF GiveUp, TypeOK, CacheTypeOK
  <2>4. QED
    BY <2>1, <2>2, <2>3 DEF TypeOK
<1>9. ASSUME NEW r \in Replica, Malformed(r) PROVE TypeOK'
  BY <1>9, FallbackType DEF Malformed, TypeOK, CallTypeOK, BreakerTypeOK, CacheTypeOK, call, breaker
<1>10. ASSUME NEW r \in Replica, NEW c \in Reply, Replied(r, c) PROVE TypeOK'
  <2>1. BreakerTypeOK'
    BY <1>10 DEF Replied, RecordSuccess, TypeOK, BreakerTypeOK
  <2>2. CASE Fallback(r)
    BY <1>10, <2>1, <2>2, FallbackType DEF Replied, TypeOK, CacheTypeOK
  <2>3. CASE /\ pc' = [pc EXCEPT ![r] = "storing"]
             /\ held' = [held EXCEPT ![r] = c]
             /\ UNCHANGED <<merchant, attempt, left, spent, answer>>
    <3>1. CallTypeOK'
      BY <2>3 DEF TypeOK, CallTypeOK
    <3>2. QED
      BY <1>10, <2>1, <3>1 DEF Replied, TypeOK, CacheTypeOK
  <2>4. QED
    BY <1>10, <2>2, <2>3 DEF Replied
<1>11. ASSUME NEW r \in Replica, Store(r) PROVE TypeOK'
  <2>1. CallTypeOK'
    BY <1>11, AnswerType DEF Store, TypeOK, CallTypeOK
  <2>2. CacheTypeOK'
    BY <1>11 DEF Store, TypeOK, CallTypeOK, CacheTypeOK
  <2>3. QED
    BY <1>11, <2>1, <2>2 DEF Store, TypeOK, BreakerTypeOK, breaker
<1>12. ASSUME NEW r \in Replica, StoreFails(r) PROVE TypeOK'
  <2>1. CallTypeOK'
    BY <1>12, AnswerType DEF StoreFails, TypeOK, CallTypeOK
  <2>2. QED
    BY <1>12, <2>1 DEF StoreFails, TypeOK, BreakerTypeOK, CacheTypeOK, breaker
<1>13. ASSUME NEW r \in Replica, DeadlinePasses(r) PROVE TypeOK'
  <2>1. CallTypeOK'
    BY <1>13, FallbackType DEF DeadlinePasses
  <2>2. CacheTypeOK'
    BY <1>13 DEF DeadlinePasses, TypeOK, CallTypeOK, CacheTypeOK
  <2>3. BreakerTypeOK'
    BY <1>13, UnansweredType DEF DeadlinePasses, TypeOK, BreakerTypeOK, breaker
  <2>4. QED
    BY <2>1, <2>2, <2>3 DEF TypeOK
<1>14. ASSUME NEW r \in Replica, Restart(r) PROVE TypeOK'
  BY <1>14 DEF Restart, RecordSuccess, NoAnswer, Classified, TypeOK, CallTypeOK, BreakerTypeOK, CacheTypeOK, call, breaker
<1>15. ASSUME NEW m \in Merchant, Invalidate(m) PROVE TypeOK'
  <2>1. CacheTypeOK'
    BY <1>15 DEF Invalidate, None, TypeOK, CacheTypeOK
  <2>2. CallTypeOK'
    BY <1>15 DEF Invalidate, call, TypeOK, CallTypeOK
  <2>3. QED
    BY <1>15, <2>1, <2>2 DEF Invalidate, breaker, TypeOK, BreakerTypeOK
<1>16. ASSUME NEW m \in Merchant, Expire(m) PROVE TypeOK'
  BY <1>16 DEF Expire, None, TypeOK, CallTypeOK, BreakerTypeOK, CacheTypeOK, call, breaker
<1>17. ASSUME Tick PROVE TypeOK'
  <2>1. CallTypeOK'
    BY <1>17 DEF Tick, TypeOK, CallTypeOK
  <2>2. BreakerTypeOK'
    BY <1>17, LeastFacts DEF Tick, TypeOK, BreakerTypeOK
  <2>3. QED
    BY <1>17, <2>1, <2>2 DEF Tick, TypeOK, CacheTypeOK
<1>18. CASE UNCHANGED vars
  BY <1>18 DEF vars, TypeOK, CallTypeOK, BreakerTypeOK, CacheTypeOK, call, breaker
<1>19. ASSUME NEW r \in Replica, Trickles(r) PROVE TypeOK'
  BY <1>19 DEF Trickles, TypeOK, CallTypeOK, BreakerTypeOK, CacheTypeOK, breaker
<1>20. QED
  BY <1>1, <1>2, <1>3, <1>4, <1>5, <1>6, <1>7, <1>8, <1>9, <1>10, <1>11, <1>12, <1>13, <1>14, <1>15, <1>16, <1>17, <1>18, <1>19 DEF Next, Proceed, AttemptFails, AttemptTimesOut, AttemptRaises

-----------------------------------------------------------------------------
(* The breaker's count and its state. *)

\* record_success leaves a closed breaker without failures, and others alone.
LEMMA RecordSuccessFacts ==
  ASSUME TypeOK, NEW r \in Replica, RecordSuccess(r)
  PROVE  /\ state'[r] = "closed" /\ failures'[r] = 0
         /\ \A q \in Replica : q # r => state'[q] = state[q] /\ failures'[q] = failures[q]
BY DEF RecordSuccess, TypeOK, BreakerTypeOK

\* record_failure counts, opens the breaker at the threshold, and leaves others alone.
LEMMA RecordFailureFacts ==
  ASSUME TypeOK, ClosedBelowThreshold, NEW r \in Replica, RecordFailure(r), state[r] # "open"
  PROVE  /\ state'[r] = "closed" <=> failures'[r] < Threshold
         /\ \A q \in Replica : q # r => state'[q] = state[q] /\ failures'[q] = failures[q]
<1>1. /\ failures[r] \in 0..Threshold
      /\ state[r] = "closed" \/ state[r] = "half_open"
      /\ state[r] = "closed" <=> failures[r] < Threshold
  BY DEF TypeOK, BreakerTypeOK, ClosedBelowThreshold
<1>2. failures'[r] = Least(failures[r] + 1, Threshold)
  BY DEF RecordFailure, TypeOK, BreakerTypeOK
<1>3. \A q \in Replica : q # r => failures'[q] = failures[q]
  BY DEF RecordFailure, TypeOK, BreakerTypeOK
<1>4. CASE state[r] = "half_open" \/ failures[r] + 1 >= Threshold
  <2>1. state' = [state EXCEPT ![r] = "open"]
    BY <1>4 DEF RecordFailure
  <2>2. failures'[r] = Threshold
    <3>1. failures[r] \in Int /\ Threshold \in Int
      BY <1>1, ThresholdAssumption
    <3>2. failures[r] + 1 >= Threshold
      BY <1>1, <1>4, <3>1
    <3>3. Least(failures[r] + 1, Threshold) = Threshold
      BY <3>1, <3>2 DEF Least
    <3>4. QED
      BY <1>2, <3>3
  <2>3. QED
    BY <1>3, <2>1, <2>2 DEF TypeOK, BreakerTypeOK
<1>5. CASE ~(state[r] = "half_open" \/ failures[r] + 1 >= Threshold)
  <2>1. state' = state
    BY <1>5 DEF RecordFailure
  <2>2. state[r] = "closed" /\ failures'[r] < Threshold
    <3>1. failures[r] \in Int /\ Threshold \in Int
      BY <1>1, ThresholdAssumption
    <3>2. state[r] = "closed" /\ failures[r] + 1 < Threshold
      BY <1>1, <1>5, <3>1
    <3>3. Least(failures[r] + 1, Threshold) = failures[r] + 1
      BY <3>1, <3>2 DEF Least
    <3>4. QED
      BY <1>2, <3>2, <3>3
  <2>3. QED
    BY <1>3, <2>1, <2>2
<1>6. QED
  BY <1>4, <1>5

\* A call that ends is idle; the other processes stay where they are.
LEMMA AnswerIdles ==
  ASSUME TypeOK, NEW r \in Replica, NEW category, NEW source, Answer(r, category, source)
  PROVE  pc'[r] = "idle" /\ \A q \in Replica : q # r => pc'[q] = pc[q]
BY DEF Answer, TypeOK, CallTypeOK

\* The two facts about the breaker are preserved together.
LEMMA BreakerStep ==
  TypeOK /\ ClosedBelowThreshold /\ QuietWhileOpen /\ [Next]_vars
    => ClosedBelowThreshold' /\ QuietWhileOpen'
<1> DEFINE B == ClosedBelowThreshold /\ QuietWhileOpen
<1> SUFFICES ASSUME TypeOK, B, [Next]_vars PROVE B'
  OBVIOUS
<1>1. ASSUME NEW r \in Replica, NEW m \in Merchant, Start(r, m) PROVE B'
  BY <1>1 DEF Start, breaker, TypeOK, CallTypeOK, BreakerTypeOK, ClosedBelowThreshold, QuietWhileOpen
<1>2. ASSUME NEW r \in Replica, CacheHit(r) PROVE B'
  BY <1>2 DEF CacheHit, Answer, breaker, TypeOK, CallTypeOK, BreakerTypeOK, ClosedBelowThreshold, QuietWhileOpen
<1>3. ASSUME NEW r \in Replica, Admit(r) PROVE B'
  BY <1>3 DEF Admit, Seen, breaker, TypeOK, CallTypeOK, BreakerTypeOK, ClosedBelowThreshold, QuietWhileOpen
<1>4. ASSUME NEW r \in Replica, Refuse(r) PROVE B'
  BY <1>4 DEF Refuse, Fallback, Answer, breaker, TypeOK, CallTypeOK, BreakerTypeOK, ClosedBelowThreshold, QuietWhileOpen
<1>5. ASSUME NEW r \in Replica, RateLimited(r) PROVE B'
  BY <1>5 DEF RateLimited, Fallback, Answer, breaker, TypeOK, CallTypeOK, BreakerTypeOK, ClosedBelowThreshold, QuietWhileOpen
<1>6. ASSUME NEW r \in Replica, Granted(r) PROVE B'
  BY <1>6 DEF Granted, breaker, TypeOK, CallTypeOK, BreakerTypeOK, ClosedBelowThreshold, QuietWhileOpen
<1>7. ASSUME NEW r \in Replica, pc[r] = "calling", Retry(r) PROVE B'
  BY <1>7 DEF Retry, breaker, TypeOK, CallTypeOK, BreakerTypeOK, ClosedBelowThreshold, QuietWhileOpen
<1>8. ASSUME NEW r \in Replica, pc[r] = "calling", GiveUp(r) PROVE B'
  <2>1. state[r] # "open"
    BY <1>8 DEF QuietWhileOpen
  <2>2. pc'[r] = "idle" /\ \A q \in Replica : q # r => pc'[q] = pc[q]
    BY <1>8, AnswerIdles DEF GiveUp, Fallback
  <2>3. /\ state'[r] = "closed" <=> failures'[r] < Threshold
        /\ \A q \in Replica : q # r => state'[q] = state[q] /\ failures'[q] = failures[q]
    BY <1>8, <2>1, RecordFailureFacts DEF GiveUp
  <2>4. QED
    BY <2>2, <2>3 DEF ClosedBelowThreshold, QuietWhileOpen
<1>9. ASSUME NEW r \in Replica, Malformed(r) PROVE B'
  BY <1>9 DEF Malformed, Fallback, Answer, breaker, TypeOK, CallTypeOK, BreakerTypeOK, ClosedBelowThreshold, QuietWhileOpen
<1>10. ASSUME NEW r \in Replica, NEW c \in Reply, Replied(r, c) PROVE B'
  <2>1. \A q \in Replica : q # r => pc'[q] = pc[q]
    BY <1>10, AnswerIdles DEF Replied, Fallback, TypeOK, CallTypeOK
  <2>2. /\ state'[r] = "closed" /\ failures'[r] = 0
        /\ \A q \in Replica : q # r => state'[q] = state[q] /\ failures'[q] = failures[q]
    BY <1>10, RecordSuccessFacts DEF Replied
  <2>3. QED
    BY <2>1, <2>2 DEF ClosedBelowThreshold, QuietWhileOpen
<1>11. ASSUME NEW r \in Replica, Store(r) PROVE B'
  BY <1>11 DEF Store, Answer, breaker, TypeOK, CallTypeOK, BreakerTypeOK, ClosedBelowThreshold, QuietWhileOpen
<1>12. ASSUME NEW r \in Replica, StoreFails(r) PROVE B'
  BY <1>12 DEF StoreFails, Answer, breaker, TypeOK, CallTypeOK, BreakerTypeOK, ClosedBelowThreshold, QuietWhileOpen
<1>13. ASSUME NEW r \in Replica, DeadlinePasses(r) PROVE B'
  BY <1>13 DEF DeadlinePasses, Fallback, Answer, breaker, TypeOK, CallTypeOK, BreakerTypeOK, ClosedBelowThreshold, QuietWhileOpen
<1>14. ASSUME NEW r \in Replica, Restart(r) PROVE B'
  <2>1. \A q \in Replica : q # r => pc'[q] = pc[q]
    BY <1>14 DEF Restart, TypeOK, CallTypeOK
  <2>2. /\ state'[r] = "closed" /\ failures'[r] = 0
        /\ \A q \in Replica : q # r => state'[q] = state[q] /\ failures'[q] = failures[q]
    BY <1>14, RecordSuccessFacts DEF Restart
  <2>3. QED
    BY <2>1, <2>2 DEF ClosedBelowThreshold, QuietWhileOpen
<1>15. ASSUME NEW m \in Merchant, Invalidate(m) PROVE B'
  BY <1>15 DEF Invalidate, call, breaker, ClosedBelowThreshold, QuietWhileOpen
<1>16. ASSUME NEW m \in Merchant, Expire(m) PROVE B'
  BY <1>16 DEF Expire, call, breaker, ClosedBelowThreshold, QuietWhileOpen
<1>17. ASSUME Tick PROVE B'
  BY <1>17 DEF Tick, call, breaker, ClosedBelowThreshold, QuietWhileOpen
<1>18. CASE UNCHANGED vars
  BY <1>18 DEF vars, call, breaker, ClosedBelowThreshold, QuietWhileOpen
<1>19. ASSUME NEW r \in Replica, Trickles(r) PROVE B'
  BY <1>19 DEF Trickles, breaker, ClosedBelowThreshold, QuietWhileOpen
<1>20. QED
  BY <1>1, <1>2, <1>3, <1>4, <1>5, <1>6, <1>7, <1>8, <1>9, <1>10, <1>11, <1>12, <1>13, <1>14, <1>15, <1>16, <1>17, <1>18, <1>19
  DEF Next, Proceed, AttemptFails, AttemptTimesOut, AttemptRaises

-----------------------------------------------------------------------------
(* Categories on their way from the provider to the row. *)

\* The rules engine's category is canonical, and nobody else's answer changes.
LEMMA FallbackCanonical ==
  ASSUME TypeOK, NEW r \in Replica, Fallback(r)
  PROVE  /\ answer'[r].category \in Slugs /\ pc'[r] = "idle"
         /\ \A q \in Replica : q # r => /\ answer'[q] = answer[q]
                                         /\ pc'[q] = pc[q]
                                         /\ held'[q] = held[q]
<1>1. PICK words \in Description, credit \in BOOLEAN : Answer(r, classify(words, credit), "rules")
  BY DEF Fallback
<1>2. classify(words, credit) \in Slugs
  BY ClassifyCanonical
<1>3. QED
  BY <1>1, <1>2 DEF Answer, TypeOK, CallTypeOK

\* Only validated categories are held, stored and returned.
LEMMA CanonicalStep ==
  TypeOK /\ ServedIsCanonical /\ HeldIsCanonical /\ [Next]_vars
    => ServedIsCanonical' /\ HeldIsCanonical'
<1> DEFINE B == ServedIsCanonical /\ HeldIsCanonical
<1> SUFFICES ASSUME TypeOK, B, [Next]_vars PROVE B'
  OBVIOUS
<1>1. ASSUME NEW r \in Replica, NEW m \in Merchant, Start(r, m) PROVE B'
  BY <1>1 DEF Start, NoAnswer, TypeOK, CallTypeOK, ServedIsCanonical, HeldIsCanonical
<1>2. ASSUME NEW r \in Replica, CacheHit(r) PROVE B'
  BY <1>2 DEF CacheHit, Answer, TypeOK, CallTypeOK, ServedIsCanonical, HeldIsCanonical
<1>3. ASSUME NEW r \in Replica, Admit(r) PROVE B'
  BY <1>3 DEF Admit, TypeOK, CallTypeOK, ServedIsCanonical, HeldIsCanonical
<1>4. ASSUME NEW r \in Replica, Refuse(r) PROVE B'
  BY <1>4, FallbackCanonical DEF Refuse, ServedIsCanonical, HeldIsCanonical
<1>5. ASSUME NEW r \in Replica, RateLimited(r) PROVE B'
  BY <1>5, FallbackCanonical DEF RateLimited, ServedIsCanonical, HeldIsCanonical
<1>6. ASSUME NEW r \in Replica, Granted(r) PROVE B'
  BY <1>6 DEF Granted, TypeOK, CallTypeOK, ServedIsCanonical, HeldIsCanonical
<1>7. ASSUME NEW r \in Replica, pc[r] = "calling", Retry(r) PROVE B'
  BY <1>7 DEF Retry, TypeOK, CallTypeOK, ServedIsCanonical, HeldIsCanonical
<1>8. ASSUME NEW r \in Replica, pc[r] = "calling", GiveUp(r) PROVE B'
  BY <1>8, FallbackCanonical DEF GiveUp, ServedIsCanonical, HeldIsCanonical
<1>9. ASSUME NEW r \in Replica, Malformed(r) PROVE B'
  BY <1>9, FallbackCanonical DEF Malformed, ServedIsCanonical, HeldIsCanonical
<1>10. ASSUME NEW r \in Replica, NEW c \in Reply, Replied(r, c) PROVE B'
  <2>1. CASE Fallback(r)
    BY <1>10, <2>1, FallbackCanonical DEF Replied, ServedIsCanonical, HeldIsCanonical
  <2>2. CASE /\ Parse(c)
             /\ pc' = [pc EXCEPT ![r] = "storing"]
             /\ held' = [held EXCEPT ![r] = c]
             /\ UNCHANGED <<merchant, attempt, left, spent, answer>>
    BY <1>10, <2>2 DEF Replied, Parse, TypeOK, CallTypeOK, ServedIsCanonical, HeldIsCanonical
  <2>3. QED
    BY <1>10, <2>1, <2>2 DEF Replied
<1>11. ASSUME NEW r \in Replica, Store(r) PROVE B'
  BY <1>11 DEF Store, Answer, TypeOK, CallTypeOK, CacheTypeOK, ServedIsCanonical, HeldIsCanonical
<1>12. ASSUME NEW r \in Replica, StoreFails(r) PROVE B'
  BY <1>12 DEF StoreFails, Answer, TypeOK, CallTypeOK, ServedIsCanonical, HeldIsCanonical
<1>13. ASSUME NEW r \in Replica, DeadlinePasses(r) PROVE B'
  <2>1. \A m \in Merchant : cache'[m] # None => cache'[m] \in Slugs
    <3>1. CASE cache' = cache
      BY <3>1 DEF ServedIsCanonical
    <3>2. CASE pc[r] = "storing" /\ cache' = [cache EXCEPT ![merchant[r]] = held[r]]
      BY <3>2 DEF TypeOK, CacheTypeOK, ServedIsCanonical, HeldIsCanonical
    <3>3. QED
      BY <1>13, <3>1, <3>2 DEF DeadlinePasses
  <2>2. QED
    BY <1>13, <2>1, FallbackCanonical DEF DeadlinePasses, ServedIsCanonical, HeldIsCanonical
<1>14. ASSUME NEW r \in Replica, Restart(r) PROVE B'
  BY <1>14 DEF Restart, NoAnswer, TypeOK, CallTypeOK, ServedIsCanonical, HeldIsCanonical
<1>15. ASSUME NEW m \in Merchant, Invalidate(m) PROVE B'
  BY <1>15 DEF Invalidate, call, TypeOK, CacheTypeOK, ServedIsCanonical, HeldIsCanonical
<1>16. ASSUME NEW m \in Merchant, Expire(m) PROVE B'
  BY <1>16 DEF Expire, call, TypeOK, CacheTypeOK, ServedIsCanonical, HeldIsCanonical
<1>17. ASSUME Tick PROVE B'
  BY <1>17 DEF Tick, ServedIsCanonical, HeldIsCanonical
<1>18. CASE UNCHANGED vars
  BY <1>18 DEF vars, call, ServedIsCanonical, HeldIsCanonical
<1>19. ASSUME NEW r \in Replica, Trickles(r) PROVE B'
  BY <1>19 DEF Trickles, ServedIsCanonical, HeldIsCanonical
<1>20. QED
  BY <1>1, <1>2, <1>3, <1>4, <1>5, <1>6, <1>7, <1>8, <1>9, <1>10, <1>11, <1>12, <1>13, <1>14, <1>15, <1>16, <1>17, <1>18, <1>19
  DEF Next, Proceed, AttemptFails, AttemptTimesOut, AttemptRaises

\* Only Admit brings a call to the limiter.
LEMMA OnlyAdmitted ==
  ASSUME TypeOK, [Next]_vars, NEW r \in Replica, pc[r] # "limiting", pc'[r] = "limiting"
  PROVE  Admit(r)
<1>1. ASSUME NEW q \in Replica, NEW m \in Merchant, Start(q, m) PROVE Admit(r)
  BY <1>1 DEF Start, TypeOK, CallTypeOK
<1>2. ASSUME NEW q \in Replica, CacheHit(q) PROVE Admit(r)
  BY <1>2 DEF CacheHit, Answer, TypeOK, CallTypeOK
<1>3. ASSUME NEW q \in Replica, Admit(q) PROVE Admit(r)
  BY <1>3 DEF Admit, TypeOK, CallTypeOK
<1>4. ASSUME NEW q \in Replica, Refuse(q) PROVE Admit(r)
  BY <1>4 DEF Refuse, Fallback, Answer, TypeOK, CallTypeOK
<1>5. ASSUME NEW q \in Replica, RateLimited(q) PROVE Admit(r)
  BY <1>5 DEF RateLimited, Fallback, Answer, TypeOK, CallTypeOK
<1>6. ASSUME NEW q \in Replica, Granted(q) PROVE Admit(r)
  BY <1>6 DEF Granted, TypeOK, CallTypeOK
<1>7. ASSUME NEW q \in Replica, Retry(q) PROVE Admit(r)
  BY <1>7 DEF Retry, TypeOK, CallTypeOK
<1>8. ASSUME NEW q \in Replica, GiveUp(q) PROVE Admit(r)
  BY <1>8 DEF GiveUp, Fallback, Answer, TypeOK, CallTypeOK
<1>9. ASSUME NEW q \in Replica, Malformed(q) PROVE Admit(r)
  BY <1>9 DEF Malformed, Fallback, Answer, TypeOK, CallTypeOK
<1>10. ASSUME NEW q \in Replica, NEW c \in Reply, Replied(q, c) PROVE Admit(r)
  BY <1>10 DEF Replied, Fallback, Answer, TypeOK, CallTypeOK
<1>11. ASSUME NEW q \in Replica, Store(q) PROVE Admit(r)
  BY <1>11 DEF Store, Answer, TypeOK, CallTypeOK
<1>12. ASSUME NEW q \in Replica, StoreFails(q) PROVE Admit(r)
  BY <1>12 DEF StoreFails, Answer, TypeOK, CallTypeOK
<1>13. ASSUME NEW q \in Replica, DeadlinePasses(q) PROVE Admit(r)
  BY <1>13 DEF DeadlinePasses, Fallback, Answer, TypeOK, CallTypeOK
<1>14. ASSUME NEW q \in Replica, Restart(q) PROVE Admit(r)
  BY <1>14 DEF Restart, TypeOK, CallTypeOK
<1>15. ASSUME NEW m \in Merchant, Invalidate(m) PROVE Admit(r)
  BY <1>15 DEF Invalidate, call, TypeOK, CallTypeOK
<1>16. ASSUME NEW m \in Merchant, Expire(m) PROVE Admit(r)
  BY <1>16 DEF Expire, call, TypeOK, CallTypeOK
<1>17. ASSUME Tick PROVE Admit(r)
  BY <1>17 DEF Tick, TypeOK, CallTypeOK
<1>18. CASE UNCHANGED vars
  BY <1>18 DEF vars, call
<1>19. ASSUME NEW q \in Replica, Trickles(q) PROVE Admit(r)
  BY <1>19 DEF Trickles
<1>20. QED
  BY <1>1, <1>2, <1>3, <1>4, <1>5, <1>6, <1>7, <1>8, <1>9, <1>10, <1>11, <1>12, <1>13, <1>14, <1>15, <1>16, <1>17, <1>18, <1>19
  DEF Next, Proceed, AttemptFails, AttemptTimesOut, AttemptRaises

-----------------------------------------------------------------------------
(* The theorems. *)

\* IInv is an invariant of the classifier.
THEOREM Invariant == Spec => []IInv
<1>1. IInv /\ [Next]_vars => IInv'
  BY TypeStep, BreakerStep, CanonicalStep DEF IInv
<1>2. QED
  BY InitIInv, <1>1, PTL DEF Spec

\* The variables keep their types, so attempts and waiting stay within their bounds.
THEOREM TypeCorrect == Spec => []TypeOK
<1>1. IInv => TypeOK
  BY DEF IInv
<1>2. QED
  BY Invariant, <1>1, PTL

\* The breaker is closed exactly while it has counted fewer failures than the threshold.
THEOREM BreakerCounts == Spec => []ClosedBelowThreshold
<1>1. IInv => ClosedBelowThreshold
  BY DEF IInv
<1>2. QED
  BY Invariant, <1>1, PTL

\* An open breaker keeps its process away from the limiter and the provider.
THEOREM BreakerShields == Spec => []QuietWhileOpen
<1>1. IInv => QuietWhileOpen
  BY DEF IInv
<1>2. QED
  BY Invariant, <1>1, PTL

\* Once opened, the breaker admits no call before the reset timeout has passed.
THEOREM BreakerStaysOpen == Spec => OpenForResetTimeout
<1> DEFINE A == \A r \in Replica : state[r] = "open" /\ pc'[r] = "limiting" => since[r] >= ResetTimeout
<1>1. IInv /\ [Next]_vars => A
  <2> SUFFICES ASSUME IInv, [Next]_vars, NEW r \in Replica, state[r] = "open", pc'[r] = "limiting"
               PROVE  since[r] >= ResetTimeout
    OBVIOUS
  <2>1. pc[r] # "limiting"
    BY DEF IInv, QuietWhileOpen
  <2>2. Admit(r)
    BY <2>1, OnlyAdmitted DEF IInv
  <2>3. QED
    BY <2>2 DEF Admit, Seen
<1>2. IInv /\ [Next]_vars => [A]_vars
  BY <1>1
<1>3. QED
  BY Invariant, <1>2, PTL DEF Spec, OpenForResetTimeout

\* Only canonical categories are cached or returned, whatever the provider names.
THEOREM OnlyCanonical == Spec => []ServedIsCanonical
<1>1. IInv => ServedIsCanonical
  BY DEF IInv
<1>2. QED
  BY Invariant, <1>1, PTL

=============================================================================
