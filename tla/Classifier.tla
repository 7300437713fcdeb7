----------------------------- MODULE Classifier -----------------------------
(***************************************************************************)
(* The classifier of the enrichment workers (libs/llm_client): a merchant- *)
(* keyed cache in Redis, a circuit breaker per process, a rate limiter and *)
(* a provider called with bounded retries, all under the worker's deadline *)
(* (workers.py), with the rules engine as the answer when any of it fails. *)
(*                                                                         *)
(* A process has one enrichment loop, so it has one call at a time and its *)
(* breaker has one caller.  Processes meet in the cache, where corrections *)
(* (PATCH) drop entries while calls are in flight.  Redis answers or fails *)
(* without delay; time passes while the provider is waited for.            *)
(***************************************************************************)
EXTENDS Integers

CONSTANTS Replica,       \* processes of the transactions service
          Merchant,      \* merchant_key of a description
          Slugs,         \* CATEGORY_SLUGS
          Reply,         \* categories the provider may name, canonical or not
          Rules,         \* _RULES: categories with their keywords, specific ones first
          Description,   \* descriptions, as the sets of keywords found in them
          Threshold,     \* failure_threshold
          ResetTimeout,  \* reset_timeout_seconds
          MaxAttempts,   \* max_attempts of LLMClient
          AttemptTime,   \* how long an attempt waits for a silent provider: timeout_seconds x tries of the SDK
          Deadline       \* lease_seconds * 0.75

ASSUME SlugsAssumption == Slugs \subseteq Reply
ASSUME RulesAssumption ==
  /\ DOMAIN Rules \subseteq Nat
  /\ \A i \in DOMAIN Rules : Rules[i].slug \in Slugs
  /\ {"income", "other"} \subseteq Slugs
ASSUME ThresholdAssumption == Threshold \in Nat \ {0}
ASSUME AttemptsAssumption == MaxAttempts \in Nat \ {0}
ASSUME TimesAssumption ==
  ResetTimeout \in Nat /\ AttemptTime \in Nat \ {0} /\ Deadline \in Nat \ {0}

VARIABLES pc,         \* where a process's call is
          merchant,   \* what it classifies
          attempt,    \* number of the attempt at the provider
          left,       \* time until this attempt times out, if nothing comes
          spent,      \* time the call has waited for the provider
          held,       \* the provider's validated category
          answer,     \* the classification the last call ended with
          state,      \* CircuitBreaker._state
          failures,   \* CircuitBreaker._failures, up to the threshold
          since,      \* time since _opened_at, up to the reset timeout
          cache,      \* the entries in Redis
          unanswered  \* history: calls in a row that the provider left unanswered, up to the threshold

call == <<pc, merchant, attempt, left, spent, held, answer>>
breaker == <<state, failures, since>>
vars == <<call, breaker, cache, unanswered>>

None == "none"
NoAnswer == [category |-> "none", source |-> "none"]
ASSUME NoneAssumption == "none" \notin Reply

Least(a, b) == IF a <= b THEN a ELSE b

Init ==
  /\ pc = [r \in Replica |-> "idle"]
  /\ merchant \in [Replica -> Merchant]
  /\ attempt = [r \in Replica |-> 1]
  /\ left = [r \in Replica |-> 0]
  /\ spent = [r \in Replica |-> 0]
  /\ held = [r \in Replica |-> "none"]
  /\ answer = [r \in Replica |-> NoAnswer]
  /\ state = [r \in Replica |-> "closed"]
  /\ failures = [r \in Replica |-> 0]
  /\ since = [r \in Replica |-> 0]
  /\ cache = [m \in Merchant |-> None]
  /\ unanswered = [r \in Replica |-> 0]

-----------------------------------------------------------------------------
(* The circuit breaker. *)

\* The state property: an open breaker turns half-open when it is looked at late enough.
Seen(r) == IF state[r] = "open" /\ since[r] >= ResetTimeout THEN "half_open" ELSE state[r]

RecordSuccess(r) ==
  /\ failures' = [failures EXCEPT ![r] = 0]
  /\ since' = [since EXCEPT ![r] = 0]
  /\ state' = [state EXCEPT ![r] = "closed"]

RecordFailure(r) ==
  LET count == failures[r] + 1
      opens == state[r] = "half_open" \/ count >= Threshold
  IN /\ failures' = [failures EXCEPT ![r] = Least(count, Threshold)]
     /\ state' = IF opens THEN [state EXCEPT ![r] = "open"] ELSE state
     /\ since' = IF opens THEN [since EXCEPT ![r] = 0] ELSE since

-----------------------------------------------------------------------------
(* The rules engine. *)

\* The rules with a keyword in the description, and the first of them.
Matching(words) == {i \in DOMAIN Rules : Rules[i].needles \cap words # {}}
First(indices) == CHOOSE i \in indices : \A j \in indices : i <= j

\* A credit with a word for income is income whatever else matches, and so is one that nothing does.
classify(words, credit) ==
  IF credit /\ \E i \in Matching(words) : Rules[i].slug = "income" THEN "income"
  ELSE IF Matching(words) # {} THEN Rules[First(Matching(words))].slug
  ELSE IF credit THEN "income"
  ELSE "other"

-----------------------------------------------------------------------------
(* How a call ends. *)

Answer(r, category, source) ==
  /\ pc' = [pc EXCEPT ![r] = "idle"]
  /\ answer' = [answer EXCEPT ![r] = [category |-> category, source |-> source]]
  /\ attempt' = [attempt EXCEPT ![r] = 1]
  /\ left' = [left EXCEPT ![r] = 0]
  /\ spent' = [spent EXCEPT ![r] = 0]
  /\ held' = [held EXCEPT ![r] = "none"]
  /\ UNCHANGED merchant

\* Any exception out of the classifier: categorize_once asks the rules engine.
Fallback(r) ==
  \E words \in Description, credit \in BOOLEAN : Answer(r, classify(words, credit), "rules")

Unanswered(r) ==
  unanswered' = [unanswered EXCEPT ![r] = Least(unanswered[r] + 1, Threshold)]

-----------------------------------------------------------------------------
(* The steps of a call; between two of them it is suspended at an await. *)

Start(r, m) ==
  /\ pc[r] = "idle"
  /\ pc' = [pc EXCEPT ![r] = "reading"]
  /\ merchant' = [merchant EXCEPT ![r] = m]
  /\ answer' = [answer EXCEPT ![r] = NoAnswer]
  /\ UNCHANGED <<attempt, left, spent, held, breaker, cache, unanswered>>

CacheHit(r) ==
  /\ pc[r] = "reading"
  /\ cache[merchant[r]] # None
  /\ Answer(r, cache[merchant[r]], "llm")
  /\ UNCHANGED <<breaker, cache, unanswered>>

AdmitAlways(r) ==
  /\ pc[r] = "reading"
  /\ state' = [state EXCEPT ![r] = Seen(r)]
  /\ pc' = [pc EXCEPT ![r] = "limiting"]
  /\ UNCHANGED <<merchant, attempt, left, spent, held, answer, failures, since, cache,
                 unanswered>>

\* Nothing in the cache, or the cache cannot be read, and the breaker lets the call through.
Admit(r) ==
  /\ pc[r] = "reading"
  /\ Seen(r) # "open"
  /\ state' = [state EXCEPT ![r] = Seen(r)]
  /\ pc' = [pc EXCEPT ![r] = "limiting"]
  /\ UNCHANGED <<merchant, attempt, left, spent, held, answer, failures, since, cache,
                 unanswered>>

\* "Circuit breaker is open."
Refuse(r) ==
  /\ pc[r] = "reading"
  /\ Seen(r) = "open"
  /\ Fallback(r)
  /\ UNCHANGED <<breaker, cache, unanswered>>

RateLimitedStartsOver(r) ==
  /\ pc[r] = "limiting"
  /\ pc' = [pc EXCEPT ![r] = "reading"]
  /\ UNCHANGED <<merchant, attempt, left, spent, held, answer, breaker, cache, unanswered>>

\* The bucket has no token.
RateLimited(r) ==
  /\ pc[r] = "limiting"
  /\ Fallback(r)
  /\ UNCHANGED <<breaker, cache, unanswered>>

\* A token, or a bucket that cannot be reached (fail_open): the first attempt begins.
Granted(r) ==
  /\ pc[r] = "limiting"
  /\ pc' = [pc EXCEPT ![r] = "calling"]
  /\ left' = [left EXCEPT ![r] = AttemptTime]
  /\ UNCHANGED <<merchant, attempt, spent, held, answer, breaker, cache, unanswered>>

\* complete_json: an attempt raised; try again, or give up and tell the breaker.
Retry(r) ==
  /\ attempt[r] < MaxAttempts
  /\ attempt' = [attempt EXCEPT ![r] = attempt[r] + 1]
  /\ left' = [left EXCEPT ![r] = AttemptTime]
  /\ UNCHANGED <<pc, merchant, spent, held, answer, breaker, cache, unanswered>>

GiveUp(r) ==
  /\ attempt[r] = MaxAttempts
  /\ RecordFailure(r)
  /\ Fallback(r)
  /\ Unanswered(r)
  /\ UNCHANGED cache

AttemptRaises(r) == Retry(r) \/ GiveUp(r)

\* A transport error or an error status, at any moment ...
AttemptFails(r) == pc[r] = "calling" /\ AttemptRaises(r)

(***************************************************************************)
(* ... or nothing comes in the time of an attempt.  httpx under the SDK    *)
(* allows the timeout to every wait, so a provider that sends its reply    *)
(* piece by piece is waited for again after each: only the worker's        *)
(* deadline limits them together.                                          *)
(***************************************************************************)
Trickles(r) ==
  /\ pc[r] = "calling" /\ left[r] > 0
  /\ left' = [left EXCEPT ![r] = AttemptTime]
  /\ UNCHANGED <<pc, merchant, attempt, spent, held, answer, breaker, cache, unanswered>>

AttemptTimesOut(r) == pc[r] = "calling" /\ left[r] = 0 /\ AttemptRaises(r)

\* The reply is not a JSON object: no fault of the breaker's concern.
Malformed(r) ==
  /\ pc[r] = "calling"
  /\ Fallback(r)
  /\ UNCHANGED <<breaker, cache, unanswered>>

ParseAccepts(category) == TRUE

\* _parse: the category is in the taxonomy.
Parse(category) == category \in Slugs

\* A JSON object: the provider is healthy, whatever category it names.
Replied(r, category) ==
  /\ pc[r] = "calling"
  /\ RecordSuccess(r)
  /\ unanswered' = [unanswered EXCEPT ![r] = 0]
  /\ \/ /\ Parse(category)
        /\ pc' = [pc EXCEPT ![r] = "storing"]
        /\ held' = [held EXCEPT ![r] = category]
        /\ UNCHANGED <<merchant, attempt, left, spent, answer>>
     \/ ~Parse(category) /\ Fallback(r)
  /\ UNCHANGED cache

Store(r) ==
  /\ pc[r] = "storing"
  /\ cache' = [cache EXCEPT ![merchant[r]] = held[r]]
  /\ Answer(r, held[r], "llm")
  /\ UNCHANGED <<breaker, unanswered>>

\* A cache outage must not fail the request.
StoreFails(r) ==
  /\ pc[r] = "storing"
  /\ Answer(r, held[r], "llm")
  /\ UNCHANGED <<breaker, cache, unanswered>>

\* asyncio.timeout cancels the call where it waits; the breaker hears nothing of it.
DeadlinePasses(r) ==
  /\ spent[r] = Deadline
  /\ Fallback(r)
  /\ \/ pc[r] = "calling" /\ Unanswered(r) /\ UNCHANGED cache
     \/ /\ pc[r] = "storing"
        /\ UNCHANGED unanswered
        /\ cache' \in {cache, [cache EXCEPT ![merchant[r]] = held[r]]}
  /\ UNCHANGED breaker

-----------------------------------------------------------------------------
(* Around the calls. *)

\* patch_transaction: the DELETE of a correction reaches Redis.
Invalidate(m) ==
  /\ cache' = [cache EXCEPT ![m] = None]
  /\ UNCHANGED <<call, breaker, unanswered>>

\* The entry reaches its TTL.
Expire(m) ==
  /\ cache' = [cache EXCEPT ![m] = None]
  /\ UNCHANGED <<call, breaker, unanswered>>

\* The process stops and starts again with a new breaker; its call is gone.
Restart(r) ==
  /\ pc' = [pc EXCEPT ![r] = "idle"]
  /\ answer' = [answer EXCEPT ![r] = NoAnswer]
  /\ attempt' = [attempt EXCEPT ![r] = 1]
  /\ left' = [left EXCEPT ![r] = 0]
  /\ spent' = [spent EXCEPT ![r] = 0]
  /\ held' = [held EXCEPT ![r] = "none"]
  /\ unanswered' = [unanswered EXCEPT ![r] = 0]
  /\ RecordSuccess(r)  \* CircuitBreaker() starts where record_success leaves it
  /\ UNCHANGED <<merchant, cache>>

\* Time passes, never beyond the end of an attempt or of a call.
Tick ==
  /\ \A r \in Replica : /\ pc[r] = "calling" => left[r] > 0
                        /\ pc[r] \in {"calling", "storing"} => spent[r] < Deadline
  /\ left' = [r \in Replica |-> IF pc[r] = "calling" THEN left[r] - 1 ELSE left[r]]
  /\ spent' = [r \in Replica |->
                 IF pc[r] \in {"calling", "storing"} THEN spent[r] + 1 ELSE spent[r]]
  /\ since' = [r \in Replica |->
                 IF state[r] = "open" THEN Least(since[r] + 1, ResetTimeout) ELSE since[r]]
  /\ UNCHANGED <<pc, merchant, attempt, held, answer, state, failures, cache, unanswered>>

\* What the process does by itself once a call has begun.
Proceed(r) ==
  \/ CacheHit(r) \/ Admit(r) \/ Refuse(r) \/ RateLimited(r) \/ Granted(r)
  \/ AttemptTimesOut(r) \/ Store(r) \/ StoreFails(r) \/ DeadlinePasses(r)

Next ==
  \/ \E r \in Replica :
       \/ \E m \in Merchant : Start(r, m)
       \/ Proceed(r)
       \/ AttemptFails(r)
       \/ Trickles(r)
       \/ Malformed(r)
       \/ \E c \in Reply : Replied(r, c)
       \/ Restart(r)
  \/ \E m \in Merchant : Invalidate(m) \/ Expire(m)
  \/ Tick

Spec == Init /\ [][Next]_vars

(***************************************************************************)
(* The event loop runs a task that can run, and time passes: it only waits *)
(* for timers that are due.  Nothing is assumed of the provider, which may *)
(* never reply, or never come to the end of its reply.                     *)
(***************************************************************************)
FairSpec == Spec /\ SF_vars(Tick) /\ \A r \in Replica : WF_vars(Proceed(r))

-----------------------------------------------------------------------------
(* Properties. *)

Classified == [category : Reply \cup {"none"}, source : {"none", "llm", "rules"}]

CallTypeOK ==
  /\ pc \in [Replica -> {"idle", "reading", "limiting", "calling", "storing"}]
  /\ merchant \in [Replica -> Merchant]
  /\ attempt \in [Replica -> 1..MaxAttempts]
  /\ left \in [Replica -> 0..AttemptTime]
  /\ spent \in [Replica -> 0..Deadline]
  /\ held \in [Replica -> Reply \cup {"none"}]
  /\ answer \in [Replica -> Classified]

BreakerTypeOK ==
  /\ state \in [Replica -> {"closed", "open", "half_open"}]
  /\ failures \in [Replica -> 0..Threshold]
  /\ since \in [Replica -> 0..ResetTimeout]
  /\ unanswered \in [Replica -> 0..Threshold]

CacheTypeOK == cache \in [Merchant -> Reply \cup {"none"}]

\* The variables have their types: no call makes more attempts or lasts longer than it may.
TypeOK == CallTypeOK /\ BreakerTypeOK /\ CacheTypeOK

(***************************************************************************)
(* The breaker is closed exactly while it has counted fewer failures than  *)
(* the threshold: record_success, a half-open probe, a reply that is no    *)
(* use and a restart leave no state in which the next failure is miscounted *)
(* (breaker.py).                                                           *)
(***************************************************************************)
ClosedBelowThreshold == \A r \in Replica : state[r] = "closed" <=> failures[r] < Threshold

(***************************************************************************)
(* While a process's breaker is open, it has no call at the limiter or the *)
(* provider: the check before the awaits is not stale after them, because  *)
(* the loop is the breaker's only caller.                                  *)
(***************************************************************************)
QuietWhileOpen ==
  \A r \in Replica : state[r] = "open" => pc[r] \in {"idle", "reading"}

\* Once opened, the breaker admits no call before the reset timeout has passed.
OpenForResetTimeout ==
  [][\A r \in Replica :
       state[r] = "open" /\ pc'[r] = "limiting" => since[r] >= ResetTimeout]_vars

(***************************************************************************)
(* Whatever the provider names, only canonical categories leave a call or  *)
(* stay in the cache, whose entries are used without another check         *)
(* (category_slug is a foreign key).                                       *)
(***************************************************************************)
ServedIsCanonical ==
  /\ \A r \in Replica : answer[r] # NoAnswer => answer[r].category \in Slugs
  /\ \A m \in Merchant : cache[m] # None => cache[m] \in Slugs

\* A call that is about to store and return a category has validated it.
HeldIsCanonical == \A r \in Replica : pc[r] = "storing" => held[r] \in Slugs

\* The inductive invariant.
IInv ==
  /\ TypeOK
  /\ ClosedBelowThreshold
  /\ QuietWhileOpen
  /\ ServedIsCanonical
  /\ HeldIsCanonical

\* Every call ends, with an answer unless the process stops, even if the provider never replies.
EveryCallAnswers == \A r \in Replica : pc[r] # "idle" ~> pc[r] = "idle"

(***************************************************************************)
(* As many calls in a row left unanswered by the provider as the threshold *)
(* says, and the breaker is no longer closed (ARCHITECTURE.md, "after 5    *)
(* consecutive provider failures the breaker opens").                      *)
(***************************************************************************)
OutageOpensBreaker ==
  \A r \in Replica : unanswered[r] = Threshold => state[r] # "closed"

=============================================================================
