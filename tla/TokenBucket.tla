---------------------------- MODULE TokenBucket ----------------------------
(***************************************************************************)
(* The rate limit of one user and tier at the gateway: a token bucket in   *)
(* Redis that all replicas share (libs/llm_client/rate_limit.py, the Lua   *)
(* script) and, while Redis cannot be reached, a bucket of its own in each *)
(* replica (services/gateway/rate_limit.py).                               *)
(*                                                                         *)
(* The script is atomic, but the time it works with is the caller's: it is *)
(* read from the replica's own wall clock, before the request travels to   *)
(* Redis.  Calls may therefore arrive with times in any order; all that is *)
(* assumed is that they are at most MaxSkew apart from `time', the slowest *)
(* clock.  Tokens are counted in fractions, so that the tokens of a second *)
(* are a whole number: a request takes Cost of them.                       *)
(***************************************************************************)
EXTENDS Integers

CONSTANTS Replica,   \* processes of the gateway
          Capacity,  \* capacity
          Refill,    \* refill_per_second
          Cost,      \* one token
          MaxSkew,   \* how far ahead of the slowest clock a call's time can be
          Expiry,    \* EXPIRE of the bucket
          LastSecond \* bounds the model

ASSUME BucketAssumption ==
  Refill \in Nat \ {0} /\ Cost \in Nat \ {0} /\ Capacity \in Nat /\ Cost <= Capacity
ASSUME TimeAssumption == MaxSkew \in Nat /\ LastSecond \in Nat
\* A bucket nobody has asked for until it expires has filled up.
ASSUME ExpiryAssumption == Expiry \in Nat /\ Refill * (Expiry - 2 * MaxSkew) >= Capacity

VARIABLES time,        \* the slowest clock
          shared,      \* the bucket in Redis
          touched,     \* when the script last ran
          local,       \* the buckets in the replicas
          windowStart, \* history: the beginning of the time looked at
          taken,       \* history: tokens taken from the shared bucket since then
          localTaken   \* history: tokens taken from each local bucket since then

bucketVars == <<time, shared, touched, local, windowStart, taken, localTaken>>

\* A hash with tokens and updated_at, or no such key (which counts as a full bucket).
Absent == [exists |-> FALSE, tokens |-> Capacity, updated |-> 0]

BucketInit ==
  /\ time = 0
  /\ shared = Absent
  /\ touched = 0
  /\ local = [r \in Replica |-> Absent]
  /\ windowStart = 0
  /\ taken = 0
  /\ localTaken = [r \in Replica |-> 0]

-----------------------------------------------------------------------------
(* A bucket. *)

RefilledNeverBack(b, now) ==
  IF ~b.exists THEN Capacity
  ELSE LET sum == b.tokens + (IF now > b.updated THEN now - b.updated ELSE 0) * Refill
       IN IF sum <= Capacity THEN sum ELSE Capacity

\* The tokens in b at `now'.
Refilled(b, now) ==
  IF ~b.exists THEN Capacity
  ELSE LET sum == b.tokens + (now - b.updated) * Refill
       IN IF sum <= Capacity THEN sum ELSE Capacity

Allowed(b, now) == Refilled(b, now) >= Cost

TookWithoutPaying(b, now) == [exists |-> TRUE, tokens |-> Refilled(b, now), updated |-> now]

TookThoughRefused(b, now) ==
  [exists |-> TRUE, tokens |-> Refilled(b, now) - Cost, updated |-> now]

\* The bucket after a request at `now', allowed or not.
Took(b, now) ==
  [exists  |-> TRUE,
   tokens  |-> IF Allowed(b, now) THEN Refilled(b, now) - Cost ELSE Refilled(b, now),
   updated |-> now]

Paid(b, now) == IF Allowed(b, now) THEN Cost ELSE 0

RetryAfterRoundsDown(tokens) == (Cost - tokens) \div Refill

\* retry_after of the script, with tokens left: math.ceil((requested - tokens) / refill)
RetryAfter(tokens) == (Cost - tokens + Refill - 1) \div Refill

\* retry_after of the local bucket: int(deficit / refill) + 1
LocalRetryAfter(tokens) == (Cost - tokens) \div Refill + 1

-----------------------------------------------------------------------------
(* Requests of the user. *)

\* The script runs for a call whose clock read `now'.
RunScript(now) ==
  /\ shared' = Took(shared, now)
  /\ taken' = taken + Paid(shared, now)
  /\ touched' = time

AskLocal(r) ==
  /\ local' = [local EXCEPT ![r] = Took(local[r], time)]
  /\ localTaken' = [localTaken EXCEPT ![r] = localTaken[r] + Paid(local[r], time)]

\* Redis answers: the shared bucket decides.
Check(now) ==
  /\ RunScript(now)
  /\ UNCHANGED <<time, local, windowStart, localTaken>>

\* RateLimiterUnavailable: Redis was not reached, and the replica's own bucket decides.
CheckDegraded(r) ==
  /\ AskLocal(r)
  /\ UNCHANGED <<time, shared, touched, windowStart, taken>>

\* The same, but the script ran and only its answer was lost.
CheckAnswerLost(r, now) ==
  /\ RunScript(now)
  /\ AskLocal(r)
  /\ UNCHANGED <<time, windowStart>>

-----------------------------------------------------------------------------
(* Around the requests. *)

Expire ==
  /\ shared.exists
  /\ time >= touched + Expiry
  /\ shared' = Absent
  /\ UNCHANGED <<time, touched, local, windowStart, taken, localTaken>>

\* A replica starts again without its bucket.
Restart(r) ==
  /\ local' = [local EXCEPT ![r] = Absent]
  /\ localTaken' = [localTaken EXCEPT ![r] = 0]
  /\ UNCHANGED <<time, shared, touched, windowStart, taken>>

Second ==
  /\ time < LastSecond
  /\ time' = time + 1
  /\ UNCHANGED <<shared, touched, local, windowStart, taken, localTaken>>

\* The time looked at begins, at any moment: what holds of it holds of every window.
OpenWindow ==
  /\ windowStart' = time
  /\ taken' = 0
  /\ localTaken' = [r \in Replica |-> 0]
  /\ UNCHANGED <<time, shared, touched, local>>

Clock == time..(time + MaxSkew)

BucketNext ==
  \/ \E now \in Clock : \/ Check(now)
                        \/ \E r \in Replica : CheckAnswerLost(r, now)
  \/ \E r \in Replica : CheckDegraded(r) \/ Restart(r)
  \/ Expire
  \/ Second
  \/ OpenWindow

BucketSpec == BucketInit /\ [][BucketNext]_bucketVars

-----------------------------------------------------------------------------
(* Properties. *)

Bucket == [exists : BOOLEAN, tokens : Int, updated : Nat]

\* The variables have their types, and no bucket holds more than its capacity.
BucketTypeOK ==
  /\ time \in 0..LastSecond
  /\ touched \in 0..time
  /\ windowStart \in 0..time
  /\ taken \in Nat
  /\ localTaken \in [Replica -> Nat]
  /\ shared \in Bucket
  /\ local \in [Replica -> Bucket]
  /\ shared.tokens <= Capacity
  /\ \A r \in Replica : local[r].tokens <= Capacity

(***************************************************************************)
(* In any window of time, whatever the replicas' clocks say and in which   *)
(* order their calls arrive, the shared bucket gives out no more than its  *)
(* capacity and what is refilled in the window, but for the skew of the    *)
(* clocks.  An expired bucket is no way around it.                         *)
(***************************************************************************)
SharedLimit == taken <= Capacity + Refill * (time - windowStart + MaxSkew)

\* The same of the bucket of each running replica: while Redis is away the limit stays one.
LocalLimit == \A r \in Replica : localTaken[r] <= Capacity + Refill * (time - windowStart)

(***************************************************************************)
(* A call with an older time takes tokens out of the bucket, even below    *)
(* zero, but never more than are refilled in MaxSkew: a user is shut out   *)
(* no longer than the clocks are apart.                                    *)
(***************************************************************************)
SkewCostBounded == shared.tokens >= -(Refill * MaxSkew)

(***************************************************************************)
(* A refused user who waits retry_after seconds by the clock of the        *)
(* refusal is admitted if nobody else asks, and the script's hint is never *)
(* a second too long.                                                      *)
(***************************************************************************)
RetryAfterSuffices ==
  /\ shared.exists /\ shared.tokens < Cost =>
       LET wait == RetryAfter(shared.tokens)
       IN /\ Allowed(shared, shared.updated + wait)
          /\ ~Allowed(shared, shared.updated + wait - 1)
  /\ \A r \in Replica : local[r].exists /\ local[r].tokens < Cost =>
       Allowed(local[r], local[r].updated + LocalRetryAfter(local[r].tokens))

-----------------------------------------------------------------------------
(* What the limits rest on. *)

\* The times a call may still carry.
Ahead == time..(LastSecond + MaxSkew)

\* What was taken from b, and what b will hold at any time to come, is within the limit of that time.
Funded(b, paid) ==
  \A now \in Ahead : paid + Refilled(b, now) <= Capacity + Refill * (now - windowStart)

\* The shared bucket was last written at about the time the script last ran ...
UpdatedRecently == shared.exists => shared.updated <= touched + MaxSkew

\* ... and by the slowest clock its debt is no more than the skew.
DebtBounded ==
  shared.exists => shared.tokens + (time - shared.updated) * Refill >= -(Refill * MaxSkew)

\* The inductive invariant.
BucketIInv ==
  /\ BucketTypeOK
  /\ Funded(shared, taken)
  /\ \A r \in Replica : Funded(local[r], localTaken[r])
  /\ UpdatedRecently
  /\ DebtBounded
  /\ SkewCostBounded
  /\ SharedLimit
  /\ LocalLimit

=============================================================================
