------------------------------ MODULE WorkQueue ------------------------------
(***************************************************************************)
(* The leased work rows of libs/db/work.py: categorization jobs and outbox *)
(* events share the columns of DurableWorkMixin and the four statements of *)
(* WorkRepository.  A row is a value here; the modules that own the tables *)
(* apply these operators to the rows they keep.                            *)
(*                                                                         *)
(* Time is kept relative.  available_at and locked_until are stored as the *)
(* seconds that are left until them (0 once they are past), measured on    *)
(* the slowest replica's clock, and Elapse lets one second go by.  Every   *)
(* comparison in the code is made on the clock of the replica that makes   *)
(* it (datetime.now(UTC) in the process, not in the database), so each     *)
(* operator takes the number of seconds its caller's clock is ahead.       *)
(***************************************************************************)
EXTENDS Integers

CONSTANTS LeaseSeconds,  \* the lease of a claim, in seconds
          MaxAttempts    \* claims a row may have before it is parked (10 in the code)

ASSUME LeaseAssumption == LeaseSeconds \in Nat \ {0}
ASSUME AttemptsAssumption == MaxAttempts \in Nat \ {0}

(***************************************************************************)
(* lock_token is a fresh id for every claim.  Every claim also increments  *)
(* attempts, so the number a claim sets attempts to names its token.       *)
(***************************************************************************)
NoToken == 0
Token == 1..MaxAttempts

WorkRow == [completed : BOOLEAN,
            attempts  : 0..MaxAttempts,
            wait      : Nat,                \* seconds until available_at
            lease     : Nat,                \* seconds until locked_until
            token     : Token \cup {NoToken}]

\* A row as it is inserted by a replica whose clock is `ahead` seconds fast.
NewRow(ahead) == [completed |-> FALSE, attempts |-> 0, wait |-> ahead,
                  lease |-> 0, token |-> NoToken]

Smaller(a, b) == IF a <= b THEN a ELSE b

\* The delay before a failed row may be claimed again: 2 ^ attempts, capped at 60 s.
BackoffTable == <<2, 4, 8, 16, 32, 60>>
Backoff(attempts) == BackoffTable[Smaller(attempts, 6)]

ASSUME BackoffAssumption == \A n \in 1..10 : Backoff(n) = Smaller(2 ^ Smaller(n, 6), 60)

\* Mutant: an expired lease is not taken over.
EligibleUnclaimed(row, ahead) ==
  /\ ~row.completed
  /\ row.attempts < MaxAttempts
  /\ row.wait <= ahead
  /\ row.token = NoToken

\* The condition `eligible` of claim().
Eligible(row, ahead) ==
  /\ ~row.completed
  /\ row.attempts < MaxAttempts
  /\ row.wait <= ahead
  /\ row.lease <= ahead

\* The UPDATE of claim().
Claimed(row, ahead) ==
  [completed |-> row.completed, attempts |-> row.attempts + 1, wait |-> row.wait,
   lease |-> LeaseSeconds + ahead, token |-> row.attempts + 1]

\* Mutant: any live claim will do.
OwnsLeased(row, token, ahead) == ~row.completed /\ row.lease > ahead

\* owns(): the claim's token is current and its lease has not run out.
Owns(row, token, ahead) ==
  /\ row.token = token
  /\ ~row.completed
  /\ row.lease > ahead

\* complete(): an UPDATE that matches the row only by the claim's token.
Completed(row, token) ==
  IF row.token = token
  THEN [completed |-> TRUE, attempts |-> row.attempts, wait |-> row.wait,
        lease |-> 0, token |-> NoToken]
  ELSE row

\* Mutant: the UPDATE does not look at the token.
RetriedByAnyone(row, token, ahead) ==
  IF ~row.completed
  THEN [completed |-> row.completed, attempts |-> row.attempts,
        wait |-> Backoff(token) + ahead, lease |-> 0, token |-> NoToken]
  ELSE row

\* retry(): an UPDATE that matches an uncompleted row by the claim's token.
Retried(row, token, ahead) ==
  IF row.token = token /\ ~row.completed
  THEN [completed |-> row.completed, attempts |-> row.attempts,
        wait |-> Backoff(token) + ahead, lease |-> 0, token |-> NoToken]
  ELSE row

\* One second passes.
Sooner(seconds) == IF seconds > 0 THEN seconds - 1 ELSE 0
Elapse(row) ==
  [completed |-> row.completed, attempts |-> row.attempts, wait |-> Sooner(row.wait),
   lease |-> Sooner(row.lease), token |-> row.token]

\* Out of attempts: nothing claims the row again without an operator.
Exhausted(row) == ~row.completed /\ row.attempts = MaxAttempts
=============================================================================
