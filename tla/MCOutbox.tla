------------------------------ MODULE MCOutbox ------------------------------
(* Instances of Outbox for TLC. *)
EXTENDS Outbox

CONSTANTS r1, r2, a1

TwoClocks == [r \in {r1, r2} |-> IF r = r1 THEN 0 ELSE 1]

\* Two events of one account, inserted by different transactions.
OneEach == [e \in 1..2 |-> IF e = 1 THEN "b1" ELSE "b2"]
OneAccount == [e \in 1..2 |-> a1]
=============================================================================
