------------------------------ MODULE MCLedger ------------------------------
(* Instances of Ledger for TLC. *)
EXTENDS Ledger

CONSTANTS a1, u1, u2

OneOwner == [a \in {a1} |-> u1]
Amounts == {-1, 2}
=============================================================================
