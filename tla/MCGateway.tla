----------------------------- MODULE MCGateway -----------------------------
(* Instances of Gateway for TLC. *)
EXTENDS Gateway, TLC

CONSTANTS q1, q2

\* Requests are alike.
Alike == Permutations(Request)

\* One address in two spellings.
OneAddress == [s \in {"ada", "Ada"} |-> "ada"]
=============================================================================
