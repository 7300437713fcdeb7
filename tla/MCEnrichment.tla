---------------------------- MODULE MCEnrichment ----------------------------
(* Instances of Enrichment for TLC. *)
EXTENDS Enrichment

CONSTANTS w1, w2, w3

\* Replicas whose clocks disagree: the second runs 3 s fast, the third 12 s, more than a lease.
ThreeClocks == [w \in {w1, w2, w3} |-> IF w = w1 THEN 0 ELSE IF w = w2 THEN 3 ELSE 12]
=============================================================================
