---------------------------- MODULE MCClassifier ----------------------------
(* Instances of Classifier for TLC. *)
EXTENDS Classifier, Sequences

\* A specific category above a generic one.
TwoRules == << [slug |-> "fuel", needles |-> {"shell"}], [slug |-> "income", needles |-> {"refund"}] >>

\* Nothing known, and a description that both rules match.
Descriptions == {{}, {"shell", "refund"}}
=============================================================================
