-------------------------- MODULE MCNotifications --------------------------
(* Instances of Notifications for TLC. *)
EXTENDS Notifications

OneBucket == [t \in {"t1"} |-> "m1"]

\* A categorized event and a record that cannot be used.
WithUnusable == <<"categorized", "unusable">>
OneTx == <<"t1", "t1">>
=============================================================================
