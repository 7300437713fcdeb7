------------------------ MODULE TransactionLifecycle ------------------------
(***************************************************************************)
(* What the transactions service promises of one ledger row, whatever the  *)
(* number of replicas and whatever fails: a row is ingested once; it is    *)
(* enriched at most once, in one atomic step that also writes the row's    *)
(* outbox events; a user may correct its category at any time, and an      *)
(* enrichment that comes later keeps the correction.  Leases, claims,      *)
(* crashes and retries are not visible here: Enrichment.tla implements     *)
(* this specification.                                                     *)
(***************************************************************************)

CONSTANT Tx

VARIABLES tx,      \* the row: its status, category source and anomaly score
          outbox,  \* the event types stored for the row
          done     \* whether the row's one enrichment has taken place

vars == <<tx, outbox, done>>

Source == {"none", "llm", "rules", "user"}
Score == {"none", "low", "high"}
TxRow == [status : {"absent", "pending", "categorized"}, source : Source, score : Score]
Absent == [status |-> "absent", source |-> "none", score |-> "none"]
Pending == [status |-> "pending", source |-> "none", score |-> "none"]
EventType == {"categorized", "anomaly_flagged"}

\* Mutant: the row's status is not looked at.
CategorizedRowAlways(row, source, score) ==
  [status |-> "categorized", source |-> source, score |-> score]

\* categorize_transaction on a row: a row that is already categorized is left alone.
CategorizedRow(row, source, score) ==
  IF row.status = "categorized"
  THEN row
  ELSE [status |-> "categorized", source |-> source, score |-> score]

\* recategorize_by_user on a row: the score, if any, is kept.
CorrectedRow(row) == [status |-> "categorized", source |-> "user", score |-> row.score]

\* build_categorization_events: a missing score counts as 0, below any threshold.
EventsOf(row) ==
  {"categorized"} \cup (IF row.score = "high" THEN {"anomaly_flagged"} ELSE {})

-----------------------------------------------------------------------------
Init ==
  /\ tx = [t \in Tx |-> Absent]
  /\ outbox = [t \in Tx |-> {}]
  /\ done = [t \in Tx |-> FALSE]

Ingest(t) ==
  /\ tx[t] = Absent
  /\ tx' = [tx EXCEPT ![t] = Pending]
  /\ UNCHANGED <<outbox, done>>

Correct(t) ==
  /\ tx[t] # Absent
  /\ tx' = [tx EXCEPT ![t] = CorrectedRow(@)]
  /\ UNCHANGED <<outbox, done>>

Enrich(t) ==
  /\ tx[t] # Absent
  /\ ~done[t]
  /\ \E source \in {"llm", "rules"}, score \in {"low", "high"} :
       tx' = [tx EXCEPT ![t] = CategorizedRow(@, source, score)]
  /\ outbox' = [outbox EXCEPT ![t] = EventsOf(tx'[t])]
  /\ done' = [done EXCEPT ![t] = TRUE]

Next == \E t \in Tx : Ingest(t) \/ Correct(t) \/ Enrich(t)

Spec == Init /\ [][Next]_vars
=============================================================================
