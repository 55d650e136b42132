-------------------------- MODULE MCAlertPipeline --------------------------
(* Model-checking instance of AlertPipeline.                               *)
EXTENDS AlertPipeline, TLC

\* Every severity is throttled for two seconds.
TwoSeconds == [s \in Sevs |-> 2]

\* No severity is throttled: every hit escalates.
Unthrottled == [s \in Sevs |-> 0]

\* A filter that snoozes one severity and keeps the record.
OneSevFilter == [sev |-> CHOOSE s \in Sevs : TRUE, discard |-> FALSE]

\* Uids and workers are interchangeable.
Symmetry == Permutations(Uids) \cup Permutations(Workers)
=============================================================================
