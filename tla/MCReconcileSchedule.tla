------------------------- MODULE MCReconcileSchedule ------------------------
(* Small instances of ReconcileSchedule for TLC. *)
EXTENDS ReconcileSchedule

CONSTANTS q1, q2

\* Rows 1 and 2 wait for the printer of q1, row 3 for that of q2.
TwoQueues == [r \in Rows |-> IF r <= 2 THEN q1 ELSE q2]
=============================================================================
