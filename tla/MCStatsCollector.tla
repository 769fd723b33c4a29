-------------------------- MODULE MCStatsCollector --------------------------
(* Small instances of StatsCollector for TLC. *)
EXTENDS StatsCollector

CONSTANT urf

Report(state, observed, accepted, cancel, documents, sheets, route) ==
  [state |-> state, observed |-> observed, accepted |-> accepted,
   cancelAccepted |-> cancel, documents |-> documents, sheets |-> sheets,
   route |-> route]

\* A reserved row, a submission that failed after its pages were counted, a job
\* whose cancellation was accepted and that the printer completed nevertheless.
SmallReports ==
  {Report("open", Unknown, FALSE, FALSE, 0, Unknown, urf),
   Report("failed", Unknown, FALSE, FALSE, 1, 1, Unknown),
   Report("open", "completed", TRUE, TRUE, 0, 2, Unknown)}
=============================================================================
