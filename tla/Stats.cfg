\* Two senders, one job, a queue and batches of two records, one midnight,
\* the death of the process or a batch that fails for good.
SPECIFICATION Spec
CONSTANTS
  Unknown = Unknown
  urf = urf
  Routes = {urf}
  Senders = {s1, s2}
  JobIDs = {1}
  Reports <- SmallReports
  QueueSize = 2
  BatchSize = 2
  DetailRetention = 4
  RollupRetention = 2
  CPU = TRUE
  MaxRecords = 3
  LastDay = 1
  MaxFaults = 2
  Attempts = 2
  MaxRestarts = 1
INVARIANTS
  TypeOK
  NothingSilentlyLost
  CountedOnce
  RollupsMatchJobs
  DropsSurviveClose
PROPERTIES
  JobFactsOnlyGrow
  RecordsSettle
CHECK_DEADLOCK FALSE
