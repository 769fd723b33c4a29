\* Two jobs, two printer job numbers; time enough for a job to
\* terminate, expire, and for a backoff to double and hit its cap.
SPECIFICATION Spec
CONSTANTS
  Queues = {q1}
  Users = {}
  Names = {}
  MaxJobs = 2
  FinalStates = {"completed"}
  MaxUpstream = 2
  MaxDocuments = 1
  MaxTime = 2
  Retention = 1
  InitialBackoff = 1
  MaxBackoff = 3
INVARIANTS
  TypeOK
  UniqueMapping
  ClocksFollowUncertainty
  StampFollowsTerminal
  BackoffBounded
PROPERTIES
  TerminalIsFinal
  MappingIsStable
  ImplementsLedger
CHECK_DEADLOCK FALSE
