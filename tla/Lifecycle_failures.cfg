\* Registry writes that fail, printers that do not name the job, a process death,
\* and one payload slot that has to come back (fair, so no symmetry).
SPECIFICATION FairSpec
CONSTANTS
  alice = alice
  report = report
  letter = letter
  Queues = {q1}
  Users = {alice}
  Names = {report, letter}
  MaxJobs = 1
  Retention = 0
  InitialBackoff = 1
  MaxBackoff = 2
  Clients = {c1, c2}
  PayloadSlots = 1
  UserOf <- OneUser
  NameOf <- DifferentNames
  Operations = {"print", "create", "send"}
  FinalStates = {}
  PrinterReportsURI = TRUE
  PrinterOmitsID = TRUE
  LateDelivery = TRUE
  StoreMayFail = TRUE
  MaxCrashes = 1
  FollowUpWindow = 1
  MaxTime = 1
INVARIANTS
  ReservedIsOwned
  AcceptedIsNotRejected
  SlotsMatchHandlers
PROPERTIES
  BusyEnds
CHECK_DEADLOCK FALSE
