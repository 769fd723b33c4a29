\* Two Send-Document requests in flight.
SPECIFICATION Spec
CONSTANTS
  alice = alice
  report = report
  letter = letter
  Queues = {q1}
  Users = {alice}
  Names = {report, letter}
  MaxJobs = 1
  Retention = 1
  InitialBackoff = 1
  MaxBackoff = 2
  Clients = {c1, c2}
  PayloadSlots = 2
  UserOf <- OneUser
  NameOf <- DifferentNames
  Operations = {"create", "send"}
  FinalStates = {"completed"}
  PrinterReportsURI = TRUE
  PrinterOmitsID = FALSE
  LateDelivery = FALSE
  StoreMayFail = FALSE
  MaxCrashes = 0
  FollowUpWindow = 1
  MaxTime = 0
SYMMETRY ClientSymmetry
INVARIANTS
  OneDocument
CHECK_DEADLOCK FALSE
