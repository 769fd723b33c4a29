\* A cancellation and the maintenance pass after it.
SPECIFICATION Spec
CONSTANTS
  alice = alice
  report = report
  letter = letter
  Queues = {q1}
  Users = {alice}
  Names = {report, letter}
  MaxJobs = 1
  Retention = 1
  InitialBackoff = 1
  MaxBackoff = 2
  Clients = {c1}
  PayloadSlots = 1
  UserOf <- OneUser
  NameOf <- DifferentNames
  Operations = {"print", "cancel"}
  FinalStates = {"completed"}
  PrinterReportsURI = TRUE
  PrinterOmitsID = FALSE
  LateDelivery = FALSE
  StoreMayFail = FALSE
  MaxCrashes = 0
  FollowUpWindow = 1
  MaxTime = 0
PROPERTIES
  CancellationsFollowedUp
CHECK_DEADLOCK FALSE
