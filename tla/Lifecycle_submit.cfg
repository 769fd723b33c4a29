\* Two queues whose printers number their jobs alike, two submissions at once,
\* late delivery and a process death.  The first job has no name.
SPECIFICATION Spec
CONSTANTS
  alice = alice
  report = report
  letter = letter
  Queues = {q1, q2}
  Users = {alice}
  Names = {report, letter}
  MaxJobs = 2
  Retention = 0
  InitialBackoff = 1
  MaxBackoff = 2
  Clients = {c1, c2}
  PayloadSlots = 2
  UserOf <- OneUser
  NameOf <- FirstUnnamed
  Operations = {"print"}
  FinalStates = {"completed"}
  PrinterReportsURI = TRUE
  PrinterOmitsID = FALSE
  LateDelivery = TRUE
  StoreMayFail = FALSE
  MaxCrashes = 1
  FollowUpWindow = 1
  MaxTime = 0
SYMMETRY ClientSymmetry
INVARIANTS
  TypeOK
  MappedToAlike
PROPERTIES
  CollisionsAreAlike
CHECK_DEADLOCK FALSE
