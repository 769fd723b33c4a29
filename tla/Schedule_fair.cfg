\* Three rows of two queues that always answer, one candidate per pass.
SPECIFICATION Spec
CONSTANTS
  q1 = q1
  q2 = q2
  Queues = {q1, q2}
  Rows = {1, 2, 3}
  QueueOf <- TwoQueues
  Limit = 1
  InitialBackoff = 1
  MaxBackoff = 3
  MaxInFlight = 1
  Answering = {q1, q2}
INVARIANTS
  TypeOK
PROPERTIES
  TurnComesNearer
  NoStarvation
