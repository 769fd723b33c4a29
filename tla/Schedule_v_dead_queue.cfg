\* The printer of q1 is unreachable, that of q2 always answers.
SPECIFICATION Spec
CONSTANTS
  q1 = q1
  q2 = q2
  Queues = {q1, q2}
  Rows = {1, 2, 3}
  QueueOf <- TwoQueues
  Limit = 1
  InitialBackoff = 1
  MaxBackoff = 3
  MaxInFlight = 1
  Answering = {q2}
PROPERTIES
  NoStarvation
