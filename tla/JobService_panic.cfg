\* A panic in what runs on the worker task itself.
SPECIFICATION Spec
CONSTANTS
  c1 = c1
  c2 = c2
  w1 = w1
  w2 = w2
  Clients <- MCClients
  Workers <- MCWorkers
  QueueCapacity = 1
  MaxRuns = 3
  MaxRestarts = 0
  InlinePanics = TRUE
PROPERTIES
  RunningJobsFinish
CHECK_DEADLOCK FALSE
