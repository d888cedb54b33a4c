\* Two clients, two workers and a channel for one id, with a restart and with
\* panics of the workers' own code.
SPECIFICATION Spec
CONSTANTS
  c1 = c1
  c2 = c2
  w1 = w1
  w2 = w2
  Clients <- MCClients
  Workers <- MCWorkers
  QueueCapacity = 1
  MaxRuns = 3
  MaxRestarts = 1
  InlinePanics = TRUE
INVARIANTS
  TypeOK
  UnfinishedJobsAreSomewhere
  ReceivedJobsAreKnown
  AnswersAreTrue
PROPERTIES
  ImplementsRunRegistry
  SentJobsFinish
  CallsEnd
CHECK_DEADLOCK FALSE
