SPECIFICATION FairSpec
CONSTANTS
  Workers = {w1, w2}
  Rows = {1, 2, 3}
  KafkaRows = {2}
  BatchSize = 2
  MaxRetries = 2
  NotifyAttempts = 2
  MaxRollbacks = 1
CHECK_DEADLOCK FALSE
INVARIANTS
  TypeOK
  OneWorkerPerRow
  SentWasDelivered
  FailedSpentBudget
  DuplicatesExplained
PROPERTIES
  EveryRowSettles
  ImplementsDelivery
  NoCopyAfterSuccess
