\* Liveness of the outbox: two workers, two events, a semaphore smaller than the batch.
SPECIFICATION FairSpec
CONSTANTS
  Event = {e1, e2}
  Worker = {w1, w2}
  Consumer = {}
  EventId = {}
  NoWorker = NoWorker
  Lease = 1
  MaxAttempts = 2
  BatchSize = 2
  Concurrency = 1
  MaxFaults = 1
PROPERTIES
  NothingIsStranded
CHECK_DEADLOCK FALSE
