\* Safety of the outbox: two workers, two events, up to two faults.
SPECIFICATION Spec
CONSTANTS
  Event = {e1, e2}
  Worker = {w1, w2}
  Consumer = {c1}
  EventId = {i1}
  NoWorker = NoWorker
  Lease = 1
  MaxAttempts = 2
  BatchSize = 2
  Concurrency = 1
  MaxFaults = 2
SYMMETRY Symmetry
INVARIANTS
  TypeOK
  LogAgreesWithRow
  AttemptsCount
  OneTaskWithoutFaults
PROPERTIES
  SettledForGood
  ImplementsEventDelivery
CHECK_DEADLOCK FALSE
