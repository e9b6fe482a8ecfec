\* Two requests and the scheduler on one allocation, a fault and any outages.
SPECIFICATION MCSpec
CONSTANTS
  None = None
  a1 = a1
  w1 = w1
  w2 = w2
  scheduler = scheduler
  Allocations = {a1}
  Jobs = {w1, w2}
  Scheduler = scheduler
  MaxVersion = 1
  MaxRequests = 2
  MaxFaults = 1
INVARIANTS
  TypeOK
  JobsAreGrounded
  OneCurrentRecord
PROPERTIES
  ImplementsLedger
  EventuallyConfirmed
  JobsEnd
