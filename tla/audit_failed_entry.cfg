\* An audit entry, a request and the scheduler: Failed entries stay Failed.
SPECIFICATION FairSpec
CONSTANTS
  None = None
  v1 = v1
  w1 = w1
  scheduler = scheduler
  Versions = {}
  MaxEntries = 1
  Jobs = {w1}
  Scheduler = scheduler
  Batch = 1
  MaxInputs = 1
PROPERTIES
  FailedEntriesRecover
CHECK_DEADLOCK FALSE
