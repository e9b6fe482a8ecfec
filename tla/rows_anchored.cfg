\* A version, two entries fetched one at a time, a request, the scheduler.
SPECIFICATION FairSpec
CONSTANTS
  None = None
  v1 = v1
  w1 = w1
  scheduler = scheduler
  Versions = {v1}
  MaxEntries = 2
  Jobs = {w1}
  Scheduler = scheduler
  Batch = 1
  MaxInputs = 3
INVARIANTS
  TypeOK
  ConfirmedOnLedger
PROPERTIES
  VersionsSettle
  EntriesSettle
  CallsEnd
CHECK_DEADLOCK FALSE
