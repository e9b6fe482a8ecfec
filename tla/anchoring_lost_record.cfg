\* An approval whose database mirror is lost, under a fair scheduler.
SPECIFICATION FairSpec
CONSTANTS
  None = None
  a1 = a1
  w1 = w1
  w2 = w2
  scheduler = scheduler
  Allocations = {a1}
  Jobs = {w1}
  Scheduler = scheduler
  MaxVersion = 1
  MaxRequests = 2
  MaxFaults = 1
PROPERTY AnchoredIsMirrored
