\* A retry request that races an approval, nothing failing.
SPECIFICATION Spec
CONSTANTS
  None = None
  a1 = a1
  w1 = w1
  w2 = w2
  scheduler = scheduler
  Allocations = {a1}
  Jobs = {w1, w2}
  Scheduler = scheduler
  MaxVersion = 1
  MaxRequests = 2
  MaxFaults = 0
SYMMETRY Symmetry
INVARIANT MismatchMeansTampering
