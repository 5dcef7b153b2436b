SPECIFICATION Spec
CONSTANTS
  Threads = {rt}
  EC_MAXBUF = 4
  MaxSegment = 4
  MaxSegments = 4
  MaxSends = 1
  MaxUpsets = 0
  Networks <- MCOverlapNetworks
INVARIANT
  InputsGathered
CHECK_DEADLOCK FALSE
