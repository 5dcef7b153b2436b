SPECIFICATION Spec
CONSTANTS
  Threads = {rt, main}
  EC_MAXBUF = 4
  MaxSegment = 4
  MaxSegments = 4
  MaxSends = 2
  MaxUpsets = 0
  Networks <- MCDriveNetworks
INVARIANT
  ReadsWhatItSent
CHECK_DEADLOCK FALSE
