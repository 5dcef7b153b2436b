SPECIFICATION Spec
CONSTANTS
  Threads = {rt}
  EC_MAXBUF = 3
  MaxSegment = 4
  MaxSegments = 4
  MaxSends = 2
  MaxUpsets = 2
  Networks <- MCNetworks
INVARIANTS
  TypeOK
  DatagramsTile
  AlignedNotBroken
  FmmusMap
  CounterTellsFresh
  OutputsKept
  IndicesReturned
CHECK_DEADLOCK FALSE
