SPECIFICATION PortSpec
CONSTANTS
  Threads = {t1, t2}
  EC_MAXBUF = 2
  MaxTxn = 3
  MaxResends = 1
  NoThread = NoThread
  NoFrame = NoFrame
  Last = 3
  MaxTries = 2
  MaxUpsets = 2
  Blocks = {b1, b2}
  NoPost = NoPost
INVARIANT
  IndexAlwaysExclusive
CHECK_DEADLOCK FALSE
