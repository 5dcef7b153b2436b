CONSTANTS
  Wrap = 65536
  EC_MAXEEPBUF = 256
  ECT_SII_START = 64
  EC_MAXNAME = 2
  EC_MAXSLAVE = 5
  EC_DEFAULTRETRIES = 3
  Unit = 200
  Nudge = 1
  Span = 16
  MAX_VELOCITY = 20
  MAX_ACCELERATION = 10
  BRAKE_DECEL = 1
  Count = 400
  Kinds <- MCKinds
  Plans <- SubscriberPlans
SPECIFICATION Spec
PROPERTIES
  TargetReached
CHECK_DEADLOCK FALSE
