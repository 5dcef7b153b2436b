CONSTANTS
  EC_MAXELIST = 2
  EC_MAXODLIST = 40
  EC_MAXNAME = 5
  MbxL = 80
  Room = 128
  MaxTrouble = 2
  ObjSize <- MCObjSize
  Plans <- MCPlans
SPECIFICATION Spec
INVARIANTS
  TypeOK
  CounterTells
  TransferredWhole
  FrameIntact
  Undisturbed
  LossRepaired
PROPERTIES
  LogSpec
  TransferEnds
CHECK_DEADLOCK FALSE
