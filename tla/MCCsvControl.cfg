SPECIFICATION Spec
CONSTANTS
  SlaveCount = 2
  StepCmd = 2
  StepMax = 3
  CruiseSpeed <- MCCruiseSpeed
  MaxUpsets = 2
INVARIANTS
  TypeOK
  VelocityNeedsEnable
  ConnectedIsAnswering
PROPERTIES
  CommandPaced
  EveryMotorSettles
