SPECIFICATION AuditSpec
CONSTANTS
  NaN = NaN
  Commands <- MCCommands
  Positions = {1}
  Velocities = {1}
  Lower = 0
  Upper = 2
  VelocityLimit = 1
  EffortLimit = 2
  PosStop = 9
  VelStop = 8
INVARIANTS
  EffortSafe
PROPERTY
  ExactUnlessRaced
  KeepsPromise
CONSTRAINT FewCommands
