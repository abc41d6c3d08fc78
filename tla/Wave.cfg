SPECIFICATION SwitchSpec
CONSTANTS
  Legs = {1, 2, 3, 4}
  Den = 4
  Slip = 2
  Cycle = 24
  Trot <- MCTrot
  Stand <- MCStand
  Gaits <- MCGaits
INVARIANTS
  StartsFromStand
  SomeLegCarries
  SwingTakesTime
  PhaseInRange
  SwingsFromWhereItStands
  SwitchEnds
PROPERTIES
  StillIsImmediate
  LiftsFromTheStart
