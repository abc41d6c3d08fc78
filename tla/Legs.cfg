SPECIFICATION Spec
CONSTANTS
  Legs = {0, 1}
  abadLinkLength <- MCabad
  hipLinkLength <- MChip
  kneeLinkLength <- MCknee
  pHip2B <- MCpHip2B
  Postures <- MCPostures
  Goals <- MCGoals
  Motions <- MCMotions
  Attitudes <- MCAttitudes
  Places <- MCPlaces
  Forces <- MCForces
  KpSwing <- MCKp
  KdSwing <- MCKd
  Sticks <- MCSticks
  rowMax <- MCMax
  pitchMax <- MCMax
  yawMax <- MCMax
  heightMax <- MCHeight
INVARIANTS
  GoalIsReached
  StandingFeetStandStill
  WorkReachesBody
  RatesHoldFeet
  FeetKeepTheirPlaces
