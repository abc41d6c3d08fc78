SPECIFICATION Spec
CONSTANTS
  dt <- MCdt
  Keep <- MCKeep
  vxLim <- MCvxLim
  wyawLim <- MCwyawLim
  vSlack <- MCvSlack
  pSlack <- MCpSlack
  kx <- MCk
  kyaw <- MCk
  Tstance = 2
  Tswing = 4
  Slip = 3
  Motions <- MCMotions
  Facings <- MCFacings
  Sticks <- MCSticks
  Twists <- MCTwists
  Leftovers <- MCLeftovers
  Ticks = 3
INVARIANTS
  FootholdStands
  HoldsItsPlace
CHECK_DEADLOCK FALSE
