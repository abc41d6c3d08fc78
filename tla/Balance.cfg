SPECIFICATION Spec
CONSTANTS
  Legs = {1, 2}
  G <- MCG
  Feet <- MCFeet
  S <- MCS
  fricRatio <- MCfricRatio
  Wanted <- MCWanted
  Digits = 10
INVARIANTS
  BestForces
  MinimumOfWorkingSet
  FactorsFit
  ChoiceIsComplete
