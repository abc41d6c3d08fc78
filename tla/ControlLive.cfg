SPECIFICATION FairSpec
CONSTANTS
  Duration = 1
  StickMax = 1
  Keys = {"1", "2", "3", "4", "9"}
PROPERTIES
  FallenSettlesInPassive
  HeldCommandWins
  HeldCommandSettles
