SPECIFICATION Spec
CONSTANTS
  Duration = 2
  StickMax = 1
  Keys = {"1", "2", "3", "4", "5", "0", "9", "8", "up"}
INVARIANTS
  TypeOK
  CommandMatchesState
  WaveMatchesState
PROPERTY
  CallsWaveGenerator
