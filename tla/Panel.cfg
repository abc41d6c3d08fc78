SPECIFICATION PanelSpec
CONSTANTS
  Duration = 1
  StickMax = 1
  Keys = {"1", "2", "4", "space", "up"}
INVARIANTS
  FallReachesMotors
  InheritedStickOnlyByRace
PROPERTY
  ObeysSupervisor
