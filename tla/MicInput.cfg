SPECIFICATION Spec
CONSTANTS
  HopSamples <- MCHop
  WindowSamples <- MCWindow
  FailedOpenLeaves = {"null", "invalid"}
  MaxCaptured = 12
  MaxStarts = 2
INVARIANTS
  TypeOK
  StreamIntact
  AtMostOneLateWindow
  NoLostWakeup
  CallbackHasQueue
  NoHalfOpenDevice
PROPERTIES
  WindowsPromised
  ReadWindowStops
  WindowArrives
  StopEnds
