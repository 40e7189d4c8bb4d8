SPECIFICATION Spec
CONSTANTS
  WindowHops <- MCWindowHops
  HopTicks <- MCHopTicks
  CooldownTicks <- MCCooldownTicks
  MaxBusy <- KeepsUp
  MaxHops = 9
INVARIANTS
  VadHearsEveryHopOnce
  BacklogBounded
  NoKeywordWithoutSpeech
  AtMostOneLateAction
  NormalExitRequested
PROPERTIES
  HitsSpaced
  StopHonoured
  EveryHopHeard
