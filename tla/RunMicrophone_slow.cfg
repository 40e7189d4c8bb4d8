SPECIFICATION Spec
CONSTANTS
  WindowHops <- MCWindowHops
  HopTicks <- MCHopTicks
  CooldownTicks <- MCCooldownTicks
  MaxBusy <- FallsBehind
  MaxHops = 9
PROPERTY AdjacentWindowsActOnce
