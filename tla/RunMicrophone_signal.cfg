SPECIFICATION Spec
CONSTANTS
  WindowHops <- MCWindowHops
  HopTicks <- MCHopTicks
  CooldownTicks <- MCCooldownTicks
  MaxBusy <- KeepsUp
  MaxHops = 4
PROPERTY SignalStops
