SPECIFICATION Spec
CONSTANTS
  Values <- MCValues
  Numbers <- MCNumbers
  Thresholds = {"0.15", "0.5"}
  OutOfRange = {"0", "99999999999"}
  DigitWords <- MCDigitWords
  Stoi <- MCStoi
  Hardware <- MCHardware
  WavFiles <- MCWavFiles
  FrameSamples = 4
  MaxArgs = 3
  MaxHits = 6
INVARIANTS
  StatusTells
  OptionsUsable
  DeviceAsAsked
