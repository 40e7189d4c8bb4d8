SPECIFICATION Spec
CONSTANTS
  WindowSize = 5
  WindowShift = 2
  LfrM = 5
  LfrN = 3
  MaxSamples = 30
  MelBins = 2
  VocabSize = 7
  CmvnFiles <- MCCmvnFiles
  Shapes <- MCShapes
  MaxCalls = 2
INVARIANTS
  FramesInWaveform
  RowsAreStacks
  AudioHeard
  CmvnCoversRows
  LogitsReadable
  ReleasedInOrder
