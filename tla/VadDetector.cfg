SPECIFICATION Spec
CONSTANTS
  Threshold <- DefaultThreshold
  EndOffset = 15
  Probabilities <- AroundDefault
  ChunkSamples = 2
  ContextSamples = 1
  MinSilenceSamples = 5
  FeedSizes <- Sizes
  MaxFed = 12
  MaxFailures = 1
INVARIANTS
  TypeOK
  ModelHearsStream
  SpeechActiveExact
PROPERTY GateKept
