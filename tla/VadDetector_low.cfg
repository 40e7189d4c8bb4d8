SPECIFICATION Spec
CONSTANTS
  Threshold <- LowThreshold
  EndOffset = 15
  Probabilities <- AroundLow
  ChunkSamples = 2
  ContextSamples = 1
  MinSilenceSamples = 5
  FeedSizes <- Sizes
  MaxFed = 12
  MaxFailures = 0
INVARIANT SilenceEndsSpeech
