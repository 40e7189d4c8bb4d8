SPECIFICATION Spec
CONSTANTS
  Tokens <- MCTokens
  Unit = 50
  Distributions <- MCFaintRows
  SearchableTokens <- MCSearchable
  Keywords <- MCKeywords
  ScoreBeamSize = 3
  MinTokenProb = 0
  PathBeamSize = 40
  ToleranceInverse <- ShippedTolerance
  MinScore = 7
  NumFrames = 5
INVARIANT RepeatsFollowed
