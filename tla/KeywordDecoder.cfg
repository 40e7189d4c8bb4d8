SPECIFICATION Spec
CONSTANTS
  Tokens <- MCTokens
  Unit = 10
  Distributions <- MCRows
  SearchableTokens <- MCSearchable
  Keywords <- MCKeywords
  ScoreBeamSize = 3
  MinTokenProb = 1
  PathBeamSize = 6
  ToleranceInverse = 20
  MinScore = 3
  NumFrames = 5
INVARIANTS
  TypeOK
  BeamIsCtc
  BeamWithinCtc
  EmissionsFaithful
PROPERTIES
  SpotterKept
