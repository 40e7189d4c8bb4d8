SPECIFICATION Spec
CONSTANTS
  Missing = Missing
  TokenFiles <- MCTokenFiles
  Lexicons <- MCLexicons
  Csvs <- MCCsvs
  VocabSize = 5
INVARIANTS
  FilterHarmless
  DecoderUsable
  ShownAsMeant
  RefusedForCause
