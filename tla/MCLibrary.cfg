CONSTANTS
  Data <- MCData
  Texts <- MCTexts
  CodeKeys <- MCCodeKeys
  Pieces = {1, 3, 53, 64}
  MaxMessage = 130
  Keys128 <- MCKeys128
  Keys256 <- MCKeys256
  Blocks <- MCBlocks
  Chains <- MCChains
  Streams <- MCStreams
  Half = 1
  CurveN = 197
  Lefts <- MCLefts
  Rights <- MCRights
  P = 199
  B = 6
  N = 197
  G <- MCG
  Keys = {2, 3, 4, 5, 31, 64, 98, 99, 127, 128, 150, 193, 194, 195, 199, 255}
  Draws = {5, 64, 255}
  Hashes = {0, 77, 254}
SPECIFICATION LibSpec
INVARIANTS  TextRight AlgorithmsRight
PROPERTIES  EvictsOldestOnlyProp
CHECK_DEADLOCK FALSE
