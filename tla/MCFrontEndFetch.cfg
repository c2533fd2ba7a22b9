SPECIFICATION Spec
CONSTANTS
  MinInt <- MCMinInt
  MaxInt = 7
  Infinity <- MCInfinity
  FloatPositions <- MCFloatPositions
  Nearest <- MCNearest
  Words = {"x", "y"}
  TextRank <- MCTextRank
  Folded <- MCFolded
  SomeValues <- MCValues
  RowValues <- MCRowValues
  Schemas <- MCSchemas
  Exprs <- MCExprs
  Subs <- MCSubs
  Strings <- MCStrings
  Patterns <- MCPatterns
  Creates <- MCCreates
  Froms <- MCFroms
  Contents <- MCContents
  RowStatements <- MCRowStatements
  Numerals <- MCNumerals
INVARIANT ValuesMean
