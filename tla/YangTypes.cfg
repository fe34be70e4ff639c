SPECIFICATION UpdateSpec
CONSTANTS
  BuiltIns <- MCBuiltIns
  Statements <- MCStatements
  Texts <- MCTexts
  Graphs <- MCGraphs
  Lists <- MCLists
  Updates <- MCUpdates
  IntMin <- MCIntMin
  MinWord <- MCMinWord
  MaxWord = 20
  IntMax = 3
  MaxLength = 4
  MaxEnum = 3
  MaxDepth = 2
CHECK_DEADLOCK FALSE
INVARIANTS RestrictionsNarrow FittingAccepted DefaultsFit OldDataStaysValid
