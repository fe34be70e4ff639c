SPECIFICATION Spec
CONSTANTS
  Items <- MCItems
  Item0 = 0
  MaxRev = 2
  MaxDep = 2
  RangeArgs <- MCRangeArgs
  Imports <- MCImports
  Found <- MCFound
  MaxRun = 3
  MaxCrash = 1
CHECK_DEADLOCK FALSE
INVARIANTS WrittenIsValid Permanent CountIsExact UpdateIsComplete
