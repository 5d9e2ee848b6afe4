SPECIFICATION CaseSpec
CONSTANTS
  Setups <- BenchSetups
  Imports <- MCImports
  MaxExhibits = 1
  MaxDispositive = 1
\* The case stops when it is over.
CHECK_DEADLOCK FALSE
INVARIANT BenchCasesAreDecided
