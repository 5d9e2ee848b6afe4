SPECIFICATION CaseFairSpec
CONSTANTS
  Setups <- MCSetups
  Imports <- MCImports
  MaxExhibits = 2
  MaxDispositive = 1
\* The case stops when it is over.
CHECK_DEADLOCK FALSE
INVARIANT RecordComplete
PROPERTY CaseEnds
