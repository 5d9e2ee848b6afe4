SPECIFICATION ReadSpec
CONSTANTS
  Readers = {r1, r2, r3}
  MaxTurns = 2
  MaxReadBytes = 2
  MaxReads = 3
  MaxBytes = 4
INVARIANTS BudgetExact
PROPERTIES ServedOnlyWhileOpen
