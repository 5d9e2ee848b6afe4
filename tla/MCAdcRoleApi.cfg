SPECIFICATION RoleFairSpec
CONSTANTS
  Agenda <- Trial
  MaxAttempts = 2
  MaxTurns = 9
  MaxSent = 2
  FaultSets <- Troubles
INVARIANTS CertificateVerifies OneOutcomePerTurn
PROPERTIES NothingLate RunEnds
\* A case that is closed takes no further step.
CHECK_DEADLOCK FALSE
