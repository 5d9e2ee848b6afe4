SPECIFICATION Spec
CONSTANTS
  Policies <- Trials
  Damages = {1}
INVARIANTS VerdictSound JurySelectedFairly
PROPERTIES TrialEnds
\* A trial that is over takes no further step.
CHECK_DEADLOCK FALSE
