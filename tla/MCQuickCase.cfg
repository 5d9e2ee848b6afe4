\* A council of three, in turn or at once, and a polled run, under fair scheduling.
SPECIFICATION FairSpec
CONSTANTS
  Configs <- Runs
INVARIANTS TurnsSettledOnce TalliedInOrder OutcomeIsSound NoLostWakeup
PROPERTIES RunEnds
