SPECIFICATION FairSpec
CONSTANTS
  CouncilSize = 2
  RequiredVotes = 2
  MaxRounds = 1
  MaxEvidencePerSide = 0
  MaxExhibitsPerFiling = 0
  MaxExhibitsPerSide = 0
  Catalog = {}
  NewEvidence = {}
  ExhibitLists <- NoExhibits
  FailureReasons = {"deadline_expired", "attempts_exhausted", "agent_exited", "request_failed"}
  Backends = {"council", "direct"}
  InvalidAttemptLimit = 2
  Waiters <- PlaintiffAndMember
INVARIANTS OneResolutionPerTurn NoLostWakeup
PROPERTIES NothingCommittedLate AnswersOwnOpportunity RunEnds
