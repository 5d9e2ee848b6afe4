SPECIFICATION Spec
CONSTANTS
  CouncilSize = 1
  RequiredVotes = 1
  MaxRounds = 1
  MaxEvidencePerSide = 1
  MaxExhibitsPerFiling = 1
  MaxExhibitsPerSide = 1
  Catalog = {"c1"}
  NewEvidence = {"n1"}
  ExhibitLists <- SomeExhibits
  FailureReasons = {"deadline_expired", "attempts_exhausted", "agent_exited", "request_failed"}
  Backends = {"council"}
  InvalidAttemptLimit = 1
  Waiters <- Nobody
INVARIANTS CertificateVerifies OnlyFaultsEndRuns
PROPERTIES ImplementsCase
