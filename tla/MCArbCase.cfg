\* Three members over two rounds, evidence by both parties.
SPECIFICATION Spec
CONSTANTS
  CouncilSize = 3
  RequiredVotes = 2
  MaxRounds = 2
  MaxEvidencePerSide = 1
  MaxExhibitsPerFiling = 0
  MaxExhibitsPerSide = 0
  Catalog = {}
  NewEvidence = {"n1", "n2"}
  ExhibitLists <- NoExhibits
  FailureReasons = {"deadline_expired"}
INVARIANTS TypeOK LiveCaseHasOpportunity DecisionSound HeardBothSides CustodyChain AuthoritySpentOnce
PROPERTIES RoundEndsWhenAllVoted
