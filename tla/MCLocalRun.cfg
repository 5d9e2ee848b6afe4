SPECIFICATION FairSpec
CONSTANTS
  Members = {"m1"}
  Roles = {"plaintiff"}
  OutputLimit = TRUE
  MaxOpps = 2
INVARIANTS SuccessIsReal OneAgentPerMember NothingLeftUnreported
PROPERTIES ShutdownEnds
