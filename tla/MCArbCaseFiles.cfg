SPECIFICATION Spec
CONSTANTS
  Runs = {p, q}
  Opportunities <- Turns
  MaxUploads = 1
  Size = 2
  MaxPerSide = 2
  None = None
SYMMETRY Symmetry
INVARIANTS OneOwner EvidenceOnDisk
\* Every run ends, refused, finished, failed or killed.
CHECK_DEADLOCK FALSE
