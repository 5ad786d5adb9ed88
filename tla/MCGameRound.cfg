SPECIFICATION Spec
CONSTANTS
  Buzzers = {b1, b2}
  RCV_QUEUE_SIZE = 1
  None = None
  MaxResets = 2
  MaxEdges = 2
SYMMETRY Symmetry
INVARIANT TypeOK
INVARIANT CleanRoundAgrees
CHECK_DEADLOCK FALSE
