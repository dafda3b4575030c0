SPECIFICATION Spec
CONSTANTS
  Writers = {w1, w2, w3}
  MaxQueueRows = 7
  DropBatch = 2
  MaxMessages = 10
  MaxFaults = 2
INVARIANTS BoundedOvershoot BacklogKept NewestKept GapsBounded
SYMMETRY WriterSymmetry
CHECK_DEADLOCK FALSE
