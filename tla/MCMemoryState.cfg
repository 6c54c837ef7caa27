SPECIFICATION Spec
CONSTANTS
  Addresses = {0, 1}
  MaxSize = 2
  Values = {1, 2}
  Uninit = Uninit
  MaxEvents = 4
  OverlappingCopies = FALSE
INVARIANTS
  LatestCanBeTakenBack
PROPERTIES
  MemoryIsAsRecorded
