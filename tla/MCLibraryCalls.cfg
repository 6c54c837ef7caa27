SPECIFICATION Spec
CONSTANTS
  Top <- MCTop
  HeapStarts <- AllStarts
  Profiles <- MCProfiles
CHECK_DEADLOCK FALSE
INVARIANTS
  ChecksAreExact
  RecordingIsExact
  BlocksAreTracked
  PointersInMemory
