CONSTANTS
  NumThreads = 2
  BlockSize = 6
  EventSizes = {1, 2}
  FunctionStartSize = 2
  DataSizes = {1, 2}
  SingleBlockThreshold = 2
  TraceSizeLimit = 20
  MaxEvents = 3
  MaxData = 1
  MaxFailures = 3
SPECIFICATION BoundedSpec
CHECK_DEADLOCK FALSE
INVARIANTS
  ReadIsExact
  ReadableBetweenBlocks
PROPERTIES
  NothingOverwritten
