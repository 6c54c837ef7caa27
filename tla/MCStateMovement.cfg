\* The recordings are those for which the order of replay is proved.
SPECIFICATION FairSpec
CONSTANTS
  a = a
  b = b
  NoWorker = NoWorker
  Workers = {a, b}
  Recordings <- AllRecordings
INVARIANTS
  SharedEventsInOrder
  RestsBetweenBlocks
  MovementIsTruthful
PROPERTIES
  SeenTimeIsReached
  MovementEnds
